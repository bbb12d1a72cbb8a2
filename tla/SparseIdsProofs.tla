-------------------------- MODULE SparseIdsProofs --------------------------
(***************************************************************************)
(* What the specification of SparseIds keeps, for any number of messages,  *)
(* whatever is on its way to the client and in whatever order windows      *)
(* open, requests fail and the history is loaded.                          *)
(***************************************************************************)
EXTENDS SparseIds, Induction, SequenceTheorems

(***************************************************************************)
(* The inductive invariant.  What is on its way leads from a past state of *)
(* the server, the one the client is at, to the server's state now; what   *)
(* the client has is right of the past state.                              *)
(***************************************************************************)
State == [media : SUBSET Ids, next : 1 .. Top]

Between(M, from, till) == {x \in M : from <= x /\ x <= till}
Content(S) == UNION {s.ids : s \in S}

Event ==
  [kind : {"new", "delete"}, id : Ids] \cup [kind : {"tooLong"}, ids : SUBSET Ids] \cup
  [kind : {"found"}, ask : Optional(Ask), ids : SUBSET Ids, from : 0 .. Top, till : 0 .. Top,
   total : Optional(Nat)]

\* Message m tells a client at a of b.
Tells(a, m, b) ==
  \/ /\ m.kind = "new" /\ m.id = a.next
     /\ b.next = a.next + 1 /\ b.media = a.media \cup {m.id}
  \/ /\ m.kind = "delete" /\ m.id \in a.media
     /\ b.next = a.next /\ b.media = a.media \ {m.id}
  \/ /\ m.kind = "tooLong" /\ b.next > a.next
     /\ m.ids = a.next .. (b.next - 1) /\ b.media = a.media \cup m.ids
  \/ m.kind = "found" /\ b = a

\* Media are numbered on, and none that is deleted comes back.
Later(a, b) == a.next <= b.next /\ Between(b.media, 1, a.next - 1) \subseteq a.media

\* P are the states of the server that the client is still to be told of.
Past(P) ==
  /\ P \in [0 .. Len(net) -> State]
  /\ P[Len(net)] = [media |-> media, next |-> next]
  /\ \A i \in 0 .. Len(net) : P[i].media \subseteq 1 .. (P[i].next - 1)
  /\ \A i \in 1 .. Len(net) : Tells(P[i - 1], net[i], P[i])
  /\ \A i, j \in 0 .. Len(net) : i <= j => Later(P[i], P[j])

\* A range that reaches no message to come, unless it reaches the bottom.
Ranged(r, a) == r.from <= r.till /\ r.from < a.next /\ (r.till = Top \/ r.till < a.next)

\* What was found is what the server had, but for what is in K, the slices.
Finds(m, a, K) ==
  m.kind = "found" =>
    /\ m.ids \subseteq Between(a.media, m.from, m.till)
    /\ Between(a.media, m.from, m.till) \subseteq m.ids \cup K
    /\ Ranged(m, a)
    /\ m.total \in {None, Cardinality(a.media)}

\* A slice has all there is in its range, and the count counts at least as much.
Exact(s, M) == s.ids = Between(M, s.from, s.till)
Apart(S) == \A s, t \in S : s # t => s.till < t.from \/ t.till < s.from
Lists(S, a) ==
  /\ S \subseteq Slice /\ IsFiniteSet(S) /\ Apart(S)
  /\ \A s \in S : Exact(s, a.media) /\ Ranged(s, a)
Counts(c, M) == c = None \/ (c \in Nat /\ c >= Cardinality(M))

\* Messages ids have all there is between two of them, or one of them and key.
Whole(key, ids, M) ==
  key # 0 /\ ids # {} =>
    \A x \in M : \A i, j \in {key} \cup ids : i <= x /\ x <= j => x \in ids

\* So do those of a window, which knows the count.
Views(v, c, a, K) ==
  /\ v \in Viewer /\ v.key < a.next /\ v.ids \subseteq K
  /\ v.full = c /\ Whole(v.key, v.ids, a.media)

\* It asks for what is beside a message of a slice, or around one it was told of.
Asks(q, a, K) ==
  /\ q \in Ask /\ q.id < a.next
  /\ q.dir # "Around" /\ q.id \in a.media => q.id \in K

Knows(a, K) ==
  /\ Lists(slices, a) /\ Counts(count, a.media)
  /\ viewer # None => Views(viewer, count, a, K)
  /\ \A q \in asked : Asks(q, a, K)

Agrees(P) ==
  /\ Past(P)
  /\ Knows(P[0], Content(slices))
  /\ \A i \in 1 .. Len(net) : Finds(net[i], P[i], Content(slices))

IInv == net \in Seq(Event) /\ Len(net) <= MaxNet /\ \E P : Agrees(P)

-----------------------------------------------------------------------------
\* Sets of messages and of places in a chat.

\* The places are numbers, and the bounds on the two sides of a window, too.
LEMMA Places ==
  /\ MaxId \in Nat /\ Top \in Nat /\ Top = MaxId + 1 /\ Ids \subseteq 1 .. MaxId
  /\ LimitBefore \in Nat /\ LimitAfter \in Nat /\ Limit \in Nat /\ Limit >= 2
BY BoundsAssumption DEF Top, Ids

\* A set of places is finite.
LEMMA Finite ==
  ASSUME NEW S, S \subseteq 0 .. Top
  PROVE  IsFiniteSet(S) /\ Cardinality(S) \in Nat
<1>1. IsFiniteSet(0 .. Top)
  BY Places, FS_Interval
<1> QED BY <1>1, FS_Subset, FS_CardinalityType

\* It has no more than a set that has it.
LEMMA Fewer ==
  ASSUME NEW S, S \subseteq 0 .. Top, NEW T, T \subseteq S
  PROVE  /\ Cardinality(T) <= Cardinality(S)
         /\ Cardinality(S) <= Cardinality(T) => T = S
<1>1. IsFiniteSet(S) /\ IsFiniteSet(T) /\ Cardinality(S) \in Nat /\ Cardinality(T) \in Nat
  BY Finite
<1>2. Cardinality(T) <= Cardinality(S) /\ (Cardinality(S) = Cardinality(T) => S = T)
  BY <1>1, FS_Subset
<1> QED BY <1>1, <1>2

\* It has a first and a last place.
LEMMA Ends ==
  ASSUME NEW S, S \subseteq 0 .. Top, S # {}
  PROVE  /\ Min(S) \in S /\ \A i \in S : Min(S) <= i
         /\ Max(S) \in S /\ \A i \in S : i <= Max(S)
<1>1. S \subseteq Nat
  BY Places
<1>2. \E n \in S : \A m \in S : n <= m
  <2>1. PICK n \in S : \A m \in S : ~(m < n)
    BY <1>1, LeastNat
  <2> QED BY <1>1, <2>1
<1>3. \E n \in S : \A m \in S : n >= m
  <2> DEFINE T == {Top - m : m \in S}
  <2>1. T \subseteq Nat /\ T # {}
    <3>1. \A m \in S : Top - m \in Nat
      BY Places
    <3> QED BY <3>1
  <2>2. PICK t \in T : \A m \in T : ~(m < t)
    <3> HIDE DEF T
    <3> QED BY <2>1, LeastNat
  <2>3. PICK n \in S : t = Top - n
    BY <2>2
  <2>4. ASSUME NEW m \in S PROVE n >= m
    <3>1. Top - m \in T
      OBVIOUS
    <3>2. ~(Top - m < Top - n)
      BY <2>2, <2>3, <3>1
    <3> QED BY <1>1, <3>2, Places
  <2> QED BY <2>4
<1>4. Min(S) \in S /\ \A i \in S : Min(S) <= i
  BY <1>2 DEF Min
<1>5. Max(S) \in S /\ \A i \in S : Max(S) >= i
  BY <1>3 DEF Max
<1> QED BY <1>1, <1>4, <1>5

\* Of a number of messages before a place the greatest are next to it.
LEMMA GreatestAre ==
  ASSUME NEW S, S \subseteq 0 .. Top, NEW n \in Nat
  PROVE  /\ Greatest(S, n) \subseteq S
         /\ \A x \in S, y \in Greatest(S, n) : y <= x => x \in Greatest(S, n)
         /\ n > 0 /\ S # {} => Greatest(S, n) # {}
<1>1. ASSUME NEW x \in S, NEW y \in Greatest(S, n), y <= x PROVE x \in Greatest(S, n)
  <2> DEFINE X == {j \in S : j > x}
             Y == {j \in S : j > y}
  <2>0. \A j \in S : j > x => j > y
    <3>1. y \in S /\ \A j \in S : j \in Int
      BY Places DEF Greatest
    <3> QED BY <1>1, <3>1
  <2>1. X \subseteq Y
    BY <2>0
  <2>2. X \subseteq 0 .. Top /\ Y \subseteq 0 .. Top
    OBVIOUS
  <2>3. Cardinality(X) <= Cardinality(Y) /\ Cardinality(X) \in Nat /\ Cardinality(Y) \in Nat
    <3> HIDE DEF X, Y
    <3> QED BY <2>1, <2>2, Fewer, Finite
  <2>4. Cardinality(Y) < n
    BY DEF Greatest
  <2>5. Cardinality(X) < n
    <3> HIDE DEF X, Y
    <3> QED BY <2>3, <2>4
  <2> QED BY <2>5 DEF Greatest
<1>2. ASSUME n > 0, S # {} PROVE Greatest(S, n) # {}
  <2>1. PICK m \in S : \A i \in S : i <= m
    BY <1>2, Ends
  <2>2. {j \in S : j > m} = {}
    <3>1. \A j \in S : j \in Int /\ ~(j > m)
      BY <2>1, Places
    <3> QED BY <3>1
  <2>3. Cardinality({j \in S : j > m}) < n
    BY <1>2, <2>2, FS_EmptySet
  <2> QED BY <2>3 DEF Greatest
<1> QED BY <1>1, <1>2 DEF Greatest

\* Of those behind a place it is the least.
LEMMA LeastAre ==
  ASSUME NEW S, S \subseteq 0 .. Top, NEW n \in Nat
  PROVE  /\ Least(S, n) \subseteq S
         /\ \A x \in S, y \in Least(S, n) : x <= y => x \in Least(S, n)
         /\ n > 0 /\ S # {} => Least(S, n) # {}
<1>1. ASSUME NEW x \in S, NEW y \in Least(S, n), x <= y PROVE x \in Least(S, n)
  <2> DEFINE X == {j \in S : j < x}
             Y == {j \in S : j < y}
  <2>0. \A j \in S : j < x => j < y
    <3>1. y \in S /\ \A j \in S : j \in Int
      BY Places DEF Least
    <3> QED BY <1>1, <3>1
  <2>1. X \subseteq Y
    BY <2>0
  <2>2. X \subseteq 0 .. Top /\ Y \subseteq 0 .. Top
    OBVIOUS
  <2>3. Cardinality(X) <= Cardinality(Y) /\ Cardinality(X) \in Nat /\ Cardinality(Y) \in Nat
    <3> HIDE DEF X, Y
    <3> QED BY <2>1, <2>2, Fewer, Finite
  <2>4. Cardinality(Y) < n
    BY DEF Least
  <2>5. Cardinality(X) < n
    <3> HIDE DEF X, Y
    <3> QED BY <2>3, <2>4
  <2> QED BY <2>5 DEF Least
<1>2. ASSUME n > 0, S # {} PROVE Least(S, n) # {}
  <2>1. PICK m \in S : \A i \in S : m <= i
    BY <1>2, Ends
  <2>2. {j \in S : j < m} = {}
    <3>1. \A j \in S : j \in Int /\ ~(j < m)
      BY <2>1, Places
    <3> QED BY <3>1
  <2>3. Cardinality({j \in S : j < m}) < n
    BY <1>2, <2>2, FS_EmptySet
  <2> QED BY <2>3 DEF Least
<1> QED BY <1>1, <1>2 DEF Least

\* The larger of two numbers.
LEMMA Larger ==
  ASSUME NEW i \in Nat, NEW j \in Nat
  PROVE  Max({i, j}) \in Nat /\ Max({i, j}) >= i /\ Max({i, j}) >= j
<1>1. \E x \in {i, j} : \A y \in {i, j} : x >= y
  OBVIOUS
<1>2. Max({i, j}) \in {i, j} /\ \A y \in {i, j} : Max({i, j}) >= y
  BY <1>1 DEF Max
<1> QED BY <1>2

\* A state of the server, with the media in it.
Placed(a) == a \in State /\ a.media \subseteq 1 .. (a.next - 1)

\* The media are messages.
LEMMA MediaArePlaced ==
  ASSUME NEW a, Placed(a)
  PROVE  /\ a.next \in 1 .. Top /\ a.media \subseteq Ids /\ a.media \subseteq 0 .. Top
         /\ \A x \in a.media : x \in Nat /\ 1 <= x /\ x < a.next /\ x <= MaxId
         /\ IsFiniteSet(a.media) /\ Cardinality(a.media) \in Nat
<1>1. a.next \in 1 .. Top /\ a.media \in SUBSET Ids /\ a.media \subseteq 1 .. (a.next - 1)
  BY DEF Placed, State
<1>2. \A x \in a.media : x \in Nat /\ 1 <= x /\ x < a.next /\ x <= MaxId
  BY <1>1, Places
<1>3. a.media \subseteq 0 .. Top
  BY <1>2, Places
<1> QED BY <1>1, <1>2, <1>3, Finite

-----------------------------------------------------------------------------
(***************************************************************************)
(* addRange                                                                *)
(***************************************************************************)

\* The slices lack of b at most what is in the range, and the range at most what is
\* in slices.
Adds(ids, from, till, b) ==
  /\ slices \subseteq Slice /\ IsFiniteSet(slices) /\ Apart(slices)
  /\ \A s \in slices :
       /\ Ranged(s, b)
       /\ s.ids \subseteq Between(b.media, s.from, s.till)
       /\ Between(b.media, s.from, s.till) \subseteq s.ids \cup ids
  /\ ids \subseteq Between(b.media, from, till)
  /\ Between(b.media, from, till) \subseteq ids \cup Content(slices)
  /\ from \in 0 .. Top /\ till \in 0 .. Top
  /\ from <= till /\ from < b.next /\ (till = Top \/ till < b.next)

\* The range with all that it touches is a slice, of which the others are apart.
Joins(u, ids, from, till, b) ==
  /\ u \in Slice /\ Exact(u, b.media) /\ Ranged(u, b) /\ ids \subseteq u.ids
  /\ \A s \in Touched(from, till) : s.ids \subseteq u.ids
  /\ \A s \in slices \ Touched(from, till) :
       Exact(s, b.media) /\ (s.till < u.from \/ u.till < s.from)

\* The fields of a slice.
LEMMA SliceFields ==
  ASSUME NEW s \in Slice
  PROVE  /\ s.ids \subseteq Ids /\ s.from \in 0 .. Top /\ s.till \in 0 .. Top
         /\ s.from \in Nat /\ s.till \in Nat
BY Places DEF Slice

\* uniteAndAdd makes such a slice.
LEMMA UnitedJoins ==
  ASSUME NEW b, Placed(b), NEW ids, NEW from, NEW till, Adds(ids, from, till, b)
  PROVE  Joins(United(ids, from, till), ids, from, till, b)
<1> DEFINE them == Touched(from, till)
           F == {from} \cup {s.from : s \in them}
           T == {till} \cup {s.till : s \in them}
           u == United(ids, from, till)
<1>1. u = [ids |-> ids \cup UNION {s.ids : s \in them}, from |-> Min(F), till |-> Max(T)]
  BY DEF United
<1>2. /\ them \subseteq slices /\ from \in Nat /\ till \in Nat /\ Top \in Nat /\ b.next \in Nat
      /\ \A s \in slices : s \in Slice /\ s.from \in Nat /\ s.till \in Nat
      /\ \A s \in slices : s \in them <=> from <= s.till /\ s.from <= till
  BY SliceFields, MediaArePlaced, Places DEF Adds, Touched
<1>3. F \subseteq 0 .. Top /\ T \subseteq 0 .. Top
  BY <1>2, SliceFields DEF Adds
<1>4. /\ u.from \in F /\ u.from <= from /\ \A s \in them : u.from <= s.from
      /\ u.till \in T /\ till <= u.till /\ \A s \in them : s.till <= u.till
  <2>1. from \in F /\ till \in T /\ \A s \in them : s.from \in F /\ s.till \in T
    OBVIOUS
  <2>2. F # {} /\ T # {} /\ u.from = Min(F) /\ u.till = Max(T)
    BY <1>1
  <2> HIDE DEF F, T, u, them
  <2>3. /\ Min(F) \in F /\ \A i \in F : Min(F) <= i
        /\ Max(T) \in T /\ \A i \in T : i <= Max(T)
    BY <1>3, <2>2, Ends
  <2> QED BY <2>1, <2>2, <2>3
<1>5. /\ u.ids = ids \cup UNION {s.ids : s \in them}
      /\ ids \subseteq u.ids /\ \A s \in them : s.ids \subseteq u.ids
  BY <1>1
<1>t. u.from \in Nat /\ u.till \in Nat /\ u.from \in 0 .. Top /\ u.till \in 0 .. Top
  BY <1>3, <1>4, Places
<1>m. \A x \in b.media : x \in Nat
  BY MediaArePlaced
<1> HIDE DEF F, T, u, them
<1>f. /\ u.from = from \/ \E s \in them : u.from = s.from
      /\ u.till = till \/ \E s \in them : u.till = s.till
  BY <1>4 DEF F, T
<1>6. ASSUME NEW x \in u.ids PROVE x \in Between(b.media, u.from, u.till)
  <2>1. CASE x \in ids
    <3>1. x \in b.media /\ from <= x /\ x <= till
      BY <2>1 DEF Adds, Between
    <3> QED BY <1>2, <1>4, <1>t, <1>m, <3>1 DEF Between
  <2>2. CASE x \notin ids
    <3>1. PICK s \in them : x \in s.ids
      BY <1>5, <2>2
    <3>2. x \in b.media /\ s.from <= x /\ x <= s.till
      BY <1>2, <3>1 DEF Adds, Between
    <3> QED BY <1>2, <1>4, <1>t, <1>m, <3>2 DEF Between
  <2> QED BY <2>1, <2>2
<1>7. ASSUME NEW x \in Between(b.media, u.from, u.till) PROVE x \in u.ids
  <2>0. x \in b.media /\ x \in Nat /\ u.from <= x /\ x <= u.till
    BY <1>m DEF Between
  <2>1. CASE from <= x /\ x <= till
    <3>1. x \in ids \/ \E s \in slices : x \in s.ids
      BY <2>0, <2>1 DEF Adds, Between, Content
    <3>2. ASSUME NEW s \in slices, x \in s.ids PROVE x \in u.ids
      <4>1. s.from <= x /\ x <= s.till
        BY <3>2 DEF Adds, Between
      <4>2. s \in them
        BY <1>2, <2>0, <2>1, <4>1
      <4> QED BY <1>5, <3>2, <4>2
    <3> QED BY <1>5, <3>1, <3>2
  <2>2. CASE x < from
    <3>1. PICK s \in them : u.from = s.from
      BY <1>2, <1>f, <2>0, <2>2
    <3>2. x \in Between(b.media, s.from, s.till)
      BY <1>2, <2>0, <2>2, <3>1 DEF Between
    <3>3. x \in s.ids \cup ids
      BY <1>2, <3>2 DEF Adds
    <3>4. x \notin ids
      BY <1>2, <2>0, <2>2 DEF Adds, Between
    <3> QED BY <1>5, <3>3, <3>4
  <2>3. CASE x > till
    <3>1. PICK s \in them : u.till = s.till
      BY <1>2, <1>f, <2>0, <2>3
    <3>2. x \in Between(b.media, s.from, s.till)
      BY <1>2, <2>0, <2>3, <3>1 DEF Between
    <3>3. x \in s.ids \cup ids
      BY <1>2, <3>2 DEF Adds
    <3>4. x \notin ids
      BY <1>2, <2>0, <2>3 DEF Adds, Between
    <3> QED BY <1>5, <3>3, <3>4
  <2> QED BY <1>2, <2>0, <2>1, <2>2, <2>3
<1>8. u.ids \subseteq Ids
  BY <1>6, MediaArePlaced DEF Between
<1>9. u \in Slice
  BY <1>1, <1>8, <1>t DEF Slice, u
<1>10. Ranged(u, b)
  <2>1. from <= till /\ from < b.next /\ (till = Top \/ till < b.next)
    BY DEF Adds
  <2>2. \A s \in them : Ranged(s, b)
    BY <1>2 DEF Adds
  <2> QED BY <1>2, <1>4, <1>t, <1>f, <2>1, <2>2 DEF Ranged
<1>11. ASSUME NEW s \in slices, s \notin them
       PROVE  Exact(s, b.media) /\ (s.till < u.from \/ u.till < s.from)
  <2>1. s.till < from \/ till < s.from
    BY <1>2, <1>11
  <2>2. s.from <= s.till /\ s.ids \subseteq Between(b.media, s.from, s.till)
        /\ Between(b.media, s.from, s.till) \subseteq s.ids \cup ids
    BY DEF Adds, Ranged
  <2>3. ASSUME NEW x \in Between(b.media, s.from, s.till) PROVE x \notin ids
    <3>1. x \in Nat /\ s.from <= x /\ x <= s.till
      BY <1>m DEF Between
    <3>2. x \in ids => from <= x /\ x <= till
      BY DEF Adds, Between
    <3> QED BY <1>2, <2>1, <3>1, <3>2
  <2>4. Exact(s, b.media)
    BY <2>2, <2>3 DEF Exact
  <2>5. \A t \in them : s.till < t.from \/ t.till < s.from
    BY <1>2, <1>11 DEF Adds, Apart
  <2>6. \A t \in them : from <= t.till /\ t.from <= till
    BY <1>2
  <2>7. CASE s.till < from
    <3>1. ASSUME NEW t \in them, u.from = t.from PROVE s.till < u.from
      BY <1>2, <2>2, <2>5, <2>6, <2>7, <3>1
    <3> QED BY <1>f, <2>4, <2>7, <3>1
  <2>8. CASE till < s.from
    <3>1. ASSUME NEW t \in them, u.till = t.till PROVE u.till < s.from
      BY <1>2, <2>2, <2>5, <2>6, <2>8, <3>1
    <3> QED BY <1>f, <2>4, <2>8, <3>1
  <2> QED BY <2>1, <2>7, <2>8
<1> QED BY <1>5, <1>6, <1>7, <1>9, <1>10, <1>11 DEF Joins, Exact, them, u

\* What is counted, before the slices say better.
CountedWith(ids, from, till, total, isNew) ==
  IF total # None THEN total
  ELSE IF isNew /\ count # None THEN count + Added(ids, from, till)
  ELSE count

\* An update of the list tells what is in a range.
Fits(u, M, K) ==
  /\ u.ids = Between(M, u.from, u.till) /\ u.ids \subseteq K
  /\ u.from \in Nat /\ u.till \in Nat /\ u.from <= u.till

\* Result r of a range is what there is at b, and more than there was.
Took(r, ids, b) ==
  /\ Lists(r.slices, b) /\ Counts(r.count, b.media)
  /\ ids \cup Content(slices) \subseteq Content(r.slices)
  /\ count # None => r.count # None
  /\ r.update.count = r.count
  /\ r.update.ids = None \/ Fits(r.update, b.media, Content(r.slices))

\* What is in slices is media, in a number that is known.
LEMMA Listed ==
  ASSUME NEW b, Placed(b), NEW S, Lists(S, b)
  PROVE  /\ Content(S) \subseteq b.media
         /\ \A s \in S : /\ s.ids \subseteq b.media /\ Cardinality(s.ids) \in Nat
                         /\ Cardinality(s.ids) <= Cardinality(b.media)
                         /\ Cardinality(b.media) <= Cardinality(s.ids) => s.ids = b.media
<1>1. \A s \in S : s.ids \subseteq b.media
  BY DEF Lists, Exact, Between
<1>2. b.media \subseteq 0 .. Top
  BY MediaArePlaced
<1>3. \A s \in S : s.ids \subseteq 0 .. Top
  BY <1>1, <1>2
<1> QED BY <1>1, <1>2, <1>3, Fewer, Finite DEF Content

\* The slices with one that joins.
LEMMA JoinedLists ==
  ASSUME NEW b, Placed(b), NEW ids, NEW from, NEW till, Adds(ids, from, till, b),
         NEW u, Joins(u, ids, from, till, b), NEW S,
         S = (slices \ Touched(from, till)) \cup {u}
  PROVE  /\ Lists(S, b) /\ ids \cup Content(slices) \subseteq Content(S) /\ u.ids \subseteq Content(S)
<1>1. S \subseteq Slice /\ \A s \in S : Exact(s, b.media) /\ Ranged(s, b)
  BY DEF Adds, Joins
<1>2. IsFiniteSet(S)
  <2>1. IsFiniteSet(slices \ Touched(from, till))
    BY FS_Difference DEF Adds
  <2> QED BY <2>1, FS_AddElement
<1>3. Apart(S)
  <2> SUFFICES ASSUME NEW s \in S, NEW t \in S, s # t PROVE s.till < t.from \/ t.till < s.from
    BY DEF Apart
  <2> QED BY DEF Adds, Joins, Apart
<1>4. ASSUME NEW x \in ids \cup Content(slices) PROVE x \in Content(S)
  <2>1. CASE x \in ids
    BY <2>1 DEF Joins, Content
  <2>2. CASE x \in Content(slices)
    <3>1. PICK s \in slices : x \in s.ids
      BY <2>2 DEF Content
    <3> QED BY <3>1 DEF Joins, Content
  <2> QED BY <2>1, <2>2
<1>5. u.ids \subseteq Content(S)
  BY DEF Content
<1> QED BY <1>1, <1>2, <1>3, <1>4, <1>5 DEF Lists

\* The only slice, widened to all places if it has that many media.
Widened(s, c) ==
  IF Cardinality(s.ids) >= c THEN [s EXCEPT !.from = 0, !.till = Top] ELSE s
AllWidened(S, c) ==
  IF Cardinality(S) = 1 /\ c # None THEN {Widened(s, c) : s \in S} ELSE S

\* It has the media still.
LEMMA WidenedIs ==
  ASSUME NEW b, Placed(b), NEW s \in Slice, Exact(s, b.media), Ranged(s, b),
         NEW c, c # None, Counts(c, b.media)
  PROVE  /\ Widened(s, c) \in Slice /\ Exact(Widened(s, c), b.media)
         /\ Ranged(Widened(s, c), b) /\ Widened(s, c).ids = s.ids
<1>1. CASE Cardinality(s.ids) >= c
  <2> DEFINE t == Widened(s, c)
  <2>1. t = [s EXCEPT !.from = 0, !.till = Top]
    BY <1>1 DEF Widened
  <2>2. t.ids = s.ids /\ t.from = 0 /\ t.till = Top /\ t \in Slice
    <3>1. s \in [ids : SUBSET Ids, from : 0 .. Top, till : 0 .. Top]
      BY DEF Slice
    <3>2. 0 \in 0 .. Top /\ Top \in 0 .. Top
      BY Places
    <3> HIDE DEF t
    <3> QED BY <2>1, <3>1, <3>2 DEF Slice
  <2> HIDE DEF t
  <2>3. s.ids = b.media
    <3>1. s.ids \subseteq b.media
      BY DEF Exact, Between
    <3>2. b.media \subseteq 0 .. Top /\ Cardinality(b.media) \in Nat
      BY MediaArePlaced
    <3>3. s.ids \subseteq 0 .. Top
      BY <3>1, <3>2
    <3>4. /\ Cardinality(s.ids) \in Nat
          /\ Cardinality(b.media) <= Cardinality(s.ids) => s.ids = b.media
      BY <3>1, <3>2, <3>3, Finite, Fewer
    <3>5. c \in Nat /\ c >= Cardinality(b.media)
      BY DEF Counts
    <3> QED BY <1>1, <3>2, <3>4, <3>5
  <2>4. Exact(t, b.media)
    <3>1. \A x \in b.media : x \in Nat /\ 0 <= x /\ x <= Top
      BY MediaArePlaced, Places
    <3> QED BY <2>2, <2>3, <3>1 DEF Exact, Between
  <2>5. Ranged(t, b)
    <3>1. Top \in Nat /\ b.next \in 1 .. Top
      BY MediaArePlaced, Places
    <3>2. 0 <= Top /\ 0 < b.next
      BY <3>1
    <3> QED BY <2>2, <3>2 DEF Ranged
  <2> QED BY <2>2, <2>4, <2>5 DEF t
<1>2. CASE ~(Cardinality(s.ids) >= c)
  BY <1>2 DEF Widened
<1> QED BY <1>1, <1>2

\* So the slices stay right.
LEMMA WidenedLists ==
  ASSUME NEW b, Placed(b), NEW S, Lists(S, b), NEW c, Counts(c, b.media)
  PROVE  Lists(AllWidened(S, c), b) /\ Content(AllWidened(S, c)) = Content(S)
<1> DEFINE R == AllWidened(S, c)
<1>1. CASE Cardinality(S) = 1 /\ c # None
  <2>1. PICK s : S = {s}
    BY <1>1, FS_Singleton DEF Lists
  <2>2. R = {Widened(s, c)}
    BY <1>1, <2>1 DEF AllWidened
  <2>3. s \in Slice /\ Exact(s, b.media) /\ Ranged(s, b)
    BY <2>1 DEF Lists
  <2>4. /\ Widened(s, c) \in Slice /\ Exact(Widened(s, c), b.media)
        /\ Ranged(Widened(s, c), b) /\ Widened(s, c).ids = s.ids
    BY <1>1, <2>3, WidenedIs
  <2> HIDE DEF R
  <2>5. Apart(R) /\ IsFiniteSet(R)
    BY <2>2, FS_Singleton DEF Apart
  <2>6. Content(R) = Content(S)
    BY <2>1, <2>2, <2>4 DEF Content
  <2>7. Lists(R, b)
    BY <2>2, <2>4, <2>5 DEF Lists
  <2> QED BY <2>6, <2>7 DEF R
<1>2. CASE ~(Cardinality(S) = 1 /\ c # None)
  BY <1>2 DEF AllWidened
<1> QED BY <1>1, <1>2

\* A slice with all places has all media.
LEMMA WholeHasAll ==
  ASSUME NEW b, Placed(b), NEW s, Exact(s, b.media), s.from = 0, s.till = Top
  PROVE  s.ids = b.media
<1>1. \A x \in b.media : 0 <= x /\ x <= Top
  BY MediaArePlaced, Places
<1> QED BY <1>1 DEF Exact, Between

\* addRange
LEMMA AddRangeTakes ==
  ASSUME NEW b, Placed(b), NEW ids, NEW from, NEW till, NEW total, NEW isNew,
         Adds(ids, from, till, b),
         Counts(CountedWith(ids, from, till, total, isNew), b.media),
         count # None => CountedWith(ids, from, till, total, isNew) # None
  PROVE  Took(AddRange(ids, from, till, total, isNew), ids, b)
<1> DEFINE nothing == ids = {} /\ from = till
           united  == United(ids, from, till)
           size    == Cardinality(united.ids)
           now     == IF nothing THEN slices ELSE (slices \ Touched(from, till)) \cup {united}
           counted == CountedWith(ids, from, till, total, isNew)
           single  == Cardinality(now) = 1
           ranged  == IF single /\ counted # None
                      THEN {IF Cardinality(s.ids) >= counted THEN [s EXCEPT !.from = 0, !.till = Top]
                            ELSE s : s \in now}
                      ELSE now
           whole   == {s \in ranged : single /\ s.from = 0 /\ s.till = Top}
           sized   == IF whole = {} THEN counted ELSE Cardinality(UNION {s.ids : s \in whole})
           final   == IF sized # None /\ ~nothing THEN Max({sized, size}) ELSE sized
           r       == AddRange(ids, from, till, total, isNew)
           update  == [ids   |-> IF nothing THEN None ELSE united.ids,
                       from  |-> united.from, till |-> united.till, count |-> final]
<1>1. r = [slices |-> ranged, count |-> final, update |-> update]
  BY DEF AddRange, CountedWith
<1> HIDE DEF r
<1>2. r.slices = ranged /\ r.count = final /\ r.update = update
  BY <1>1
<1>3. /\ update.ids = IF nothing THEN None ELSE united.ids
      /\ update.from = united.from /\ update.till = united.till /\ update.count = final
  OBVIOUS
<1> HIDE DEF update
<1>4. Joins(united, ids, from, till, b)
  BY UnitedJoins
<1> HIDE DEF united
<1>5. /\ Lists(now, b) /\ ids \cup Content(slices) \subseteq Content(now)
      /\ ~nothing => united.ids \subseteq Content(now)
  <2>1. CASE nothing
    <3>1. \A s \in slices : Exact(s, b.media)
      BY <2>1 DEF Adds, Exact
    <3>2. Lists(slices, b)
      BY <3>1 DEF Adds, Lists
    <3> QED BY <2>1, <3>2
  <2>2. CASE ~nothing
    <3>1. now = (slices \ Touched(from, till)) \cup {united}
      BY <2>2
    <3> HIDE DEF now, nothing
    <3> QED BY <1>4, <3>1, JoinedLists
  <2> QED BY <2>1, <2>2
<1> HIDE DEF now, counted, nothing
<1>6. Counts(counted, b.media) /\ (count # None => counted # None)
  BY DEF counted
<1>7. Lists(ranged, b) /\ Content(ranged) = Content(now)
  <2>1. ranged = AllWidened(now, counted)
    BY DEF AllWidened, Widened
  <2> HIDE DEF ranged
  <2> QED BY <1>5, <1>6, <2>1, WidenedLists
<1> HIDE DEF ranged
<1>8. Counts(sized, b.media) /\ (count # None => sized # None)
  <2>1. CASE whole = {}
    BY <1>6, <2>1
  <2>2. CASE whole # {}
    <3>1. PICK s \in ranged : s.from = 0 /\ s.till = Top
      BY <2>2
    <3>2. \A t \in whole : t.ids = b.media
      BY <1>7, WholeHasAll DEF Lists
    <3>3. UNION {t.ids : t \in whole} = b.media
      <4> HIDE DEF whole
      <4> QED BY <2>2, <3>2
    <3>4. sized = Cardinality(b.media)
      BY <2>2, <3>3
    <3>5. Cardinality(b.media) \in Nat /\ None \notin Nat
      BY MediaArePlaced, NoneAssumption
    <3> HIDE DEF sized
    <3> QED BY <3>4, <3>5 DEF Counts
  <2> QED BY <2>1, <2>2
<1> HIDE DEF sized
<1>9. Counts(final, b.media) /\ (count # None => final # None)
  <2>1. CASE sized # None /\ ~nothing
    <3>1. sized \in Nat /\ sized >= Cardinality(b.media) /\ Cardinality(b.media) \in Nat
      BY <1>8, <2>1, MediaArePlaced DEF Counts
    <3>2. size \in Nat
      <4>1. united.ids \subseteq 0 .. Top
        BY <1>4, SliceFields, Places DEF Joins, Ids
      <4> QED BY <4>1, Finite
    <3>3. final \in Nat /\ final >= sized
      BY <2>1, <3>1, <3>2, Larger
    <3>4. None \notin Nat
      BY NoneAssumption
    <3> HIDE DEF final
    <3> QED BY <3>1, <3>3, <3>4 DEF Counts
  <2>2. CASE ~(sized # None /\ ~nothing)
    BY <1>8, <2>2
  <2> QED BY <2>1, <2>2
<1> HIDE DEF final
<1>10. r.update.ids = None \/ Fits(r.update, b.media, Content(r.slices))
  <2>1. CASE nothing
    BY <1>2, <1>3, <2>1
  <2>2. CASE ~nothing
    <3>1. united.ids \subseteq Content(ranged)
      BY <1>5, <1>7, <2>2
    <3>2. /\ united.ids = Between(b.media, united.from, united.till)
          /\ united.from \in Nat /\ united.till \in Nat /\ united.from <= united.till
      BY <1>4, SliceFields DEF Joins, Exact, Ranged
    <3> QED BY <1>2, <1>3, <2>2, <3>1, <3>2 DEF Fits
  <2> QED BY <2>1, <2>2
<1>11. Took(r, ids, b)
  BY <1>2, <1>3, <1>5, <1>7, <1>9, <1>10 DEF Took
<1> QED BY <1>11 DEF r

-----------------------------------------------------------------------------
(***************************************************************************)
(* The window                                                              *)
(***************************************************************************)

\* Those before a message and those from it on that are nearest.
Kept(ids, key, n, m) ==
  Greatest(Below(ids, key), n) \cup Least(ids \ Below(ids, key), m)

\* They are as whole as all are.
LEMMA KeptIsWhole ==
  ASSUME NEW ids, ids \subseteq 0 .. Top, NEW key \in 0 .. Top, NEW n \in Nat, NEW m \in Nat,
         m > 0, NEW M, M \subseteq 0 .. Top, Whole(key, ids, M)
  PROVE  Kept(ids, key, n, m) \subseteq ids /\ Whole(key, Kept(ids, key, n, m), M)
<1> DEFINE lower == Below(ids, key)
           upper == ids \ lower
           kept  == Kept(ids, key, n, m)
<1>1. /\ lower \subseteq 0 .. Top /\ upper \subseteq 0 .. Top
      /\ \A x \in ids : x \in Nat /\ (x \in lower <=> x < key) /\ (x \in upper <=> key <= x)
  <2>1. lower = {x \in ids : x < key}
    BY DEF Below
  <2> HIDE DEF lower
  <2>2. \A x \in ids : x \in Nat /\ (x \in lower <=> x < key) /\ (x \in upper <=> ~(x < key))
    BY <2>1, Places
  <2>3. key \in Nat
    BY Places
  <2>4. lower \subseteq ids /\ upper \subseteq ids
    BY <2>1
  <2>5. \A x \in ids : x \in upper <=> key <= x
    <3> HIDE DEF upper
    <3> QED BY <2>2, <2>3
  <2> QED BY <2>2, <2>4, <2>5
<1>2. kept = Greatest(lower, n) \cup Least(upper, m)
  BY DEF Kept
<1> HIDE DEF lower, upper, kept
<1>3. /\ Greatest(lower, n) \subseteq lower
      /\ \A x \in lower, y \in Greatest(lower, n) : y <= x => x \in Greatest(lower, n)
  BY <1>1, GreatestAre
<1>4. /\ Least(upper, m) \subseteq upper
      /\ \A x \in upper, y \in Least(upper, m) : x <= y => x \in Least(upper, m)
      /\ upper # {} => Least(upper, m) # {}
  BY <1>1, LeastAre
<1>5. kept \subseteq ids
  BY <1>2, <1>3, <1>4 DEF lower, upper, Below
<1>6. Whole(key, kept, M)
  <2> SUFFICES ASSUME key # 0, kept # {}, NEW x \in M, NEW i \in {key} \cup kept,
                      NEW j \in {key} \cup kept, i <= x, x <= j
               PROVE  x \in kept
    BY DEF Whole
  <2>1. x \in ids
    <3>1. ids # {} /\ i \in {key} \cup ids /\ j \in {key} \cup ids
      BY <1>5
    <3> QED BY <3>1 DEF Whole
  <2>2. i \in Nat /\ j \in Nat /\ x \in Nat /\ key \in Nat
    BY <1>1, <1>5, <2>1, Places
  <2>3. CASE x < key
    <3>1. i \in kept /\ i < key
      BY <2>2, <2>3
    <3>2. i \in Greatest(lower, n)
      BY <1>1, <1>2, <1>4, <1>5, <2>2, <3>1
    <3> QED BY <1>1, <1>2, <1>3, <2>1, <2>3, <3>2
  <2>4. CASE key <= x
    <3>1. x \in upper
      BY <1>1, <2>1, <2>4
    <3>2. CASE j \in Least(upper, m)
      BY <1>2, <1>4, <3>1, <3>2
    <3>3. CASE j \notin Least(upper, m)
      <4>1. j = key
        BY <1>1, <1>2, <1>3, <1>5, <2>2, <2>4, <3>3
      <4>2. PICK y \in Least(upper, m) : TRUE
        BY <1>4, <3>1
      <4>3. x <= y
        <5>1. y \in upper /\ x = key
          BY <1>4, <2>2, <2>4, <4>1, <4>2
        <5>2. y \in ids
          BY <5>1 DEF upper
        <5> QED BY <1>1, <5>1, <5>2
      <4> QED BY <1>2, <1>4, <3>1, <4>2, <4>3
    <3> QED BY <3>2, <3>3
  <2> QED BY <2>2, <2>3, <2>4
<1> QED BY <1>5, <1>6 DEF kept

\* A step of the window leaves it right, and asks for what may be asked for.
Steps(r, c, b, K) ==
  Views(r.viewer, c, b, K) /\ \A q \in r.asks : Asks(q, b, K)

\* The fields of a window.
LEMMA ViewerFields ==
  ASSUME NEW v \in Viewer
  PROVE  /\ v.key \in Keys /\ v.key \in 0 .. MaxId /\ v.key \in 0 .. Top /\ v.key \in Nat
         /\ v.ids \subseteq Ids /\ v.ids \subseteq 0 .. Top /\ v.full \in Optional(Nat)
         /\ v.before \in Optional(Int) /\ v.after \in Optional(Int)
         /\ IsFiniteSet(v.ids) /\ Cardinality(v.ids) \in Nat
<1>1. /\ v.key \in Keys /\ v.ids \subseteq Ids /\ v.full \in Optional(Nat)
      /\ v.before \in Optional(Int) /\ v.after \in Optional(Int)
  BY DEF Viewer
<1>2. v.key \in 0 .. MaxId /\ v.key \in 0 .. Top /\ v.key \in Nat
  <2>1. v.key \in 0 .. MaxId
    BY <1>1, SetsAssumption
  <2> QED BY <2>1, Places
<1>3. v.ids \subseteq 0 .. Top
  <2>1. \A x \in 1 .. MaxId : x \in 0 .. Top
    BY Places
  <2> QED BY <1>1, <2>1, Places
<1> QED BY <1>1, <1>2, <1>3, Finite

\* sliceToLimits
LEMMA ToLimitsSteps ==
  ASSUME NEW b, Placed(b), NEW K, K \subseteq b.media, NEW v, NEW c, Views(v, c, b, K)
  PROVE  Steps(ToLimits(v), c, b, K)
<1> DEFINE lower == Below(v.ids, v.key)
           upper == v.ids \ lower
           kept  == Greatest(lower, LimitBefore) \cup Least(upper, LimitAfter + 1)
           unsure(skipped) == skipped = None \/ skipped > 0
           ask(id, dir)    == [id |-> id, dir |-> dir]
           before == IF Cardinality(lower) < LimitBefore /\ unsure(v.before)
                     THEN {IF kept = {} THEN ask(v.key, "Around") ELSE ask(Min(kept), "Before")}
                     ELSE {}
           after  == IF Cardinality(upper) < LimitAfter + 1 /\ unsure(v.after)
                     THEN {IF kept = {} THEN ask(v.key, "Around") ELSE ask(Max(kept), "After")}
                     ELSE {}
           cut(skipped, S) == IF skipped = None THEN None ELSE skipped + Cardinality(S \ kept)
           asks   == before \cup after
           r      == ToLimits(v)
           w      == [v EXCEPT !.ids = kept, !.before = cut(v.before, lower),
                               !.after = cut(v.after, upper)]
<1>1. r = IF v.key = 0 THEN [viewer |-> v, asks |-> IF v.full = None THEN {CountAsk} ELSE {}]
          ELSE [viewer |-> w, asks |-> IF v.full = None /\ asks = {} THEN {CountAsk} ELSE asks]
  BY DEF ToLimits
<1>2. v \in Viewer /\ v.key < b.next /\ v.ids \subseteq K /\ v.full = c
      /\ Whole(v.key, v.ids, b.media)
  BY DEF Views
<1>3. /\ v.key \in 0 .. MaxId /\ v.key \in 0 .. Top /\ v.key \in Nat
      /\ v.ids \subseteq Ids /\ v.ids \subseteq 0 .. Top
      /\ v.before \in Optional(Int) /\ v.after \in Optional(Int)
  BY <1>2, ViewerFields
<1>4. /\ b.next \in 1 .. Top /\ b.media \subseteq 0 .. Top
      /\ \A x \in b.media : x \in Nat /\ 1 <= x /\ x < b.next /\ x <= MaxId
  BY MediaArePlaced
<1>5. Asks(CountAsk, b, K)
  <2>1. CountAsk \in Ask /\ CountAsk.id = 0 /\ CountAsk.dir = "Around"
    BY Places DEF CountAsk, Ask
  <2> QED BY <1>4, <2>1 DEF Asks
<1>6. CASE v.key = 0
  BY <1>1, <1>5, <1>6 DEF Steps
<1>7. CASE v.key # 0
  <2>1. kept = Kept(v.ids, v.key, LimitBefore, LimitAfter + 1)
    BY DEF Kept
  <2>2. kept \subseteq v.ids /\ Whole(v.key, kept, b.media)
    <3>1. LimitAfter + 1 \in Nat /\ LimitAfter + 1 > 0 /\ LimitBefore \in Nat
      BY Places
    <3> HIDE DEF kept
    <3> QED BY <1>2, <1>3, <1>4, <2>1, <3>1, KeptIsWhole
  <2>3. cut(v.before, lower) \in Optional(Int) /\ cut(v.after, upper) \in Optional(Int)
    <3>1. lower \ kept \subseteq 0 .. Top /\ upper \ kept \subseteq 0 .. Top
      BY <1>3 DEF Below
    <3>2. Cardinality(lower \ kept) \in Nat /\ Cardinality(upper \ kept) \in Nat
      <4> HIDE DEF lower, upper, kept
      <4> QED BY <3>1, Finite
    <3> HIDE DEF lower, upper, kept
    <3> QED BY <1>3, <3>2, NoneAssumption DEF Optional
  <2>4. \A q \in asks : Asks(q, b, K)
    <3>1. Asks(ask(v.key, "Around"), b, K)
      BY <1>2, <1>3 DEF Asks, Ask
    <3>2. ASSUME NEW x \in kept, NEW d \in {"Before", "After"} PROVE Asks(ask(x, d), b, K)
      <4>1. x \in K /\ x \in b.media
        BY <1>2, <2>2
      <4>2. x \in 0 .. MaxId /\ x < b.next
        BY <1>4, <4>1, Places
      <4>3. ask(x, d) \in Ask /\ ask(x, d).id = x
        BY <4>2 DEF Ask
      <4> QED BY <4>1, <4>2, <4>3 DEF Asks
    <3>3. kept # {} => Min(kept) \in kept /\ Max(kept) \in kept
      <4> HIDE DEF kept
      <4> QED BY <1>3, <2>2, Ends
    <3>4. /\ \A q \in before : q = ask(v.key, "Around") \/ (kept # {} /\ q = ask(Min(kept), "Before"))
          /\ \A q \in after : q = ask(v.key, "Around") \/ (kept # {} /\ q = ask(Max(kept), "After"))
      <4> HIDE DEF kept, lower, upper, unsure, ask
      <4> QED OBVIOUS
    <3> HIDE DEF kept, lower, upper, unsure, ask, before, after
    <3> QED BY <3>1, <3>2, <3>3, <3>4
  <2> HIDE DEF kept, cut, asks
  <2>5. w \in Viewer /\ w.key = v.key /\ w.ids = kept /\ w.full = v.full
    <3>1. kept \in SUBSET Ids
      BY <1>3, <2>2
    <3> QED BY <1>2, <2>3, <3>1 DEF Viewer
  <2> HIDE DEF w
  <2>6. Views(w, c, b, K)
    BY <1>2, <2>2, <2>5 DEF Views
  <2>7. r.viewer = w /\ r.asks \subseteq asks \cup {CountAsk}
    BY <1>1, <1>7
  <2> HIDE DEF r
  <2>8. Steps(r, c, b, K)
    BY <1>5, <2>4, <2>6, <2>7 DEF Steps
  <2> QED BY <2>8 DEF r
<1> QED BY <1>6, <1>7

\* What an optional number is, or another where it has none.
LEMMA Optionals ==
  /\ None \notin Int /\ None \notin Nat /\ None \in Optional(Int)
  /\ \A x \in Optional(Int) : x # None => x \in Int
  /\ \A x \in Int : x \in Optional(Int)
  /\ \A x, y \in Optional(Int) : Given(x, y) \in Optional(Int)
BY NoneAssumption DEF Optional, Given

\* What is skipped, if it is known, is not known to be less than nothing.
LEMMA FromNothing ==
  ASSUME NEW i \in Int
  PROVE  Max({0, i}) \in Int
<1>1. \E x \in {0, i} : \A y \in {0, i} : x >= y
  OBVIOUS
<1>2. Max({0, i}) \in {0, i}
  BY <1>1 DEF Max
<1> QED BY <1>2

\* fillSkippedAndSliceToLimits
LEMMA FilledSteps ==
  ASSUME NEW b, Placed(b), NEW K, K \subseteq b.media, NEW v, NEW c, Views(v, c, b, K)
  PROVE  Steps(Filled(v), c, b, K)
<1> DEFINE rest(skipped) == IF skipped = None \/ v.full = None THEN None
                            ELSE v.full - skipped - Cardinality(v.ids)
           w == [v EXCEPT !.before = Given(v.before, rest(v.after)),
                          !.after = Given(v.after, rest(v.before))]
<1>1. Filled(v) = ToLimits(w)
  BY DEF Filled
<1>2. v \in Viewer
  BY DEF Views
<1>3. \A x \in Optional(Int) : rest(x) \in Optional(Int)
  <2> SUFFICES ASSUME NEW x \in Optional(Int) PROVE rest(x) \in Optional(Int)
    OBVIOUS
  <2>1. CASE x = None \/ v.full = None
    BY <2>1, Optionals
  <2>2. CASE ~(x = None \/ v.full = None)
    <3>1. x \in Int /\ v.full \in Int /\ Cardinality(v.ids) \in Int
      BY <1>2, <2>2, Optionals, ViewerFields DEF Optional
    <3>2. v.full - x - Cardinality(v.ids) \in Int
      BY <3>1
    <3> QED BY <2>2, <3>2, Optionals
  <2> QED BY <2>1, <2>2
<1>4. /\ Given(v.before, rest(v.after)) \in Optional(Int)
      /\ Given(v.after, rest(v.before)) \in Optional(Int)
  <2> HIDE DEF rest
  <2> QED BY <1>2, <1>3, ViewerFields, Optionals
<1> HIDE DEF rest
<1>5. w \in Viewer /\ w.key = v.key /\ w.ids = v.ids /\ w.full = v.full
  BY <1>2, <1>4 DEF Viewer
<1> HIDE DEF w
<1>6. Views(w, c, b, K)
  BY <1>5 DEF Views
<1> QED BY <1>1, <1>6, ToLimitsSteps

\* mergeSliceData
LEMMA MergedSteps ==
  ASSUME NEW b, Placed(b), NEW K, K \subseteq b.media, NEW v \in Viewer, v.key < b.next,
         NEW ids, v.ids \cup ids \subseteq K, Whole(v.key, v.ids \cup ids, b.media),
         NEW total \in Optional(Nat), Counts(total, b.media), total = None => v.full = None,
         NEW before \in Optional(Int), NEW after \in Optional(Int)
  PROVE  Steps(Merged(v, total, ids, before, after), total, b, K)
<1> DEFINE all == v.ids \cup ids
           less(skipped, S) == Max({0, skipped - Cardinality(S)})
           whole == total # None /\ v.full # total /\ total <= Cardinality(v.ids)
           before1 == IF before # None THEN less(before, Below(all, Min(ids)))
                      ELSE IF v.ids = {} \/ v.before = None THEN None
                      ELSE less(v.before, Below(all, Min(v.ids)))
           after1  == IF after # None THEN less(after, Above(all, Max(ids)))
                      ELSE IF v.ids = {} \/ v.after = None THEN None
                      ELSE less(v.after, Above(all, Max(v.ids)))
           x == [v EXCEPT !.full = Cardinality(v.ids), !.before = 0, !.after = 0]
           y == [v EXCEPT !.full = Given(total, v.full)]
           z == [v EXCEPT !.ids = all, !.full = Given(total, v.full),
                          !.before = before1, !.after = after1]
<1>1. Merged(v, total, ids, before, after) =
        IF ids = {} THEN Filled(IF whole THEN x ELSE y) ELSE Filled(z)
  BY DEF Merged
<1>2. /\ v.ids \subseteq Ids /\ v.full \in Optional(Nat) /\ v.before \in Optional(Int)
      /\ v.after \in Optional(Int) /\ Cardinality(v.ids) \in Nat
  BY ViewerFields
<1>3. Given(total, v.full) = total /\ total \in Optional(Nat)
  BY DEF Given
<1>4. all \subseteq Ids /\ all \subseteq 0 .. Top /\ b.media \subseteq 0 .. Top
      /\ Cardinality(b.media) \in Nat
  BY MediaArePlaced
<1>5. CASE ids = {} /\ whole
  <2>1. total \in Nat /\ total >= Cardinality(b.media)
    BY <1>5 DEF Counts
  <2>2. v.ids \subseteq b.media
    OBVIOUS
  <2>3. Cardinality(v.ids) <= Cardinality(b.media)
    BY <1>4, <2>2, Fewer
  <2>4. Cardinality(v.ids) = total
    BY <1>2, <1>4, <1>5, <2>1, <2>3
  <2>5. x = [v EXCEPT !.ids = v.ids, !.full = total, !.before = 0, !.after = 0]
    BY <2>4 DEF Viewer
  <2>6. 0 \in Optional(Int)
    BY Optionals
  <2> HIDE DEF x
  <2>7. x \in Viewer /\ x.key = v.key /\ x.ids = v.ids /\ x.full = total
    <3>1. v.ids \in SUBSET Ids /\ total \in Optional(Nat)
      BY <1>2
    <3> QED BY <2>5, <2>6, <3>1 DEF Viewer
  <2>8. Whole(v.key, v.ids, b.media)
    BY <1>5
  <2>9. Views(x, total, b, K)
    BY <2>7, <2>8 DEF Views
  <2> HIDE DEF whole
  <2> QED BY <1>1, <1>5, <2>9, FilledSteps
<1>6. CASE ids = {} /\ ~whole
  <2>1. y = [v EXCEPT !.ids = v.ids, !.full = total, !.before = v.before, !.after = v.after]
    BY <1>3 DEF Viewer
  <2> HIDE DEF y
  <2>2. y \in Viewer /\ y.key = v.key /\ y.ids = v.ids /\ y.full = total
    <3>1. v.ids \in SUBSET Ids /\ total \in Optional(Nat)
      BY <1>2
    <3> QED BY <1>2, <2>1, <3>1 DEF Viewer
  <2>3. Whole(v.key, v.ids, b.media)
    BY <1>6
  <2>4. Views(y, total, b, K)
    BY <2>2, <2>3 DEF Views
  <2> HIDE DEF whole
  <2> QED BY <1>1, <1>6, <2>4, FilledSteps
<1>7. CASE ids # {}
  <2>1. ASSUME NEW s \in Optional(Int), s # None, NEW S, S \subseteq all
        PROVE  less(s, S) \in Optional(Int)
    <3>1. S \subseteq 0 .. Top
      BY <1>4, <2>1
    <3>2. s - Cardinality(S) \in Int
      <4>1. Cardinality(S) \in Nat /\ s \in Int
        BY <2>1, <3>1, Finite, Optionals
      <4> QED BY <4>1
    <3> QED BY <3>2, FromNothing, Optionals
  <2>2. \A i : Below(all, i) \subseteq all /\ Above(all, i) \subseteq all
    BY DEF Below, Above
  <2> HIDE DEF less, all
  <2>3. before1 \in Optional(Int) /\ after1 \in Optional(Int)
    BY <1>2, <2>1, <2>2, Optionals
  <2> HIDE DEF before1, after1
  <2>4. z = [v EXCEPT !.ids = all, !.full = total, !.before = before1, !.after = after1]
    BY <1>3
  <2> HIDE DEF z
  <2>5. z \in Viewer /\ z.key = v.key /\ z.ids = all /\ z.full = total
    <3>1. all \in SUBSET Ids
      BY <1>4
    <3> QED BY <1>3, <2>3, <2>4, <3>1 DEF Viewer
  <2>6. Views(z, total, b, K)
    BY <2>5 DEF Views, all
  <2> HIDE DEF whole
  <2> QED BY <1>1, <1>7, <2>6, FilledSteps
<1> QED BY <1>5, <1>6, <1>7

\* What the list tells of a range either is elsewhere or leaves no hole.
LEMMA MeetsWhole ==
  ASSUME NEW b, Placed(b), NEW K, K \subseteq b.media, NEW v \in Viewer, v.ids \subseteq K,
         Whole(v.key, v.ids, b.media), NEW u, Fits(u, b.media, K), Meets(v, u)
  PROVE  Whole(v.key, v.ids \cup u.ids, b.media)
<1> DEFINE held == IF v.ids = {} THEN {v.key} ELSE v.ids
<1>1. u.from <= Max(held) /\ Min(held) <= u.till
  BY DEF Meets
<1>2. v.key \in Nat /\ v.key \in 0 .. Top /\ v.ids \subseteq 0 .. Top
  BY ViewerFields
<1>3. held \subseteq 0 .. Top /\ held # {}
  BY <1>2
<1>4. PICK lo \in held, hi \in held : u.from <= hi /\ lo <= u.till
  <2> HIDE DEF held
  <2>1. Min(held) \in held /\ Max(held) \in held
    BY <1>3, Ends
  <2> QED BY <1>1, <2>1
<1>5. \A x \in b.media : x \in Nat
  BY MediaArePlaced
<1>6. u.ids = Between(b.media, u.from, u.till) /\ u.from \in Nat /\ u.till \in Nat
  BY DEF Fits
<1>7. \A x \in b.media : x \in u.ids <=> u.from <= x /\ x <= u.till
  BY <1>6 DEF Between
<1>8. u.ids \subseteq b.media /\ v.ids \subseteq b.media
  BY <1>6 DEF Between
<1> SUFFICES ASSUME v.key # 0, NEW x \in b.media, NEW i \in {v.key} \cup v.ids \cup u.ids,
                    NEW j \in {v.key} \cup v.ids \cup u.ids, i <= x, x <= j,
                    x \notin u.ids
             PROVE  x \in v.ids
  BY DEF Whole
<1>9. i \in Nat /\ j \in Nat /\ x \in Nat /\ lo \in Nat /\ hi \in Nat
  BY <1>2, <1>3, <1>5, <1>8, Places
<1>10. CASE x < u.from
  <2>1. i \notin u.ids
    BY <1>6, <1>7, <1>8, <1>9, <1>10
  <2>2. x <= hi
    BY <1>4, <1>6, <1>9, <1>10
  <2>3. CASE v.ids = {}
    <3>1. i = v.key /\ hi = v.key
      BY <2>1, <2>3
    <3> QED BY <1>4, <1>6, <1>9, <1>10, <3>1
  <2>4. CASE v.ids # {}
    <3>1. hi \in v.ids /\ i \in {v.key} \cup v.ids
      BY <2>1, <2>4
    <3> QED BY <2>2, <2>4, <3>1 DEF Whole
  <2> QED BY <2>3, <2>4
<1>11. CASE x > u.till
  <2>1. j \notin u.ids
    BY <1>6, <1>7, <1>8, <1>9, <1>11
  <2>2. lo <= x
    BY <1>4, <1>6, <1>9, <1>11
  <2>3. CASE v.ids = {}
    <3>1. j = v.key /\ lo = v.key
      BY <2>1, <2>3
    <3> QED BY <1>4, <1>6, <1>9, <1>11, <3>1
  <2>4. CASE v.ids # {}
    <3>1. lo \in v.ids /\ j \in {v.key} \cup v.ids
      BY <2>1, <2>4
    <3> QED BY <2>2, <2>4, <3>1 DEF Whole
  <2> QED BY <2>3, <2>4
<1> QED BY <1>6, <1>7, <1>9, <1>10, <1>11

\* applyUpdate
LEMMA UpdatedSteps ==
  ASSUME NEW b, Placed(b), NEW K, K \subseteq b.media, NEW v \in Viewer, v.key < b.next,
         v.ids \subseteq K, Whole(v.key, v.ids, b.media),
         NEW u, u.ids = None \/ Fits(u, b.media, K),
         Counts(u.count, b.media), u.count = None => v.full = None
  PROVE  Steps(Updated(v, u), u.count, b, K)
<1> DEFINE merges == u.ids # None /\ Meets(v, u)
           ids    == IF merges THEN u.ids ELSE {}
           before == IF u.from = 0 THEN 0 ELSE None
           after  == IF u.till = Top THEN 0 ELSE None
<1>1. Updated(v, u) = IF ~merges /\ u.count = None THEN [viewer |-> v, asks |-> {}]
                      ELSE Merged(v, u.count, ids, before, after)
  BY DEF Updated
<1>2. CASE ~merges /\ u.count = None
  <2>1. Views(v, u.count, b, K)
    BY <1>2 DEF Views
  <2> HIDE DEF merges
  <2> QED BY <1>1, <1>2, <2>1 DEF Steps
<1>3. CASE ~(~merges /\ u.count = None)
  <2>1. before \in Optional(Int) /\ after \in Optional(Int) /\ u.count \in Optional(Nat)
    BY Optionals DEF Counts, Optional
  <2>2. v.ids \cup ids \subseteq K /\ Whole(v.key, v.ids \cup ids, b.media)
    <3>1. CASE merges
      <4>1. Fits(u, b.media, K)
        BY <3>1
      <4>2. Whole(v.key, v.ids \cup u.ids, b.media)
        BY <3>1, <4>1, MeetsWhole
      <4> QED BY <3>1, <4>1, <4>2 DEF Fits
    <3>2. CASE ~merges
      <4>1. v.ids \cup ids = v.ids
        BY <3>2
      <4> HIDE DEF ids
      <4> QED BY <4>1
    <3> QED BY <3>1, <3>2
  <2> HIDE DEF merges, ids, before, after
  <2>3. Steps(Merged(v, u.count, ids, before, after), u.count, b, K)
    BY <2>1, <2>2, MergedSteps
  <2> QED BY <1>1, <1>3, <2>3
<1> QED BY <1>2, <1>3

\* removeOne: c is the count after it.
LEMMA RemovedSteps ==
  ASSUME NEW b, Placed(b), NEW K, K \subseteq b.media, NEW v \in Viewer, v.key < b.next,
         NEW id, v.ids \ {id} \subseteq K, Whole(v.key, v.ids \ {id}, b.media),
         v.full = None \/ (v.full \in Nat /\ v.full > 0)
  PROVE  Steps(Removed(v, id), IF v.full = None THEN None ELSE v.full - 1, b, K)
<1> DEFINE fewer(n)  == n # None /\ n > 0
           isBefore == v.ids # {} /\ id < Min(v.ids) /\ fewer(v.before)
           isAfter  == v.ids # {} /\ id > Max(v.ids) /\ fewer(v.after)
           less(n, when) == IF when THEN n - 1 ELSE n
           c == IF v.full = None THEN None ELSE v.full - 1
           w == [v EXCEPT !.full = less(v.full, fewer(v.full)), !.ids = v.ids \ {id},
                          !.before = less(v.before, isBefore), !.after = less(v.after, isAfter)]
           taken == fewer(v.full) \/ id \in v.ids \/ isBefore \/ isAfter
<1>1. Removed(v, id) = IF taken THEN ToLimits(w) ELSE [viewer |-> v, asks |-> {}]
  BY DEF Removed
<1>2. less(v.full, fewer(v.full)) = c /\ c \in Optional(Nat)
  <2>1. CASE v.full = None
    BY <2>1 DEF Optional
  <2>2. CASE v.full # None
    <3>1. v.full \in Nat /\ v.full > 0
      BY <2>2
    <3>2. v.full - 1 \in Nat
      BY <3>1
    <3> QED BY <2>2, <3>1, <3>2 DEF Optional
  <2> QED BY <2>1, <2>2
<1>3. less(v.before, isBefore) \in Optional(Int) /\ less(v.after, isAfter) \in Optional(Int)
  <2>1. v.before \in Optional(Int) /\ v.after \in Optional(Int)
    BY ViewerFields
  <2>2. ASSUME NEW x \in Optional(Int), x # None PROVE x - 1 \in Optional(Int)
    <3>1. x \in Int
      BY <2>2, Optionals
    <3>2. x - 1 \in Int
      BY <3>1
    <3> QED BY <3>2, Optionals
  <2>3. isBefore => v.before # None
    OBVIOUS
  <2>4. isAfter => v.after # None
    OBVIOUS
  <2> HIDE DEF isBefore, isAfter
  <2> QED BY <2>1, <2>2, <2>3, <2>4
<1>4. ~taken => v.full = None /\ id \notin v.ids
  <2> HIDE DEF isBefore, isAfter
  <2> QED OBVIOUS
<1> HIDE DEF less, isBefore, isAfter, taken
<1>5. CASE taken
  <2>1. v.ids \ {id} \in SUBSET Ids
    BY ViewerFields
  <2>2. w \in Viewer /\ w.key = v.key /\ w.ids = v.ids \ {id} /\ w.full = c
    <3> HIDE DEF c
    <3> QED BY <1>2, <1>3, <2>1 DEF Viewer
  <2> HIDE DEF w
  <2>3. Views(w, c, b, K)
    BY <2>2 DEF Views
  <2> HIDE DEF c
  <2>4. Steps(ToLimits(w), c, b, K)
    BY <2>3, ToLimitsSteps
  <2> QED BY <1>1, <1>5, <2>4 DEF c
<1>6. CASE ~taken
  <2>1. c = None /\ v.full = None /\ v.ids \ {id} = v.ids
    BY <1>4, <1>6
  <2>2. Views(v, c, b, K)
    <3> HIDE DEF c
    <3> QED BY <2>1 DEF Views
  <2> HIDE DEF c
  <2>3. Steps([viewer |-> v, asks |-> {}], c, b, K)
    BY <2>2 DEF Steps
  <2> QED BY <1>1, <1>6, <2>3 DEF c
<1> QED BY <1>5, <1>6

\* invalidateBottom
LEMMA InvalidatedSteps ==
  ASSUME NEW b, Placed(b), NEW K, K \subseteq b.media, NEW v \in Viewer, v.key < b.next,
         v.ids \subseteq K, Whole(v.key, v.ids, b.media)
  PROVE  Steps(ToLimits(Invalidated(v)), None, b, K)
<1> DEFINE w == Invalidated(v)
<1>1. w = [v EXCEPT !.full = None, !.after = None]
  BY DEF Invalidated
<1>2. w \in Viewer /\ w.key = v.key /\ w.ids = v.ids /\ w.full = None
  BY <1>1 DEF Viewer, Optional
<1> HIDE DEF w
<1>3. Views(w, None, b, K)
  BY <1>2 DEF Views
<1>4. Steps(ToLimits(w), None, b, K)
  BY <1>3, ToLimitsSteps
<1> QED BY <1>4 DEF w

\* queryFromSlice
LEMMA SnapshotIs ==
  ASSUME NEW b, Placed(b), Lists(slices, b), count \in Optional(Nat), NEW key \in Keys
  PROVE  /\ Snapshot(key).ids \subseteq Content(slices) /\ Whole(key, Snapshot(key).ids, b.media)
         /\ Snapshot(key).before \in Optional(Int) /\ Snapshot(key).after \in Optional(Int)
<1> DEFINE around == {s \in slices : key # 0 /\ s.from <= key /\ key <= s.till}
           s      == CHOOSE s \in around : TRUE
           lower  == Below(s.ids, key)
           upper  == s.ids \ lower
           ids    == Greatest(lower, LimitBefore) \cup Least(upper, LimitAfter + 1)
           before == IF s.from = 0 THEN Cardinality(lower) - Cardinality(ids \cap lower) ELSE None
           after  == IF s.till = Top THEN Cardinality(upper) - Cardinality(ids \cap upper) ELSE None
           rest(skipped) == IF skipped = None \/ count = None THEN None
                            ELSE count - skipped - Cardinality(ids)
           r == Snapshot(key)
<1>1. r = IF around = {} THEN [ids |-> {}, before |-> None, after |-> None]
          ELSE [ids |-> ids, before |-> Given(before, rest(after)),
                after |-> Given(after, rest(before))]
  BY DEF Snapshot
<1>2. CASE around = {}
  <2>1. r.ids = {} /\ r.before = None /\ r.after = None
    BY <1>1, <1>2
  <2> HIDE DEF r
  <2>2. Whole(key, r.ids, b.media)
    BY <2>1 DEF Whole
  <2>3. r.before \in Optional(Int) /\ r.after \in Optional(Int) /\ r.ids \subseteq Content(slices)
    BY <2>1, Optionals
  <2> QED BY <2>2, <2>3 DEF r
<1>3. CASE around # {}
  <2>1. s \in around
    <3> HIDE DEF around
    <3> QED BY <1>3
  <2>2. r.ids = ids /\ r.before = Given(before, rest(after)) /\ r.after = Given(after, rest(before))
    <3> HIDE DEF around, ids, before, after, rest
    <3> QED BY <1>1, <1>3
  <2>3. s \in slices /\ s.from <= key /\ key <= s.till
    BY <2>1
  <2> HIDE DEF r, s, around
  <2>4. s \in Slice /\ s.ids = Between(b.media, s.from, s.till) /\ s.ids \subseteq Content(slices)
    BY <2>3 DEF Lists, Exact, Content
  <2>5. key \in 0 .. MaxId /\ key \in 0 .. Top /\ key \in Nat
    BY SetsAssumption, Places
  <2>6. /\ s.ids \subseteq Ids /\ s.from \in Nat /\ s.till \in Nat
        /\ s.ids \subseteq 0 .. Top /\ b.media \subseteq 0 .. Top
    BY <2>4, SliceFields, MediaArePlaced DEF Between
  <2>7. Whole(key, s.ids, b.media)
    <3> SUFFICES ASSUME NEW x \in b.media, NEW i \in {key} \cup s.ids, NEW j \in {key} \cup s.ids,
                        i <= x, x <= j
                 PROVE  x \in s.ids
      BY DEF Whole
    <3>1. \A y \in {key} \cup s.ids : y \in Nat /\ s.from <= y /\ y <= s.till
      BY <2>3, <2>4, <2>5, <2>6, Places DEF Between
    <3>2. x \in Nat
      BY MediaArePlaced
    <3>3. s.from <= x /\ x <= s.till
      BY <2>6, <3>1, <3>2
    <3> QED BY <2>4, <3>3 DEF Between
  <2>8. ids = Kept(s.ids, key, LimitBefore, LimitAfter + 1)
    BY DEF Kept
  <2>9. ids \subseteq s.ids /\ Whole(key, ids, b.media)
    <3>1. LimitAfter + 1 \in Nat /\ LimitAfter + 1 > 0 /\ LimitBefore \in Nat
      BY Places
    <3> HIDE DEF ids
    <3> QED BY <2>5, <2>6, <2>7, <2>8, <3>1, KeptIsWhole
  <2>10. before \in Optional(Int) /\ after \in Optional(Int)
    <3>1. lower \subseteq s.ids
      BY DEF Below
    <3> HIDE DEF lower, ids
    <3>2. \A S : S \subseteq s.ids => Cardinality(S) \in Nat
      <4> SUFFICES ASSUME NEW S, S \subseteq s.ids PROVE Cardinality(S) \in Nat
        OBVIOUS
      <4>1. S \subseteq 0 .. Top
        BY <2>6
      <4> QED BY <4>1, Finite
    <3>3. /\ Cardinality(lower) \in Nat /\ Cardinality(upper) \in Nat
          /\ Cardinality(ids \cap lower) \in Nat /\ Cardinality(ids \cap upper) \in Nat
      BY <3>1, <3>2
    <3> HIDE DEF upper
    <3>4. /\ Cardinality(lower) - Cardinality(ids \cap lower) \in Int
          /\ Cardinality(upper) - Cardinality(ids \cap upper) \in Int
      BY <3>3
    <3> QED BY <3>4, Optionals
  <2>11. \A x \in Optional(Int) : rest(x) \in Optional(Int)
    <3> SUFFICES ASSUME NEW x \in Optional(Int) PROVE rest(x) \in Optional(Int)
      OBVIOUS
    <3>1. CASE x = None \/ count = None
      BY <3>1, Optionals
    <3>2. CASE ~(x = None \/ count = None)
      <4>0. ids \subseteq 0 .. Top
        BY <2>6, <2>9
      <4> HIDE DEF ids
      <4>1. x \in Int /\ count \in Int /\ Cardinality(ids) \in Int
        <5>1. Cardinality(ids) \in Nat
          BY <4>0, Finite
        <5>2. x \in Int
          BY <3>2, Optionals
        <5>3. count \in Nat
          BY <3>2 DEF Optional
        <5> QED BY <5>1, <5>2, <5>3
      <4>2. count - x - Cardinality(ids) \in Int
        BY <4>1
      <4> QED BY <3>2, <4>2, Optionals
    <3> QED BY <3>1, <3>2
  <2> HIDE DEF ids, before, after, rest
  <2>12. r.before \in Optional(Int) /\ r.after \in Optional(Int)
    BY <2>2, <2>10, <2>11, Optionals
  <2>13. r.ids \subseteq Content(slices) /\ Whole(key, r.ids, b.media)
    BY <2>2, <2>4, <2>9
  <2> QED BY <2>12, <2>13 DEF r
<1> QED BY <1>2, <1>3

-----------------------------------------------------------------------------
(***************************************************************************)
(* What is on its way                                                      *)
(***************************************************************************)

\* The states in between are states, with the media in them.
LEMMA PastPlaced ==
  ASSUME net \in Seq(Event), NEW P, Past(P)
  PROVE  /\ Len(net) \in Nat /\ 0 \in 0 .. Len(net) /\ Len(net) \in 0 .. Len(net)
         /\ \A i \in 0 .. Len(net) : Placed(P[i])
         /\ P[Len(net)].media = media /\ P[Len(net)].next = next
         /\ media \subseteq Ids /\ next \in 1 .. Top
         /\ media \subseteq 1 .. (next - 1)
<1>1. Len(net) \in Nat
  BY LenProperties
<1>2. \A i \in 0 .. Len(net) : P[i] \in State /\ P[i].media \subseteq 1 .. (P[i].next - 1)
  BY DEF Past
<1>3. 0 \in 0 .. Len(net) /\ Len(net) \in 0 .. Len(net)
  BY <1>1
<1>4. P[Len(net)].media = media /\ P[Len(net)].next = next
  BY DEF Past
<1>5. P[Len(net)].media \in SUBSET Ids /\ P[Len(net)].next \in 1 .. Top
  BY <1>2, <1>3 DEF State
<1> QED BY <1>1, <1>2, <1>3, <1>4, <1>5 DEF Placed

\* What is told of changes the server as time does.
LEMMA TellsLater ==
  ASSUME NEW a, Placed(a), NEW b, Placed(b), NEW m, Tells(a, m, b)
  PROVE  Later(a, b)
<1>1. a.next \in Nat /\ b.next \in Nat /\ \A x \in b.media : x \in Nat
  BY MediaArePlaced, Places
<1>2. a.next <= b.next
  BY <1>1 DEF Tells
<1>3. ASSUME NEW x \in b.media, x < a.next PROVE x \in a.media
  <2>1. CASE m.kind = "new"
    BY <1>1, <1>3, <2>1 DEF Tells
  <2>2. CASE m.kind = "delete"
    BY <2>2 DEF Tells
  <2>3. CASE m.kind = "tooLong"
    BY <1>1, <1>3, <2>3 DEF Tells
  <2>4. CASE m.kind = "found"
    BY <2>4 DEF Tells
  <2> QED BY <2>1, <2>2, <2>3, <2>4 DEF Tells
<1>4. \A x \in Between(b.media, 1, a.next - 1) : x \in b.media /\ x < a.next
  BY <1>1 DEF Between
<1> QED BY <1>2, <1>3, <1>4 DEF Later

\* Time goes on.
LEMMA LaterStill ==
  ASSUME NEW a, Placed(a), NEW b, Placed(b), NEW c, Placed(c), Later(a, b), Later(b, c)
  PROVE  Later(a, c)
<1>1. a.next \in Nat /\ b.next \in Nat /\ c.next \in Nat /\ \A x \in c.media : x \in Nat
  BY MediaArePlaced, Places
<1>2. a.next <= b.next /\ b.next <= c.next
  BY DEF Later
<1>3. ASSUME NEW x \in Between(c.media, 1, a.next - 1) PROVE x \in a.media
  <2>1. x \in c.media /\ x \in Nat /\ 1 <= x /\ x <= a.next - 1
    BY <1>1 DEF Between
  <2>2. x \in Between(c.media, 1, b.next - 1)
    BY <1>1, <1>2, <2>1 DEF Between
  <2>3. x \in b.media
    BY <2>2 DEF Later
  <2>4. x \in Between(b.media, 1, a.next - 1)
    BY <2>1, <2>3 DEF Between
  <2> QED BY <2>4 DEF Later
<1>4. a.next <= c.next
  BY <1>1, <1>2
<1> QED BY <1>3, <1>4 DEF Later

\* The server does something, and tells of it.
LEMMA Sends ==
  ASSUME IInv, NEW m \in Event, net' = Append(net, m), Len(net) < MaxNet,
         NEW b \in State, b.media = media', b.next = next', Placed(b),
         \A a \in State : a.media = media /\ a.next = next => Tells(a, m, b),
         \A P : Agrees(P) => Finds(m, b, Content(slices)),
         slices' = slices /\ count' = count /\ viewer' = viewer /\ asked' = asked
  PROVE  IInv'
<1>1. PICK P : Agrees(P)
  BY DEF IInv
<1>2. net \in Seq(Event) /\ Past(P)
  BY <1>1 DEF IInv, Agrees
<1> DEFINE n == Len(net)
<1>3. /\ n \in Nat /\ \A i \in 0 .. n : Placed(P[i])
      /\ P[n].media = media /\ P[n].next = next /\ P[n] \in State
  BY <1>2, PastPlaced DEF Past
<1>4. net' \in Seq(Event) /\ Len(net') = n + 1 /\ net'[n + 1] = m
      /\ \A i \in 1 .. n : net'[i] = net[i]
  BY <1>2, AppendProperties
<1> HIDE DEF n
<1>5. PICK Q \in [0 .. n + 1 -> State] :
        /\ Q[n + 1] = b /\ \A i \in 0 .. n : Q[i] = P[i]
        /\ \A i \in 0 .. n + 1 : i \in 0 .. n \/ i = n + 1
  <2> DEFINE R == [i \in 0 .. n + 1 |-> IF i <= n THEN P[i] ELSE b]
  <2>1. \A i \in 0 .. n + 1 : (i <= n => i \in 0 .. n) /\ (~(i <= n) => i = n + 1)
    BY <1>3
  <2>2. n + 1 \in 0 .. n + 1 /\ ~(n + 1 <= n) /\ \A i \in 0 .. n : i \in 0 .. n + 1 /\ i <= n
    BY <1>3
  <2>3. \A i \in 0 .. n : P[i] \in State
    BY <1>3 DEF Placed
  <2>4. /\ R \in [0 .. n + 1 -> State] /\ R[n + 1] = b /\ \A i \in 0 .. n : R[i] = P[i]
        /\ \A i \in 0 .. n + 1 : i \in 0 .. n \/ i = n + 1
    BY <2>1, <2>2, <2>3
  <2> HIDE DEF R
  <2> QED BY <2>4
<1>6. \A i \in 0 .. n + 1 : Placed(Q[i])
  BY <1>3, <1>5
<1>7. Tells(P[n], m, b)
  BY <1>3
<1>8. \A i \in 0 .. n : Later(P[i], b)
  <2> SUFFICES ASSUME NEW i \in 0 .. n PROVE Later(P[i], b)
    OBVIOUS
  <2>1. n \in 0 .. n /\ i <= n
    BY <1>3
  <2>2. Later(P[i], P[n])
    BY <1>2, <2>1 DEF Past, n
  <2>3. Later(P[n], b)
    BY <1>3, <1>7, <2>1, TellsLater
  <2> QED BY <1>3, <2>1, <2>2, <2>3, LaterStill
<1>9. Later(b, b)
  <2>1. b.next \in Nat /\ b.next <= b.next
    BY MediaArePlaced, Places
  <2> QED BY <2>1 DEF Later, Between
<1>10. ASSUME NEW i \in 0 .. n + 1, NEW j \in 0 .. n + 1, i <= j PROVE Later(Q[i], Q[j])
  <2>1. CASE j = n + 1
    BY <1>5, <1>8, <1>9, <2>1
  <2>2. CASE j # n + 1
    <3>1. i \in 0 .. n /\ j \in 0 .. n
      BY <1>3, <1>10, <2>2
    <3>2. Later(P[i], P[j])
      BY <1>2, <1>10, <3>1 DEF Past, n
    <3> QED BY <1>5, <3>1, <3>2
  <2> QED BY <2>1, <2>2
<1>11. ASSUME NEW i \in 1 .. n + 1
       PROVE  Tells(Q[i - 1], net'[i], Q[i]) /\ Finds(net'[i], Q[i], Content(slices))
  <2>1. CASE i = n + 1
    <3>1. i - 1 = n /\ n \in 0 .. n
      BY <1>3, <2>1
    <3> QED BY <1>1, <1>4, <1>5, <1>7, <2>1, <3>1
  <2>2. CASE i # n + 1
    <3>1. i \in 1 .. n /\ i \in 0 .. n /\ i - 1 \in 0 .. n
      BY <1>3, <2>2
    <3>2. Tells(P[i - 1], net[i], P[i]) /\ Finds(net[i], P[i], Content(slices))
      BY <1>1, <1>2, <3>1 DEF Past, Agrees, n
    <3> QED BY <1>4, <1>5, <3>1, <3>2
  <2> QED BY <2>1, <2>2
<1>12. Past(Q)'
  <2>1. Q[n + 1] = [media |-> media', next |-> next']
    BY <1>5 DEF State
  <2>2. \A i \in 0 .. n + 1 : Q[i].media \subseteq 1 .. (Q[i].next - 1)
    BY <1>6 DEF Placed
  <2> QED BY <1>4, <1>5, <1>10, <1>11, <2>1, <2>2 DEF Past
<1>13. Q[0] = P[0]
  <2>1. 0 \in 0 .. n
    BY <1>3
  <2> QED BY <1>5, <2>1
<1>14. Knows(Q[0], Content(slices))'
  <2>1. Knows(P[0], Content(slices))
    BY <1>1 DEF Agrees
  <2> QED BY <1>13, <2>1 DEF Knows, Content
<1>15. Agrees(Q)'
  <2>1. \A i \in 1 .. Len(net') : Finds(net'[i], Q[i], Content(slices'))
    BY <1>4, <1>11
  <2> QED BY <1>12, <1>14, <2>1 DEF Agrees
<1>16. Len(net') <= MaxNet
  BY <1>3, <1>4, BoundsAssumption DEF n
<1> QED BY <1>4, <1>15, <1>16 DEF IInv

\* The client is told of the first.
LEMMA Hears ==
  ASSUME net \in Seq(Event), Len(net) <= MaxNet, net # <<>>, NEW P, Agrees(P),
         net' = Tail(net), media' = media, next' = next,
         Knows(P[1], Content(slices))',
         Content(slices) \cap P[1].media \subseteq Content(slices')
  PROVE  IInv'
<1> DEFINE n == Len(net)
<1>1. /\ n \in Nat /\ n > 0 /\ net' \in Seq(Event) /\ Len(net') = n - 1
      /\ \A i \in 1 .. n - 1 : net'[i] = net[i + 1]
  BY HeadTailProperties, LenProperties, EmptySeq
<1>2. Past(P) /\ Knows(P[0], Content(slices))
      /\ \A i \in 1 .. n : Finds(net[i], P[i], Content(slices))
  BY DEF Agrees
<1>3. \A i \in 0 .. n : Placed(P[i]) /\ P[i] \in State
  BY <1>2, PastPlaced DEF Placed
<1>4. /\ P[n] = [media |-> media, next |-> next]
      /\ \A i \in 1 .. n : Tells(P[i - 1], net[i], P[i])
      /\ \A i, j \in 0 .. n : i <= j => Later(P[i], P[j])
  BY <1>2 DEF Past
<1> HIDE DEF n
<1>5. PICK Q \in [0 .. n - 1 -> State] : \A i \in 0 .. n - 1 : Q[i] = P[i + 1]
  <2> DEFINE R == [i \in 0 .. n - 1 |-> P[i + 1]]
  <2>1. \A i \in 0 .. n - 1 : i + 1 \in 0 .. n
    BY <1>1
  <2>2. R \in [0 .. n - 1 -> State] /\ \A i \in 0 .. n - 1 : R[i] = P[i + 1]
    BY <1>3, <2>1
  <2> HIDE DEF R
  <2> QED BY <2>2
<1>6. Q[0] = P[1] /\ Q[n - 1] = P[n]
  <2>1. 0 \in 0 .. n - 1 /\ n - 1 \in 0 .. n - 1 /\ 0 + 1 = 1 /\ n - 1 + 1 = n
    BY <1>1
  <2> QED BY <1>5, <2>1
<1>7. ASSUME NEW i \in 0 .. n - 1
      PROVE  /\ Q[i].media \subseteq 1 .. (Q[i].next - 1)
             /\ \A j \in 0 .. n - 1 : i <= j => Later(Q[i], Q[j])
  <2>1. i + 1 \in 0 .. n
    BY <1>1
  <2>2. \A j \in 0 .. n - 1 : j + 1 \in 0 .. n /\ (i <= j => i + 1 <= j + 1)
    BY <1>1
  <2> QED BY <1>3, <1>4, <1>5, <2>1, <2>2 DEF Placed
<1>8. ASSUME NEW i \in 1 .. n - 1
      PROVE  Tells(Q[i - 1], net'[i], Q[i]) /\ Finds(net'[i], Q[i], Content(slices'))
  <2>1. /\ i - 1 \in 0 .. n - 1 /\ i \in 0 .. n - 1 /\ i - 1 + 1 = i /\ i \in 1 .. n
        /\ i + 1 \in 1 .. n /\ i + 1 \in 0 .. n /\ 1 \in 0 .. n /\ 1 <= i + 1 /\ 0 \in 0 .. n
        /\ i + 1 - 1 = i /\ 0 <= 1
    BY <1>1
  <2>2. Q[i - 1] = P[i] /\ Q[i] = P[i + 1] /\ net'[i] = net[i + 1]
    BY <1>1, <1>5, <2>1
  <2>3. Tells(P[i], net[i + 1], P[i + 1]) /\ Finds(net[i + 1], P[i + 1], Content(slices))
    BY <1>2, <1>4, <2>1
  <2> DEFINE a == P[i + 1]
  <2>4. Content(slices) \cap a.media \subseteq P[1].media
    <3>1. Content(slices) \subseteq P[0].media
      BY <1>2, <1>3, <2>1, Listed DEF Knows
    <3>2. /\ \A x \in P[0].media : x \in Nat /\ 1 <= x /\ x < P[0].next
          /\ P[0].next \in Nat /\ P[1].next \in Nat
      <4>1. Placed(P[0]) /\ Placed(P[1])
        BY <1>3, <2>1
      <4>2. P[0].next \in 1 .. Top /\ P[1].next \in 1 .. Top
        BY <4>1, MediaArePlaced
      <4> QED BY <4>1, <4>2, MediaArePlaced, Places
    <3>3. Later(P[0], P[1]) /\ Later(P[1], a)
      BY <1>4, <2>1
    <3>4. ASSUME NEW x \in Content(slices) \cap a.media PROVE x \in P[1].media
      <4>1. x \in Nat /\ 1 <= x /\ x < P[1].next
        BY <3>1, <3>2, <3>3 DEF Later
      <4>2. x \in Between(a.media, 1, P[1].next - 1)
        BY <3>2, <4>1 DEF Between
      <4> QED BY <3>3, <4>2 DEF Later
    <3> QED BY <3>4
  <2>5. Finds(net[i + 1], a, Content(slices'))
    <3>1. \A x \in a.media : x \in Content(slices) => x \in Content(slices')
      BY <2>4
    <3> QED BY <2>3, <3>1 DEF Finds, Between
  <2> QED BY <2>2, <2>3, <2>5
<1>9. Past(Q)'
  <2>1. Q[n - 1] = [media |-> media', next |-> next']
    BY <1>4, <1>6
  <2> QED BY <1>1, <1>5, <1>7, <1>8, <2>1 DEF Past
<1>10. Knows(Q[0], Content(slices))'
  BY <1>6
<1>11. Agrees(Q)'
  <2>1. \A i \in 1 .. Len(net') : Finds(net'[i], Q[i], Content(slices'))
    BY <1>1, <1>8
  <2> QED BY <1>9, <1>10, <2>1 DEF Agrees
<1>12. Len(net') <= MaxNet
  BY <1>1, BoundsAssumption DEF n
<1> QED BY <1>1, <1>11, <1>12 DEF IInv

\* What the server is now.
LEMMA ServerIs ==
  ASSUME IInv
  PROVE  /\ net \in Seq(Event) /\ Len(net) \in Nat
         /\ media \subseteq Ids /\ next \in 1 .. Top /\ next \in Nat /\ media \subseteq 1 .. (next - 1)
         /\ \A x \in media : x \in Nat /\ 1 <= x /\ x < next
<1>1. PICK P : Agrees(P)
  BY DEF IInv
<1>2. net \in Seq(Event) /\ Past(P)
  BY <1>1 DEF IInv, Agrees
<1>3. /\ Len(net) \in Nat /\ media \subseteq Ids /\ next \in 1 .. Top
      /\ media \subseteq 1 .. (next - 1)
  BY <1>2, PastPlaced
<1>4. next \in Nat
  BY <1>3, Places
<1>5. \A x \in media : x \in Nat /\ 1 <= x /\ x < next
  BY <1>3, <1>4
<1> QED BY <1>2, <1>3, <1>4, <1>5

\* A message the client is told of comes before all that it is not told of.
LEMMA Crossed ==
  ASSUME net \in Seq(Event), NEW P, Past(P), NEW x \in Nat, x < next, x \notin Untold
  PROVE  x < P[0].next
<1> DEFINE I == {i \in 0 .. Len(net) : x < P[i].next}
<1>1. /\ Len(net) \in Nat /\ 0 \in 0 .. Len(net) /\ Len(net) \in 0 .. Len(net)
      /\ \A i \in 0 .. Len(net) : Placed(P[i])
      /\ P[Len(net)].next = next
  BY PastPlaced
<1>2. I \subseteq Nat /\ I # {}
  <2>1. Len(net) \in I
    BY <1>1
  <2> QED BY <2>1
<1>3. PICK i \in I : \A j \in I : ~(j < i)
  <2> HIDE DEF I
  <2> QED BY <1>2, LeastNat
<1>4. CASE i = 0
  BY <1>3, <1>4
<1>5. CASE i # 0
  <2>1. i \in 1 .. Len(net) /\ i \in 0 .. Len(net) /\ i - 1 \in 0 .. Len(net) /\ i - 1 < i
    BY <1>1, <1>3, <1>5
  <2>2. x < P[i].next /\ ~(x < P[i - 1].next)
    BY <1>3, <2>1
  <2>3. Tells(P[i - 1], net[i], P[i])
    BY <2>1 DEF Past
  <2>4. P[i - 1].next \in Nat /\ P[i].next \in Nat
    <3>1. Placed(P[i - 1]) /\ Placed(P[i])
      BY <1>1, <2>1
    <3>2. P[i - 1].next \in 1 .. Top /\ P[i].next \in 1 .. Top
      BY <3>1, MediaArePlaced
    <3> QED BY <3>2, Places
  <2>5. CASE net[i].kind = "new"
    <3>1. net[i].id = x
      BY <2>2, <2>3, <2>4, <2>5 DEF Tells
    <3>2. net[i] \in InNet("new")
      BY <2>1, <2>5 DEF InNet
    <3> QED BY <3>1, <3>2 DEF Untold
  <2>6. CASE net[i].kind = "tooLong"
    <3>1. x \in net[i].ids
      BY <2>2, <2>3, <2>4, <2>6 DEF Tells
    <3>2. net[i] \in InNet("tooLong")
      BY <2>1, <2>6 DEF InNet
    <3> QED BY <3>1, <3>2 DEF Untold
  <2>7. CASE net[i].kind # "new" /\ net[i].kind # "tooLong"
    BY <2>2, <2>3, <2>7 DEF Tells
  <2> QED BY <2>5, <2>6, <2>7
<1> QED BY <1>4, <1>5

\* The media the client was told of are those of its state of the server.
LEMMA ToldArePast ==
  ASSUME net \in Seq(Event), NEW P, Past(P)
  PROVE  Told \subseteq P[0].media
<1> SUFFICES ASSUME NEW x \in media, x \notin Untold PROVE x \in P[0].media
  BY DEF Told
<1>1. /\ 0 \in 0 .. Len(net) /\ Len(net) \in 0 .. Len(net) /\ 0 <= Len(net)
      /\ Placed(P[0]) /\ Placed(P[Len(net)]) /\ P[Len(net)].media = media /\ P[Len(net)].next = next
  BY PastPlaced
<1>2. x \in Nat /\ 1 <= x /\ x < next
  BY <1>1, MediaArePlaced
<1>3. x < P[0].next
  BY <1>2, Crossed
<1>4. Later(P[0], P[Len(net)])
  BY <1>1 DEF Past
<1>5. P[0].next \in Nat
  BY <1>1, MediaArePlaced, Places
<1>6. x \in Between(P[Len(net)].media, 1, P[0].next - 1)
  BY <1>1, <1>2, <1>3, <1>5 DEF Between
<1> QED BY <1>4, <1>6 DEF Later

\* Of those that are deleted since it will be told.
LEMMA PastAreThere ==
  ASSUME net \in Seq(Event), NEW P, Past(P)
  PROVE  P[0].media \subseteq media \cup Undeleted
<1> SUFFICES ASSUME NEW x \in P[0].media, x \notin media PROVE x \in Undeleted
  OBVIOUS
<1> DEFINE I == {i \in 0 .. Len(net) : x \notin P[i].media}
<1>1. Len(net) \in Nat /\ Len(net) \in 0 .. Len(net) /\ P[Len(net)].media = media
  BY PastPlaced
<1>2. I \subseteq Nat /\ I # {}
  <2>1. Len(net) \in I
    BY <1>1
  <2> QED BY <2>1
<1>3. PICK i \in I : \A j \in I : ~(j < i)
  <2> HIDE DEF I
  <2> QED BY <1>2, LeastNat
<1>4. i \in 1 .. Len(net) /\ i - 1 \in 0 .. Len(net) /\ i - 1 < i
  BY <1>1, <1>3
<1>5. x \notin P[i].media /\ x \in P[i - 1].media
  BY <1>3, <1>4
<1>6. Tells(P[i - 1], net[i], P[i])
  BY <1>4 DEF Past
<1>7. net[i].kind = "delete" /\ net[i].id = x
  BY <1>5, <1>6 DEF Tells
<1>8. net[i] \in InNet("delete")
  BY <1>4, <1>7 DEF InNet
<1> QED BY <1>7, <1>8 DEF Undeleted

\* The first thing on its way, and the two states it leads between.
LEMMA HeadTells ==
  ASSUME net \in Seq(Event), net # <<>>, NEW P, Agrees(P)
  PROVE  /\ Head(net) \in Event /\ Placed(P[0]) /\ Placed(P[1])
         /\ Tells(P[0], Head(net), P[1]) /\ Later(P[0], P[1])
         /\ Finds(Head(net), P[1], Content(slices)) /\ Knows(P[0], Content(slices))
<1>1. Past(P)
  BY DEF Agrees
<1>2. Len(net) \in Nat /\ Len(net) > 0 /\ Head(net) = net[1] /\ Head(net) \in Event
  BY HeadTailProperties, LenProperties, EmptySeq
<1>3. 0 \in 0 .. Len(net) /\ 1 \in 0 .. Len(net) /\ 1 \in 1 .. Len(net) /\ 1 - 1 = 0
  BY <1>2
<1>4. Placed(P[0]) /\ Placed(P[1])
  BY <1>1, <1>3, PastPlaced
<1>5. Tells(P[0], net[1], P[1])
  <2>1. Tells(P[1 - 1], net[1], P[1])
    BY <1>1, <1>3 DEF Past
  <2> QED BY <1>3, <2>1
<1>6. Finds(net[1], P[1], Content(slices)) /\ Knows(P[0], Content(slices))
  BY <1>3 DEF Agrees
<1> QED BY <1>2, <1>4, <1>5, <1>6, TellsLater

-----------------------------------------------------------------------------
(***************************************************************************)
(* What the client keeps as it is told of a step from a to b               *)
(***************************************************************************)

\* A window stays whole, as all that comes comes after it.
LEMMA WholeLater ==
  ASSUME NEW a, Placed(a), NEW b, Placed(b), Later(a, b), NEW v \in Viewer, v.key < a.next,
         NEW K, K \subseteq a.media, v.ids \subseteq K, Whole(v.key, v.ids, a.media)
  PROVE  v.key < b.next /\ Whole(v.key, v.ids, b.media)
<1>1. /\ a.next \in Nat /\ b.next \in Nat /\ v.key \in Nat
      /\ \A x \in b.media : x \in Nat /\ 1 <= x
      /\ \A x \in v.ids : x \in Nat /\ x < a.next
  BY MediaArePlaced, Places, ViewerFields
<1>2. v.key < b.next
  BY <1>1 DEF Later
<1>3. ASSUME v.key # 0, v.ids # {}, NEW x \in b.media, NEW i \in {v.key} \cup v.ids,
             NEW j \in {v.key} \cup v.ids, i <= x, x <= j
      PROVE  x \in v.ids
  <2>1. x < a.next
    BY <1>1, <1>3
  <2>2. x \in Between(b.media, 1, a.next - 1)
    BY <1>1, <2>1 DEF Between
  <2>3. x \in a.media
    BY <2>2 DEF Later
  <2> QED BY <1>3, <2>3 DEF Whole
<1> QED BY <1>2, <1>3 DEF Whole

\* What is asked for may still be asked for.
LEMMA AsksLater ==
  ASSUME NEW a, Placed(a), NEW b, Placed(b), Later(a, b), NEW K, NEW L, K \cap b.media \subseteq L,
         NEW q, Asks(q, a, K)
  PROVE  Asks(q, b, L)
<1>1. q \in Ask /\ q.id \in 0 .. MaxId /\ q.id \in Nat /\ q.id < a.next
  BY Places DEF Asks, Ask
<1>2. /\ a.next \in Nat /\ b.next \in Nat
      /\ \A x \in b.media : x \in Nat /\ 1 <= x
  BY MediaArePlaced, Places
<1>3. q.id < b.next
  BY <1>1, <1>2 DEF Later
<1>4. ASSUME q.dir # "Around", q.id \in b.media PROVE q.id \in L
  <2>1. q.id \in Between(b.media, 1, a.next - 1)
    BY <1>1, <1>2, <1>4 DEF Between
  <2>2. q.id \in a.media
    BY <2>1 DEF Later
  <2>3. q.id \in K
    BY <1>4, <2>2 DEF Asks
  <2> QED BY <1>4, <2>3
<1> QED BY <1>1, <1>3, <1>4 DEF Asks

\* So the client knows what is there, once its lists and the window's step do.
LEMMA StillKnows ==
  ASSUME NEW a, Placed(a), NEW b, Placed(b), Later(a, b), Knows(a, Content(slices)),
         Lists(slices', b), Counts(count', b.media),
         Content(slices) \cap b.media \subseteq Content(slices'),
         NEW step, NEW pending, pending \subseteq asked,
         viewer # None => Steps(step, count', b, Content(slices')),
         ViewerTakes(step, pending)
  PROVE  Knows(b, Content(slices))'
<1>1. \A q \in pending : Asks(q, b, Content(slices'))
  <2>1. \A q \in pending : Asks(q, a, Content(slices))
    BY DEF Knows
  <2> QED BY <2>1, AsksLater
<1>2. CASE viewer = None
  <2>1. viewer' = None /\ asked' = pending
    BY <1>2 DEF ViewerTakes
  <2> QED BY <1>1, <2>1 DEF Knows
<1>3. CASE viewer # None
  <2>1. viewer' = step.viewer /\ asked' = pending \cup step.asks
    BY <1>3 DEF ViewerTakes
  <2>2. Views(viewer', count', b, Content(slices')) /\ \A q \in step.asks : Asks(q, b, Content(slices'))
    BY <1>3, <2>1 DEF Steps
  <2> QED BY <1>1, <2>1, <2>2 DEF Knows
<1> QED BY <1>2, <1>3

\* TakeRange, of a range that adds what the slices lack of b.
LEMMA RangeKnows ==
  ASSUME NEW a, Placed(a), NEW b, Placed(b), Later(a, b), Knows(a, Content(slices)),
         NEW ids, NEW from, NEW till, NEW total, NEW isNew, NEW pending, pending \subseteq asked,
         TakeRange(ids, from, till, total, isNew, pending),
         Took(AddRange(ids, from, till, total, isNew), ids, b)
  PROVE  Knows(b, Content(slices))' /\ Content(slices) \subseteq Content(slices')
<1> DEFINE r == AddRange(ids, from, till, total, isNew)
<1>1. /\ slices' = r.slices /\ count' = r.count
      /\ ViewerTakes(Updated(viewer, r.update), pending)
  BY DEF TakeRange
<1>2. /\ Lists(slices', b) /\ Counts(count', b.media) /\ Content(slices) \subseteq Content(slices')
      /\ count # None => count' # None
      /\ r.update.count = count'
      /\ r.update.ids = None \/ Fits(r.update, b.media, Content(slices'))
  BY <1>1 DEF Took
<1> HIDE DEF r
<1>3. ASSUME viewer # None PROVE Steps(Updated(viewer, r.update), count', b, Content(slices'))
  <2>1. Views(viewer, count, a, Content(slices))
    BY <1>3 DEF Knows
  <2>2. Content(slices) \subseteq a.media /\ Content(slices') \subseteq b.media
    BY <1>2, Listed DEF Knows
  <2>3. /\ viewer \in Viewer /\ viewer.key < a.next /\ viewer.ids \subseteq Content(slices)
        /\ viewer.full = count /\ Whole(viewer.key, viewer.ids, a.media)
    BY <2>1 DEF Views
  <2>4. viewer.key < b.next /\ Whole(viewer.key, viewer.ids, b.media)
    BY <2>2, <2>3, WholeLater
  <2>5. viewer.ids \subseteq Content(slices')
    BY <1>2, <2>3
  <2>6. r.update.count = None => viewer.full = None
    BY <1>2, <2>3
  <2> QED BY <1>2, <2>2, <2>3, <2>4, <2>5, <2>6, UpdatedSteps
<1>4. Content(slices) \cap b.media \subseteq Content(slices')
  BY <1>2
<1> QED BY <1>1, <1>2, <1>3, <1>4, StillKnows

\* A new message is added to the slice that reaches the bottom, or is one.
LEMMA AddedOne ==
  ASSUME NEW a, Placed(a), Lists(slices, a), a.next \in Ids
  PROVE  Added({a.next}, a.next, Top) = 1
<1> DEFINE id    == a.next
           them  == Touched(id, Top)
           first == {s \in them : \A o \in them : s.from <= o.from}
           U     == United({id}, id, Top)
<1>1. Added({id}, id, Top) = Cardinality(U.ids) - Cardinality(Content(first))
  BY DEF Added, Content
<1>2. U.ids = {id} \cup UNION {s.ids : s \in them}
  BY DEF United
<1>3. id \in Nat /\ id \in 1 .. Top /\ id \notin a.media /\ Top \in Nat
  BY MediaArePlaced, Places
<1>4. /\ them \subseteq slices /\ \A s \in slices : s \in them <=> s.till = Top
      /\ \A s \in slices : s.from \in Nat /\ s.till \in Nat /\ s.from <= s.till /\ s.till <= Top
  <2>1. \A s \in slices : /\ s.from \in Nat /\ s.till \in Nat /\ s.from \in 0 .. Top
                          /\ s.till \in 0 .. Top /\ Ranged(s, a)
    <3>1. \A s \in slices : s \in Slice /\ Ranged(s, a)
      BY DEF Lists
    <3> QED BY <3>1, SliceFields
  <2>2. \A s \in slices : /\ s.from <= Top /\ s.till <= Top /\ s.from <= s.till
                          /\ (id <= s.till <=> s.till = Top)
    BY <1>3, <2>1 DEF Ranged
  <2>3. them = {s \in slices : id <= s.till /\ s.from <= Top}
    BY DEF Touched
  <2> HIDE DEF them, id
  <2> QED BY <2>1, <2>2, <2>3
<1>5. \A s, t \in them : s = t
  BY <1>4 DEF Lists, Apart
<1> HIDE DEF U, id
<1>6. CASE them = {}
  <2>1. U.ids = {id}
    BY <1>2, <1>6
  <2>2. first = {}
    BY <1>6
  <2>3. Content(first) = {}
    BY <2>2 DEF Content
  <2>4. Cardinality({id}) = 1 /\ Cardinality({}) = 0
    BY FS_Singleton, FS_EmptySet
  <2> HIDE DEF first
  <2>5. Added({id}, id, Top) = 1 - 0
    BY <1>1, <2>1, <2>3, <2>4
  <2> QED BY <2>5 DEF id
<1>7. CASE them # {}
  <2>1. PICK s \in them : them = {s}
    BY <1>5, <1>7
  <2>2. first = {s}
    BY <1>4, <2>1
  <2> HIDE DEF them, first
  <2>3. U.ids = s.ids \cup {id} /\ Content(first) = s.ids
    BY <1>2, <2>1, <2>2 DEF Content
  <2>4. s.ids \subseteq a.media /\ s.ids \subseteq 0 .. Top
    BY <1>4, <2>1, Listed, MediaArePlaced
  <2>5. IsFiniteSet(s.ids) /\ Cardinality(s.ids) \in Nat /\ id \notin s.ids
    BY <1>3, <2>4, Finite
  <2>6. Cardinality(s.ids \cup {id}) = Cardinality(s.ids) + 1
    BY <2>5, FS_AddElement
  <2>7. Added({id}, id, Top) = Cardinality(s.ids) + 1 - Cardinality(s.ids)
    BY <1>1, <2>3, <2>5, <2>6
  <2> QED BY <2>5, <2>7 DEF id
<1> QED BY <1>6, <1>7

\* addNew
LEMMA NewTakes ==
  ASSUME NEW a, Placed(a), NEW b, Placed(b), b.next = a.next + 1, b.media = a.media \cup {a.next},
         a.next \in Ids, Lists(slices, a), Counts(count, a.media)
  PROVE  Took(AddRange({a.next}, a.next, Top, None, TRUE), {a.next}, b)
<1> DEFINE id == a.next
<1>1. /\ id \in Nat /\ id \in 1 .. Top /\ id \notin a.media /\ Top \in Nat /\ b.next = id + 1
      /\ b.next \in 1 .. Top /\ \A x \in a.media : x \in Nat /\ x < id
  BY MediaArePlaced, Places
<1>2. Adds({id}, id, Top, b)
  <2>1. \A s \in slices : Ranged(s, a) /\ Exact(s, a.media) /\ s \in Slice
    BY DEF Lists
  <2>2. \A s \in slices : Ranged(s, b)
    BY <1>1, <2>1, SliceFields DEF Ranged
  <2>3. ASSUME NEW s \in slices
        PROVE  /\ s.ids \subseteq Between(b.media, s.from, s.till)
               /\ Between(b.media, s.from, s.till) \subseteq s.ids \cup {id}
    <3>1. s.ids = Between(a.media, s.from, s.till)
      BY <2>1 DEF Exact
    <3> QED BY <3>1 DEF Between
  <2>4. id \in 0 .. Top /\ Top \in 0 .. Top /\ id <= Top /\ id < b.next
    BY <1>1
  <2>5. Between(b.media, id, Top) \subseteq {id} /\ id \in Between(b.media, id, Top)
    BY <1>1, <2>4 DEF Between
  <2> HIDE DEF id
  <2>6. {id} \subseteq Between(b.media, id, Top) /\ Between(b.media, id, Top) \subseteq {id} \cup Content(slices)
    BY <2>5
  <2> QED BY <2>2, <2>3, <2>4, <2>6 DEF Adds, Lists
<1>3. CountedWith({id}, id, Top, None, TRUE) = IF count # None THEN count + Added({id}, id, Top) ELSE count
  BY DEF CountedWith
<1>4. Added({id}, id, Top) = 1
  BY AddedOne
<1>5. Cardinality(b.media) = Cardinality(a.media) + 1 /\ Cardinality(a.media) \in Nat
  <2>1. IsFiniteSet(a.media) /\ Cardinality(a.media) \in Nat
    BY MediaArePlaced
  <2> QED BY <1>1, <2>1, FS_AddElement
<1> HIDE DEF id
<1>6. /\ Counts(CountedWith({id}, id, Top, None, TRUE), b.media)
      /\ count # None => CountedWith({id}, id, Top, None, TRUE) # None
  <2>1. CASE count = None
    BY <1>3, <2>1 DEF Counts
  <2>2. CASE count # None
    <3>1. count \in Nat /\ count >= Cardinality(a.media)
      BY <2>2 DEF Counts
    <3>2. count + 1 \in Nat /\ count + 1 >= Cardinality(b.media)
      BY <1>5, <3>1
    <3> QED BY <1>3, <1>4, <2>2, <3>2, Optionals DEF Counts
  <2> QED BY <2>1, <2>2
<1>7. Took(AddRange({id}, id, Top, None, TRUE), {id}, b)
  BY <1>2, <1>6, AddRangeTakes
<1> QED BY <1>7 DEF id

\* The client takes a new message.
LEMMA TakeNewKeeps ==
  ASSUME IInv, TakeNew
  PROVE  IInv'
<1> DEFINE m == Head(net)
<1>1. /\ net # <<>> /\ m.kind = "new" /\ net' = Tail(net) /\ media' = media /\ next' = next
      /\ TakeRange({m.id}, m.id, Top, None, TRUE, asked)
  BY DEF TakeNew
<1>2. net \in Seq(Event) /\ Len(net) <= MaxNet
  BY DEF IInv
<1>3. PICK P : Agrees(P)
  BY DEF IInv
<1>4. /\ m \in Event /\ Placed(P[0]) /\ Placed(P[1]) /\ Tells(P[0], m, P[1])
      /\ Later(P[0], P[1]) /\ Knows(P[0], Content(slices))
  BY <1>1, <1>2, <1>3, HeadTells
<1> HIDE DEF m
<1>5. /\ m.id = P[0].next /\ P[1].next = P[0].next + 1 /\ P[1].media = P[0].media \cup {P[0].next}
  BY <1>1, <1>4 DEF Tells
<1>6. P[0].next \in Ids
  <2>1. P[0].next \in 1 .. Top /\ P[1].next \in 1 .. Top
    BY <1>4, MediaArePlaced
  <2>2. P[0].next \in 1 .. MaxId
    BY <1>5, <2>1, Places
  <2> QED BY <2>2 DEF Ids
<1>7. Took(AddRange({m.id}, m.id, Top, None, TRUE), {m.id}, P[1])
  BY <1>4, <1>5, <1>6, NewTakes DEF Knows
<1>8. Knows(P[1], Content(slices))' /\ Content(slices) \subseteq Content(slices')
  BY <1>1, <1>4, <1>7, RangeKnows
<1>9. Content(slices) \cap P[1].media \subseteq Content(slices')
  BY <1>8
<1> QED BY <1>1, <1>2, <1>3, <1>8, <1>9, Hears

\* addSlice
LEMMA FoundTakes ==
  ASSUME NEW a, Placed(a), Lists(slices, a), Counts(count, a.media), NEW m \in Event,
         m.kind = "found", Finds(m, a, Content(slices))
  PROVE  Took(AddRange(m.ids, m.from, m.till, m.total, FALSE), m.ids, a)
<1>1. m.from \in 0 .. Top /\ m.till \in 0 .. Top
  BY DEF Event
<1>2. /\ m.ids \subseteq Between(a.media, m.from, m.till)
      /\ Between(a.media, m.from, m.till) \subseteq m.ids \cup Content(slices)
      /\ Ranged(m, a) /\ m.total \in {None, Cardinality(a.media)}
  BY DEF Finds
<1>3. Adds(m.ids, m.from, m.till, a)
  <2>1. \A s \in slices : Ranged(s, a) /\ s.ids = Between(a.media, s.from, s.till)
    BY DEF Lists, Exact
  <2> QED BY <1>1, <1>2, <2>1 DEF Adds, Lists, Ranged
<1>4. /\ Counts(CountedWith(m.ids, m.from, m.till, m.total, FALSE), a.media)
      /\ count # None => CountedWith(m.ids, m.from, m.till, m.total, FALSE) # None
  <2>1. Cardinality(a.media) \in Nat
    BY MediaArePlaced
  <2>2. CountedWith(m.ids, m.from, m.till, m.total, FALSE) = IF m.total # None THEN m.total ELSE count
    BY DEF CountedWith
  <2>3. CASE m.total = None
    BY <2>2, <2>3
  <2>4. CASE m.total # None
    <3>1. m.total = Cardinality(a.media)
      BY <1>2, <2>4
    <3>2. m.total \in Nat /\ m.total >= Cardinality(a.media)
      BY <2>1, <3>1
    <3> QED BY <2>2, <2>4, <3>2 DEF Counts
  <2> QED BY <2>3, <2>4
<1> QED BY <1>3, <1>4, AddRangeTakes

\* The client takes what was found.
LEMMA TakeFoundKeeps ==
  ASSUME IInv, TakeFound
  PROVE  IInv'
<1> DEFINE m == Head(net)
<1>1. /\ net # <<>> /\ m.kind = "found" /\ net' = Tail(net) /\ media' = media /\ next' = next
      /\ TakeRange(m.ids, m.from, m.till, m.total, FALSE, asked \ {m.ask})
  BY DEF TakeFound
<1>2. net \in Seq(Event) /\ Len(net) <= MaxNet
  BY DEF IInv
<1>3. PICK P : Agrees(P)
  BY DEF IInv
<1>4. /\ m \in Event /\ Placed(P[0]) /\ Placed(P[1]) /\ Tells(P[0], m, P[1]) /\ Later(P[0], P[1])
      /\ Finds(m, P[1], Content(slices)) /\ Knows(P[0], Content(slices))
  BY <1>1, <1>2, <1>3, HeadTells
<1> HIDE DEF m
<1>5. P[1] = P[0]
  BY <1>1, <1>4 DEF Tells
<1>6. Took(AddRange(m.ids, m.from, m.till, m.total, FALSE), m.ids, P[1])
  BY <1>1, <1>4, <1>5, FoundTakes DEF Knows
<1>7. asked \ {m.ask} \subseteq asked
  OBVIOUS
<1>8. Knows(P[1], Content(slices))' /\ Content(slices) \subseteq Content(slices')
  BY <1>1, <1>4, <1>6, <1>7, RangeKnows
<1>9. Content(slices) \cap P[1].media \subseteq Content(slices')
  BY <1>8
<1> QED BY <1>1, <1>2, <1>3, <1>8, <1>9, Hears

\* The slices are changed one by one, within their ranges.
Changes(S, f, T) == f \in [S -> Slice] /\ T = {f[s] : s \in S}
                    /\ \A s \in S : s.from <= f[s].from /\ f[s].till <= s.till

\* They stay apart.
LEMMA ChangedLists ==
  ASSUME NEW S, NEW a, Lists(S, a), NEW b, NEW f, NEW T, Changes(S, f, T),
         \A s \in S : Exact(f[s], b.media) /\ Ranged(f[s], b)
  PROVE  Lists(T, b)
<1>1. /\ f \in [S -> Slice] /\ T = {f[s] : s \in S}
      /\ \A s \in S : s \in Slice /\ s.from <= f[s].from /\ f[s].till <= s.till
  BY DEF Changes, Lists
<1>2. T \subseteq Slice /\ \A t \in T : Exact(t, b.media) /\ Ranged(t, b)
  BY <1>1
<1>3. IsFiniteSet(T)
  <2>1. f \in Surjection(S, T)
    BY <1>1 DEF Surjection
  <2>2. IsFiniteSet(S)
    BY DEF Lists
  <2> QED BY <2>1, <2>2, FS_Surjection
<1>4. Apart(T)
  <2> SUFFICES ASSUME NEW s \in S, NEW t \in S, f[s] # f[t]
               PROVE  f[s].till < f[t].from \/ f[t].till < f[s].from
    BY <1>1 DEF Apart
  <2>1. s.till < t.from \/ t.till < s.from
    BY DEF Lists, Apart
  <2>2. f[s] \in Slice /\ f[t] \in Slice /\ s \in Slice /\ t \in Slice
    BY <1>1
  <2>3. /\ s.from <= f[s].from /\ f[s].till <= s.till
        /\ t.from <= f[t].from /\ f[t].till <= t.till
    BY <1>1
  <2>4. \A x \in Slice : x.from \in Nat /\ x.till \in Nat
    BY SliceFields
  <2> QED BY <2>1, <2>2, <2>3, <2>4
<1> QED BY <1>2, <1>3, <1>4 DEF Lists

\* removeOne
Without(s, id) ==
  IF s.from <= id /\ id <= s.till THEN [s EXCEPT !.ids = s.ids \ {id}] ELSE s

\* The slices without a message are right of the server without it.
LEMMA WithoutLists ==
  ASSUME NEW a, Placed(a), NEW b, Placed(b), NEW id, b.next = a.next, b.media = a.media \ {id},
         Lists(slices, a)
  PROVE  Lists(SlicesWithout(id), b) /\ Content(SlicesWithout(id)) = Content(slices) \ {id}
<1> DEFINE f == [s \in slices |-> Without(s, id)]
           T == SlicesWithout(id)
<1>1. T = {Without(s, id) : s \in slices}
  BY DEF SlicesWithout, Without
<1>2. \A s \in slices : /\ s \in Slice /\ Exact(s, a.media) /\ Ranged(s, a)
                        /\ s.from \in Nat /\ s.till \in Nat
  BY SliceFields DEF Lists
<1>3. ASSUME NEW s \in slices
      PROVE  /\ Without(s, id) \in Slice /\ Without(s, id).from = s.from
             /\ Without(s, id).till = s.till /\ Without(s, id).ids = s.ids \ {id}
  <2>0. s \in Slice
    BY <1>2
  <2>1. CASE s.from <= id /\ id <= s.till
    <3>1. Without(s, id) = [s EXCEPT !.ids = s.ids \ {id}]
      BY <2>1 DEF Without
    <3> QED BY <2>0, <3>1 DEF Slice
  <2>2. CASE ~(s.from <= id /\ id <= s.till)
    <3>1. Without(s, id) = s
      BY <2>2 DEF Without
    <3>2. id \notin s.ids
      BY <1>2, <2>2 DEF Exact, Between
    <3>3. s.ids \ {id} = s.ids
      BY <3>2
    <3> QED BY <2>0, <3>1, <3>3
  <2> QED BY <2>1, <2>2
<1> HIDE DEF T
<1>4. /\ f \in [slices -> Slice] /\ T = {f[s] : s \in slices}
      /\ \A s \in slices : f[s] = Without(s, id)
  BY <1>1, <1>3
<1> HIDE DEF f
<1>5. Changes(slices, f, T)
  BY <1>2, <1>3, <1>4 DEF Changes
<1>6. \A s \in slices : Exact(f[s], b.media) /\ Ranged(f[s], b)
  BY <1>2, <1>3, <1>4 DEF Exact, Ranged, Between
<1>7. Lists(T, b)
  BY <1>5, <1>6, ChangedLists
<1>8. Content(T) = Content(slices) \ {id}
  <2>1. \A x : x \in Content(T) <=> \E s \in slices : x \in Without(s, id).ids
    BY <1>1 DEF Content
  <2>2. \A x : x \in Content(slices) <=> \E s \in slices : x \in s.ids
    BY DEF Content
  <2>3. \A x : x \in Content(T) <=> \E s \in slices : x \in s.ids /\ x # id
    BY <1>3, <2>1
  <2> QED BY <2>2, <2>3
<1> QED BY <1>7, <1>8 DEF T

\* The client takes a deletion.
LEMMA TakeDeletedKeeps ==
  ASSUME IInv, NEW isLoaded \in BOOLEAN, TakeDeleted(isLoaded)
  PROVE  IInv'
<1> DEFINE m  == Head(net)
           id == m.id
<1>1. /\ net # <<>> /\ m.kind = "delete" /\ net' = Tail(net) /\ media' = media /\ next' = next
      /\ (\E s \in slices : id \in s.ids) => isLoaded
      /\ IF isLoaded
         THEN slices' = SlicesWithout(id) /\ count' = CountWithout /\ ViewerTakes(Removed(viewer, id), asked)
         ELSE slices' = slices /\ count' = count /\ viewer' = viewer /\ asked' = asked
  BY DEF TakeDeleted
<1>2. net \in Seq(Event) /\ Len(net) <= MaxNet
  BY DEF IInv
<1>3. PICK P : Agrees(P)
  BY DEF IInv
<1>4. PICK a, b : a = P[0] /\ b = P[1]
  OBVIOUS
<1>5. /\ m \in Event /\ Placed(a) /\ Placed(b) /\ Tells(a, m, b)
      /\ Later(a, b) /\ Knows(a, Content(slices))
  BY <1>1, <1>2, <1>3, <1>4, HeadTells
<1> HIDE DEF m
<1>6. id \in a.media /\ b.next = a.next /\ b.media = a.media \ {id}
  BY <1>1, <1>5 DEF Tells
<1> HIDE DEF id
<1>7. /\ Lists(slices, a) /\ Counts(count, a.media) /\ Content(slices) \subseteq a.media
      /\ IsFiniteSet(a.media) /\ Cardinality(a.media) \in Nat
      /\ viewer # None => /\ viewer \in Viewer /\ viewer.key < a.next
                          /\ viewer.ids \subseteq Content(slices) /\ viewer.full = count
                          /\ Whole(viewer.key, viewer.ids, a.media)
                          /\ viewer.key < b.next /\ Whole(viewer.key, viewer.ids, b.media)
  <2>1. Lists(slices, a) /\ Counts(count, a.media) /\ Content(slices) \subseteq a.media
    BY <1>5, Listed DEF Knows
  <2>2. ASSUME viewer # None
        PROVE  /\ viewer \in Viewer /\ viewer.key < a.next
               /\ viewer.ids \subseteq Content(slices) /\ viewer.full = count
               /\ Whole(viewer.key, viewer.ids, a.media)
    BY <1>5, <2>2 DEF Knows, Views
  <2>3. ASSUME viewer # None PROVE viewer.key < b.next /\ Whole(viewer.key, viewer.ids, b.media)
    BY <1>5, <2>1, <2>2, <2>3, WholeLater
  <2> QED BY <1>5, <2>1, <2>2, <2>3, MediaArePlaced
<1>8. Cardinality(b.media) = Cardinality(a.media) - 1 /\ Cardinality(b.media) \in Nat
      /\ Cardinality(a.media) \in Nat
  <2>1. Cardinality(a.media \ {id}) = Cardinality(a.media) - 1
    BY <1>6, <1>7, FS_RemoveElement
  <2>2. Cardinality(b.media) \in Nat
    BY <1>5, MediaArePlaced
  <2> QED BY <1>6, <1>7, <2>1, <2>2
<1>9. CASE isLoaded
  <2>1. slices' = SlicesWithout(id) /\ count' = CountWithout /\ ViewerTakes(Removed(viewer, id), asked)
    BY <1>1, <1>9
  <2>2. Lists(slices', b) /\ Content(slices') = Content(slices) \ {id}
    BY <1>5, <1>6, <1>7, <2>1, WithoutLists
  <2>3. count = None \/ (count \in Nat /\ count > 0)
    BY <1>7, <1>8 DEF Counts
  <2>4. count' = (IF count = None THEN None ELSE count - 1) /\ Counts(count', b.media)
    <3>1. count' = IF count = None THEN None ELSE count - 1
      BY <2>1 DEF CountWithout
    <3>2. CASE count = None
      BY <3>1, <3>2 DEF Counts
    <3>3. CASE count # None
      <4>1. count \in Nat /\ count >= Cardinality(a.media)
        BY <1>7, <3>3 DEF Counts
      <4>2. count - 1 \in Nat /\ count - 1 >= Cardinality(b.media)
        BY <1>8, <4>1
      <4> QED BY <3>1, <3>3, <4>2 DEF Counts
    <3> QED BY <3>2, <3>3, <3>1
  <2>5. ASSUME viewer # None PROVE Steps(Removed(viewer, id), count', b, Content(slices'))
    <3>1. /\ viewer \in Viewer /\ viewer.key < b.next /\ viewer.full = count
          /\ viewer.ids \ {id} \subseteq Content(slices')
      BY <1>7, <2>2, <2>5
    <3>2. Whole(viewer.key, viewer.ids \ {id}, b.media)
      BY <1>6, <1>7, <2>5 DEF Whole
    <3>3. Content(slices') \subseteq b.media
      BY <1>5, <2>2, Listed
    <3>4. Steps(Removed(viewer, id), IF viewer.full = None THEN None ELSE viewer.full - 1,
                b, Content(slices'))
      BY <1>5, <2>3, <3>1, <3>2, <3>3, RemovedSteps
    <3> QED BY <2>4, <3>1, <3>4
  <2>6. Content(slices) \cap b.media \subseteq Content(slices')
    BY <1>6, <2>2
  <2>7. Knows(b, Content(slices))'
    BY <1>5, <2>1, <2>2, <2>4, <2>5, <2>6, StillKnows
  <2> QED BY <1>1, <1>2, <1>3, <1>4, <2>6, <2>7, Hears
<1>10. CASE ~isLoaded
  <2>1. slices' = slices /\ count' = count /\ viewer' = viewer /\ asked' = asked
    BY <1>1, <1>10
  <2>2. \A s \in slices : id \notin s.ids
    BY <1>1, <1>10
  <2>3. Lists(slices, b)
    <3>1. \A s \in slices : Exact(s, b.media) /\ Ranged(s, b)
      BY <1>6, <1>7, <2>2 DEF Lists, Exact, Ranged, Between
    <3> QED BY <1>7, <3>1 DEF Lists
  <2>4. Counts(count, b.media)
    BY <1>7, <1>8 DEF Counts
  <2>5. viewer # None => Views(viewer, count, b, Content(slices))
    BY <1>7 DEF Views
  <2>6. \A q \in asked : Asks(q, b, Content(slices))
    BY <1>5, AsksLater DEF Knows
  <2>7. Knows(b, Content(slices))'
    BY <2>1, <2>3, <2>4, <2>5, <2>6 DEF Knows, Content
  <2>8. Content(slices) \cap b.media \subseteq Content(slices')
    BY <2>1
  <2> QED BY <1>1, <1>2, <1>3, <1>4, <2>7, <2>8, Hears
<1> QED BY <1>9, <1>10

\* invalidateBottom
ToLast(s) == IF s.till = Top THEN [s EXCEPT !.till = Max({s.from} \cup s.ids)] ELSE s

\* Cut to their last messages the slices are right still, whatever was missed.
LEMMA ToLastLists ==
  ASSUME NEW a, Placed(a), NEW b, Placed(b), Later(a, b), a.media \subseteq b.media,
         Lists(slices, a)
  PROVE  Lists(SlicesToLast, b) /\ Content(SlicesToLast) = Content(slices)
<1> DEFINE f == [s \in slices |-> ToLast(s)]
           T == SlicesToLast
<1>1. T = {ToLast(s) : s \in slices}
  BY DEF SlicesToLast, ToLast
<1>2. /\ a.next \in Nat /\ a.next \in 1 .. Top /\ b.next \in Nat /\ a.next <= b.next /\ Top \in Nat
      /\ \A x \in b.media : x \in Nat /\ 1 <= x
      /\ \A x \in a.media : x \in Nat /\ 1 <= x /\ x < a.next
  BY MediaArePlaced, Places DEF Later
<1>3. ASSUME NEW s \in slices
      PROVE  /\ s \in Slice /\ s.from \in Nat /\ s.till \in Nat /\ s.till \in 0 .. Top
             /\ s.ids = Between(a.media, s.from, s.till) /\ Ranged(s, a)
  <2>1. s \in Slice /\ Exact(s, a.media) /\ Ranged(s, a)
    BY DEF Lists
  <2> QED BY <2>1, SliceFields DEF Exact
<1>4. ASSUME NEW s \in slices
      PROVE  /\ ToLast(s) \in Slice /\ ToLast(s).from = s.from /\ ToLast(s).ids = s.ids
             /\ ToLast(s).till \in Nat /\ ToLast(s).till <= s.till /\ ToLast(s).till < a.next
             /\ s.from <= ToLast(s).till /\ \A x \in s.ids : x <= ToLast(s).till
  <2> DEFINE F == {s.from} \cup s.ids
             t == ToLast(s)
  <2>1. CASE s.till = Top
    <3>1. t = [s EXCEPT !.till = Max(F)]
      BY <2>1 DEF ToLast
    <3>2. F \subseteq 0 .. Top /\ F # {}
      <4>1. s.from \in 0 .. Top /\ s.ids \subseteq a.media /\ a.media \subseteq 0 .. Top
        BY <1>3, SliceFields, MediaArePlaced DEF Between
      <4> QED BY <4>1
    <3>3. \A x \in F : x \in Nat /\ x < a.next
      <4>1. s.from < a.next /\ s.from \in Nat
        BY <1>3 DEF Ranged
      <4>2. \A x \in s.ids : x \in Nat /\ x < a.next
        BY <1>2, <1>3 DEF Between
      <4> QED BY <4>1, <4>2
    <3>4. s.from \in F /\ \A x \in s.ids : x \in F
      OBVIOUS
    <3> HIDE DEF F, t
    <3>5. Max(F) \in F /\ \A x \in F : x <= Max(F)
      BY <3>2, Ends
    <3>6. Max(F) \in Nat /\ Max(F) \in 0 .. Top /\ Max(F) < a.next /\ Max(F) <= Top
      <4>1. Max(F) \in 0 .. Top /\ Max(F) \in Nat /\ Max(F) < a.next
        BY <3>2, <3>3, <3>5
      <4> QED BY <1>2, <4>1
    <3>7. t \in Slice /\ t.from = s.from /\ t.ids = s.ids /\ t.till = Max(F)
      <4>1. s \in Slice
        BY <1>3
      <4> QED BY <3>1, <3>6, <4>1 DEF Slice
    <3>8. /\ t.till \in Nat /\ t.till <= s.till /\ t.till < a.next
          /\ s.from <= t.till /\ \A x \in s.ids : x <= t.till
      BY <2>1, <3>4, <3>5, <3>6, <3>7
    <3> QED BY <3>7, <3>8 DEF t
  <2>2. CASE s.till # Top
    <3>1. t = s
      BY <2>2 DEF ToLast
    <3>2. s.till < a.next /\ s.from <= s.till
      BY <1>3, <2>2 DEF Ranged
    <3>3. \A x \in s.ids : x <= s.till
      BY <1>3 DEF Between
    <3> HIDE DEF t
    <3>4. t \in Slice /\ t.till <= s.till
      BY <1>3, <3>1
    <3>5. /\ t \in Slice /\ t.from = s.from /\ t.ids = s.ids
          /\ t.till \in Nat /\ t.till <= s.till /\ t.till < a.next
          /\ s.from <= t.till /\ \A x \in s.ids : x <= t.till
      BY <1>3, <3>1, <3>2, <3>3, <3>4
    <3> QED BY <3>5 DEF t
  <2> QED BY <2>1, <2>2
<1> HIDE DEF T
<1>5. /\ f \in [slices -> Slice] /\ T = {f[s] : s \in slices}
      /\ \A s \in slices : f[s] = ToLast(s)
  BY <1>1, <1>4
<1> HIDE DEF f
<1>6. Changes(slices, f, T)
  <2>1. \A s \in slices : s.from <= f[s].from /\ f[s].till <= s.till
    BY <1>3, <1>4, <1>5
  <2> QED BY <1>5, <2>1 DEF Changes
<1>7. ASSUME NEW s \in slices PROVE Exact(f[s], b.media) /\ Ranged(f[s], b)
  <2>1. PICK t : t = f[s]
    OBVIOUS
  <2>2. /\ t.from = s.from /\ t.ids = s.ids /\ t.till \in Nat /\ t.till <= s.till
        /\ t.till < a.next /\ s.from <= t.till /\ \A x \in s.ids : x <= t.till
    BY <1>4, <1>5, <2>1
  <2>3. ASSUME NEW x \in s.ids PROVE x \in Between(b.media, t.from, t.till)
    <3>1. x \in a.media /\ s.from <= x /\ x <= t.till
      BY <1>3, <2>2 DEF Between
    <3> QED BY <2>2, <3>1 DEF Between
  <2>4. ASSUME NEW x \in Between(b.media, t.from, t.till) PROVE x \in s.ids
    <3>1. x \in b.media /\ x \in Nat /\ 1 <= x /\ s.from <= x /\ x <= t.till
      BY <1>2, <2>2 DEF Between
    <3>2. x \in Between(b.media, 1, a.next - 1)
      BY <1>2, <2>2, <3>1 DEF Between
    <3>3. x \in a.media /\ x <= s.till
      BY <1>3, <2>2, <3>1, <3>2 DEF Later
    <3> QED BY <1>3, <3>1, <3>3 DEF Between
  <2>5. Exact(t, b.media)
    BY <2>2, <2>3, <2>4 DEF Exact
  <2>6. Ranged(t, b)
    <3>1. s.from \in Nat
      BY <1>3
    <3>2. t.from <= t.till /\ t.from < b.next /\ t.till < b.next
      BY <1>2, <2>2, <3>1
    <3> QED BY <3>2 DEF Ranged
  <2> QED BY <2>1, <2>5, <2>6
<1>8. Lists(T, b)
  BY <1>6, <1>7, ChangedLists
<1>9. Content(T) = Content(slices)
  <2>1. \A x : x \in Content(T) <=> \E s \in slices : x \in ToLast(s).ids
    BY <1>1 DEF Content
  <2>2. \A x : x \in Content(slices) <=> \E s \in slices : x \in s.ids
    BY DEF Content
  <2>3. \A x : x \in Content(T) <=> x \in Content(slices)
    BY <1>4, <2>1, <2>2
  <2> QED BY <2>3
<1> QED BY <1>8, <1>9 DEF T

\* The client takes that it missed some.
LEMMA TakeTooLongKeeps ==
  ASSUME IInv, TakeTooLong
  PROVE  IInv'
<1> DEFINE m  == Head(net)
<1>1. /\ net # <<>> /\ m.kind = "tooLong" /\ net' = Tail(net) /\ media' = media /\ next' = next
      /\ slices' = SlicesToLast /\ count' = None
      /\ ViewerTakes(ToLimits(Invalidated(viewer)), asked)
  BY DEF TakeTooLong
<1>2. net \in Seq(Event) /\ Len(net) <= MaxNet
  BY DEF IInv
<1>3. PICK P : Agrees(P)
  BY DEF IInv
<1>4. PICK a, b : a = P[0] /\ b = P[1]
  OBVIOUS
<1>5. /\ m \in Event /\ Placed(a) /\ Placed(b) /\ Tells(a, m, b)
      /\ Later(a, b) /\ Knows(a, Content(slices))
  BY <1>1, <1>2, <1>3, <1>4, HeadTells
<1> HIDE DEF m
<1>6. a.media \subseteq b.media
  BY <1>1, <1>5 DEF Tells
<1>7. Lists(slices', b) /\ Content(slices') = Content(slices)
  BY <1>1, <1>5, <1>6, ToLastLists DEF Knows
<1>8. Counts(count', b.media)
  BY <1>1 DEF Counts
<1>9. ASSUME viewer # None
      PROVE  Steps(ToLimits(Invalidated(viewer)), count', b, Content(slices'))
  <2>1. /\ viewer \in Viewer /\ viewer.key < a.next
        /\ viewer.ids \subseteq Content(slices) /\ Whole(viewer.key, viewer.ids, a.media)
    BY <1>5, <1>9 DEF Knows, Views
  <2>2. Content(slices) \subseteq a.media
    BY <1>5, Listed DEF Knows
  <2>3. viewer.key < b.next /\ Whole(viewer.key, viewer.ids, b.media)
    BY <1>5, <2>1, <2>2, WholeLater
  <2>4. Content(slices') \subseteq b.media /\ viewer.ids \subseteq Content(slices')
    BY <1>6, <1>7, <2>1, <2>2
  <2>5. Steps(ToLimits(Invalidated(viewer)), None, b, Content(slices'))
    BY <1>5, <2>1, <2>3, <2>4, InvalidatedSteps
  <2> QED BY <1>1, <2>5
<1>10. Content(slices) \cap b.media \subseteq Content(slices')
  BY <1>7
<1>11. Knows(b, Content(slices))'
  BY <1>1, <1>5, <1>7, <1>8, <1>9, <1>10, StillKnows
<1> QED BY <1>1, <1>2, <1>3, <1>4, <1>10, <1>11, Hears

-----------------------------------------------------------------------------
(***************************************************************************)
(* What the server does, and what the user does                            *)
(***************************************************************************)

\* The server gets a message.
LEMMA CreateKeeps ==
  ASSUME IInv, Create
  PROVE  IInv'
<1>1. /\ Len(net) < MaxNet /\ next \in News /\ media' = media \cup {next} /\ next' = next + 1
      /\ net' = Append(net, New(next))
      /\ slices' = slices /\ count' = count /\ viewer' = viewer /\ asked' = asked
  BY DEF Create, CanSend
<1>2. /\ media \subseteq Ids /\ next \in Nat /\ media \subseteq 1 .. (next - 1)
      /\ \A x \in media : x \in Nat /\ 1 <= x /\ x < next
  BY ServerIs
<1>3. next \in 1 .. MaxId /\ next + 1 \in 1 .. Top /\ next \in Ids
  BY <1>1, SetsAssumption, Places DEF Ids
<1>4. PICK b : b = [media |-> media \cup {next}, next |-> next + 1]
  OBVIOUS
<1>5. PICK m : m = New(next)
  OBVIOUS
<1>6. m \in Event /\ m.kind = "new" /\ m.id = next
  BY <1>3, <1>5 DEF New, Event
<1>7. b \in State /\ b.media = media' /\ b.next = next' /\ Placed(b)
  <2>1. b.media = media \cup {next} /\ b.next = next + 1
    BY <1>4
  <2>2. b.media \subseteq Ids
    BY <1>2, <1>3, <2>1
  <2>3. b \in State
    BY <1>3, <1>4, <2>1, <2>2 DEF State
  <2>4. b.media \subseteq 1 .. (b.next - 1)
    BY <1>2, <1>3, <2>1
  <2> QED BY <1>1, <2>1, <2>3, <2>4 DEF Placed
<1>8. \A a \in State : a.media = media /\ a.next = next => Tells(a, m, b)
  BY <1>1, <1>6, <1>7 DEF Tells
<1>9. \A P : Agrees(P) => Finds(m, b, Content(slices))
  BY <1>6 DEF Finds
<1> QED BY <1>1, <1>5, <1>6, <1>7, <1>8, <1>9, Sends

\* One is deleted.
LEMMA DeleteKeeps ==
  ASSUME IInv, NEW id \in Ids, Delete(id)
  PROVE  IInv'
<1>1. /\ Len(net) < MaxNet /\ id \in media /\ media' = media \ {id} /\ next' = next
      /\ net' = Append(net, Deleted(id))
      /\ slices' = slices /\ count' = count /\ viewer' = viewer /\ asked' = asked
  BY DEF Delete, CanSend
<1>2. /\ media \subseteq Ids /\ next \in 1 .. Top /\ media \subseteq 1 .. (next - 1)
  BY ServerIs
<1>4. PICK b : b = [media |-> media \ {id}, next |-> next]
  OBVIOUS
<1>5. PICK m : m = Deleted(id)
  OBVIOUS
<1>6. m \in Event /\ m.kind = "delete" /\ m.id = id
  BY <1>5 DEF Deleted, Event
<1>7. b \in State /\ b.media = media' /\ b.next = next' /\ Placed(b)
  BY <1>1, <1>2, <1>4 DEF State, Placed
<1>8. \A a \in State : a.media = media /\ a.next = next => Tells(a, m, b)
  BY <1>1, <1>6, <1>7 DEF Tells
<1>9. \A P : Agrees(P) => Finds(m, b, Content(slices))
  BY <1>6 DEF Finds
<1> QED BY <1>1, <1>5, <1>6, <1>7, <1>8, <1>9, Sends

\* The client misses some.
LEMMA MissKeeps ==
  ASSUME IInv, NEW till \in Ids, Miss(till)
  PROVE  IInv'
<1>1. /\ Len(net) < MaxNet /\ till \in next .. MaxId /\ media' = media \cup next .. till
      /\ next' = till + 1 /\ net' = Append(net, TooLong(next .. till))
      /\ slices' = slices /\ count' = count /\ viewer' = viewer /\ asked' = asked
  BY DEF Miss, CanSend
<1>2. /\ media \subseteq Ids /\ next \in Nat /\ next \in 1 .. Top /\ media \subseteq 1 .. (next - 1)
      /\ \A x \in media : x \in Nat /\ 1 <= x /\ x < next
  BY ServerIs
<1>3. /\ till \in Nat /\ next <= till /\ till <= MaxId /\ till + 1 \in 1 .. Top
      /\ next .. till \subseteq Ids
  <2>1. till \in Nat /\ next <= till /\ till <= MaxId
    BY <1>1, <1>2, Places
  <2>2. next .. till \subseteq 1 .. MaxId
    BY <1>2, <2>1, Places
  <2> QED BY <2>1, <2>2, Places DEF Ids
<1>4. PICK b : b = [media |-> media \cup next .. till, next |-> till + 1]
  OBVIOUS
<1>5. PICK m : m = TooLong(next .. till)
  OBVIOUS
<1>6. m \in Event /\ m.kind = "tooLong" /\ m.ids = next .. till
  BY <1>3, <1>5 DEF TooLong, Event
<1>7. b \in State /\ b.media = media' /\ b.next = next' /\ Placed(b)
  <2>1. b.media = media \cup next .. till /\ b.next = till + 1
    BY <1>4
  <2>2. b.media \subseteq Ids
    BY <1>2, <1>3, <2>1
  <2>3. b \in State
    BY <1>3, <1>4, <2>1, <2>2 DEF State
  <2>4. \A x \in b.media : x \in 1 .. till
    <3>1. \A x \in next .. till : x \in 1 .. till
      BY <1>3 DEF Ids
    <3>2. \A x \in media : x \in 1 .. till
      BY <1>2, <1>3
    <3> QED BY <2>1, <3>1, <3>2
  <2>5. b.next - 1 = till
    BY <1>3, <2>1
  <2> QED BY <1>1, <2>1, <2>3, <2>4, <2>5 DEF Placed
<1>8. \A a \in State : a.media = media /\ a.next = next => Tells(a, m, b)
  <2>1. b.media = media \cup m.ids /\ b.next > next /\ b.next - 1 = till
    BY <1>1, <1>2, <1>3, <1>6, <1>7
  <2> QED BY <1>6, <2>1 DEF Tells
<1>9. \A P : Agrees(P) => Finds(m, b, Content(slices))
  BY <1>6 DEF Finds
<1> QED BY <1>1, <1>5, <1>6, <1>7, <1>8, <1>9, Sends

\* The client is sent what was found.
LEMMA FoundKeeps ==
  ASSUME IInv, NEW m \in Event, m.kind = "found", net' = Append(net, m), Len(net) < MaxNet,
         media' = media /\ next' = next,
         slices' = slices /\ count' = count /\ viewer' = viewer /\ asked' = asked,
         NEW b, b = [media |-> media, next |-> next],
         \A P : Agrees(P) => Finds(m, b, Content(slices))
  PROVE  IInv'
<1>1. media \subseteq Ids /\ next \in 1 .. Top /\ media \subseteq 1 .. (next - 1)
  BY ServerIs
<1>2. b \in State /\ b.media = media' /\ b.next = next' /\ Placed(b)
  BY <1>1 DEF State, Placed
<1>3. ASSUME NEW a \in State, a.media = media, a.next = next PROVE Tells(a, m, b)
  <2>1. a = b
    BY <1>2, <1>3 DEF State
  <2> QED BY <2>1 DEF Tells
<1> QED BY <1>2, <1>3, Sends

\* What the server knows of what is asked for: all that is at the message or, in the
\* client's slices, the message.
LEMMA AskedIs ==
  ASSUME IInv, NEW P, Agrees(P), NEW q \in asked
  PROVE  /\ q \in Ask /\ q.id \in 0 .. MaxId /\ q.id < next
         /\ q.dir # "Around" /\ q.id \in media => q.id \in Content(slices)
<1>1. net \in Seq(Event) /\ Past(P)
  BY DEF IInv, Agrees
<1>2. Asks(q, P[0], Content(slices))
  BY DEF Agrees, Knows
<1>3. /\ Len(net) \in Nat /\ 0 \in 0 .. Len(net) /\ Len(net) \in 0 .. Len(net) /\ 0 <= Len(net)
      /\ Placed(P[0]) /\ Placed(P[Len(net)])
      /\ P[Len(net)].media = media /\ P[Len(net)].next = next
  BY <1>1, PastPlaced
<1>4. Later(P[0], P[Len(net)])
  BY <1>1, <1>3 DEF Past
<1>5. Content(slices) \cap P[Len(net)].media \subseteq Content(slices)
  OBVIOUS
<1>6. Asks(q, P[Len(net)], Content(slices))
  BY <1>2, <1>3, <1>4, <1>5, AsksLater
<1>7. q \in Ask /\ q.id \in 0 .. MaxId
  BY <1>6 DEF Asks, Ask
<1> QED BY <1>3, <1>6, <1>7 DEF Asks

\* messages.search: nothing is left out between what is found and what is asked at.
LEMMA AnswerFinds ==
  ASSUME NEW b, Placed(b), b.media = media, b.next = next, NEW q \in Ask, q.id < next,
         NEW K, q.dir # "Around" /\ q.id \in media => q.id \in K
  PROVE  AnswerTo(q) \in Event /\ AnswerTo(q).kind = "found" /\ Finds(AnswerTo(q), b, K)
<1> DEFINE lower == Below(media, q.id)
           half  == Limit \div 2
           ids   == CASE q.dir = "Before" -> Greatest(lower, Limit)
                      [] q.dir = "After"  -> Least(Above(media, q.id), Limit)
                      [] q.dir = "Around" ->
                           IF q = CountAsk THEN {}
                           ELSE Greatest(lower, half) \cup Least(media \ lower, half)
           none  == q.id # 0 /\ ids = {}
           from  == IF none /\ q.dir # "After" THEN 0 ELSE Min({q.id} \cup ids)
           till  == IF none /\ q.dir # "Before" THEN Top ELSE Max({q.id} \cup ids)
           m     == AnswerTo(q)
<1>1. m = Found(q, ids, from, till, Cardinality(media))
  BY DEF AnswerTo
<1>2. /\ q.id \in 0 .. MaxId /\ q.id \in Nat /\ q.id \in 0 .. Top
      /\ q.dir \in {"Around", "Before", "After"}
  <2>1. q.id \in 0 .. MaxId /\ q.dir \in {"Around", "Before", "After"}
    BY DEF Ask
  <2> QED BY <2>1, Places
<1>3. /\ media \subseteq Ids /\ media \subseteq 0 .. Top /\ Cardinality(media) \in Nat
      /\ next \in 1 .. Top /\ next \in Nat /\ Top \in Nat
      /\ \A x \in media : x \in Nat /\ 1 <= x /\ x < next
  BY MediaArePlaced, Places
<1>4. half \in Nat /\ half > 0 /\ Limit \in Nat /\ Limit > 0
  BY Places
<1>5. /\ lower \subseteq 0 .. Top /\ Above(media, q.id) \subseteq 0 .. Top
      /\ \A x : x \in lower <=> x \in media /\ x < q.id
      /\ \A x : x \in Above(media, q.id) <=> x \in media /\ x > q.id
  BY <1>3 DEF Below, Above
<1> HIDE DEF half
\* They are media, and with what is asked at they have all there is between two of them;
\* there are none only if there is none.
<1>6. /\ ids \subseteq media
      /\ q.dir = "Before" => /\ \A x \in ids : x < q.id
                             /\ \A x \in media, y \in ids : y <= x /\ x < q.id => x \in ids
                             /\ ids = {} => \A x \in media : ~(x < q.id)
      /\ q.dir = "After" => /\ \A x \in ids : q.id < x
                            /\ \A x \in media, y \in ids : x <= y /\ q.id < x => x \in ids
                            /\ ids = {} => \A x \in media : ~(q.id < x)
      /\ q.dir = "Around" /\ q.id # 0 => Whole(q.id, ids, media) /\ (ids = {} => media = {})
      /\ q.dir = "Around" /\ q.id = 0 => ids = {}
  <2>1. CASE q.dir = "Before"
    <3>1. ids = Greatest(lower, Limit)
      BY <2>1
    <3>2. /\ ids \subseteq lower /\ \A x \in lower, y \in ids : y <= x => x \in ids
          /\ lower # {} => ids # {}
      <4> HIDE DEF ids, lower
      <4> QED BY <1>4, <1>5, <3>1, GreatestAre
    <3> HIDE DEF ids, lower
    <3>3. ids \subseteq media /\ \A x \in ids : x < q.id
      BY <1>5, <3>2
    <3>4. \A x \in media, y \in ids : y <= x /\ x < q.id => x \in ids
      BY <1>5, <3>2
    <3>5. ids = {} => \A x \in media : ~(x < q.id)
      BY <1>5, <3>2
    <3> QED BY <2>1, <3>3, <3>4, <3>5
  <2>2. CASE q.dir = "After"
    <3> DEFINE upper == Above(media, q.id)
    <3>1. ids = Least(upper, Limit)
      BY <2>2
    <3>2. /\ ids \subseteq upper /\ \A x \in upper, y \in ids : x <= y => x \in ids
          /\ upper # {} => ids # {}
      <4> HIDE DEF ids, upper
      <4>1. upper \subseteq 0 .. Top
        BY <1>5 DEF upper
      <4> QED BY <1>4, <3>1, <4>1, LeastAre
    <3>6. \A x : x \in upper <=> x \in media /\ q.id < x
      BY <1>2, <1>3, <1>5
    <3> HIDE DEF ids, upper
    <3>3. ids \subseteq media /\ \A x \in ids : q.id < x
      BY <3>2, <3>6
    <3>4. \A x \in media, y \in ids : x <= y /\ q.id < x => x \in ids
      BY <3>2, <3>6
    <3>5. ids = {} => \A x \in media : ~(q.id < x)
      BY <3>2, <3>6
    <3> QED BY <2>2, <3>3, <3>4, <3>5
  <2>3. CASE q.dir = "Around" /\ q.id = 0
    <3>1. q = CountAsk
      BY <2>3 DEF CountAsk, Ask
    <3>2. ids = {}
      BY <2>3, <3>1
    <3> HIDE DEF ids
    <3> QED BY <2>3, <3>2
  <2>4. CASE q.dir = "Around" /\ q.id # 0
    <3>1. q # CountAsk
      BY <2>4 DEF CountAsk
    <3>2. ids = Kept(media, q.id, half, half)
      BY <2>4, <3>1 DEF Kept
    <3> HIDE DEF ids
    <3>3. Whole(q.id, media, media)
      BY DEF Whole
    <3>4. ids \subseteq media /\ Whole(q.id, ids, media)
      BY <1>2, <1>3, <1>4, <3>2, <3>3, KeptIsWhole
    <3>5. ASSUME media # {} PROVE ids # {}
      <4>1. CASE lower # {}
        <5> HIDE DEF lower
        <5>1. Greatest(lower, half) # {}
          BY <1>4, <1>5, <4>1, GreatestAre
        <5> QED BY <3>2, <5>1 DEF Kept, lower
      <4>2. CASE lower = {}
        <5>1. media \ lower = media
          BY <4>2
        <5>2. Least(media, half) # {}
          BY <1>3, <1>4, <3>5, LeastAre
        <5> QED BY <3>2, <5>1, <5>2 DEF Kept
      <4> QED BY <4>1, <4>2
    <3> QED BY <2>4, <3>4, <3>5
  <2> QED BY <1>2, <2>1, <2>2, <2>3, <2>4
<1> HIDE DEF ids, lower
<1> DEFINE held == {q.id} \cup ids
<1>7. PICK lo \in held, hi \in held :
        lo = Min(held) /\ hi = Max(held) /\ \A x \in held : lo <= x /\ x <= hi
  <2>1. held \subseteq 0 .. Top /\ held # {}
    BY <1>2, <1>3, <1>6
  <2> HIDE DEF held
  <2> QED BY <2>1, Ends
<1>8. /\ from = IF none /\ q.dir # "After" THEN 0 ELSE lo
      /\ till = IF none /\ q.dir # "Before" THEN Top ELSE hi
  BY <1>7
<1>9. /\ lo \in Nat /\ hi \in Nat /\ lo <= q.id /\ q.id <= hi /\ hi < next
      /\ lo \in 0 .. Top /\ hi \in 0 .. Top
      /\ \A x \in ids : x \in media /\ lo <= x /\ x <= hi
  <2>1. \A x \in held : x \in Nat /\ x < next
    BY <1>2, <1>3, <1>6
  <2>2. q.id \in held /\ ids \subseteq held
    OBVIOUS
  <2> HIDE DEF held
  <2>3. lo \in Nat /\ hi \in Nat /\ lo <= q.id /\ q.id <= hi /\ hi < next /\ lo < next
    BY <1>7, <2>1, <2>2
  <2>4. next <= Top
    BY <1>3
  <2> QED BY <1>3, <1>6, <1>7, <2>2, <2>3, <2>4
<1> HIDE DEF from, till
<1>10. /\ from \in 0 .. Top /\ till \in 0 .. Top /\ from <= q.id /\ q.id <= till
       /\ (till = Top \/ till < next)
       /\ \A x \in ids : from <= x /\ x <= till
  <2>1. /\ from = 0 \/ from = lo
        /\ till = Top \/ till = hi
    BY <1>8
  <2>2. \A x \in ids : x \in Nat /\ x <= Top
    BY <1>3, <1>6, <1>9
  <2>3. q.id <= Top
    BY <1>2, <1>3
  <2> QED BY <1>2, <1>3, <1>9, <2>1, <2>2, <2>3
<1>11. ASSUME NEW x \in media, from <= x, x <= till PROVE x \in ids \cup K
  <2>0. x \in Nat /\ 1 <= x
    BY <1>3
  <2>1. CASE q.dir = "Before"
    <3>1. CASE x = q.id
      BY <2>1, <3>1
    <3>2. CASE x < q.id
      <4>1. ids # {}
        BY <1>6, <2>1, <3>2
      <4>2. from = lo
        BY <1>8, <4>1
      <4>3. lo <= x /\ lo # q.id
        BY <1>2, <1>9, <1>11, <2>0, <3>2, <4>2
      <4>4. lo \in ids
        BY <1>7, <4>3
      <4> QED BY <1>6, <2>1, <3>2, <4>3, <4>4
    <3>3. CASE x > q.id
      <4>1. till = hi
        BY <1>8, <2>1
      <4>2. hi = q.id
        BY <1>2, <1>6, <1>7, <1>9, <2>1
      <4> QED BY <1>2, <1>11, <2>0, <3>3, <4>1, <4>2
    <3> QED BY <1>2, <2>0, <3>1, <3>2, <3>3
  <2>2. CASE q.dir = "After"
    <3>1. CASE x = q.id
      BY <2>2, <3>1
    <3>2. CASE x > q.id
      <4>1. ids # {}
        BY <1>2, <1>6, <2>0, <2>2, <3>2
      <4>2. till = hi
        BY <1>8, <4>1
      <4>3. x <= hi /\ hi # q.id
        BY <1>2, <1>9, <1>11, <2>0, <3>2, <4>2
      <4>4. hi \in ids
        BY <1>7, <4>3
      <4>5. q.id < x
        BY <1>2, <2>0, <3>2
      <4> QED BY <1>6, <2>2, <4>3, <4>4, <4>5
    <3>3. CASE x < q.id
      <4>1. from = lo
        BY <1>8, <2>2
      <4>2. lo = q.id
        BY <1>2, <1>6, <1>7, <1>9, <2>2
      <4> QED BY <1>2, <1>11, <2>0, <3>3, <4>1, <4>2
    <3> QED BY <1>2, <2>0, <3>1, <3>2, <3>3
  <2>3. CASE q.dir = "Around" /\ q.id = 0
    <3>1. till = hi
      BY <1>8, <2>3
    <3>2. hi = 0
      BY <1>6, <1>7, <2>3
    <3> QED BY <1>11, <2>0, <3>1, <3>2
  <2>4. CASE q.dir = "Around" /\ q.id # 0
    <3>1. ids # {}
      BY <1>6, <2>4
    <3>2. from = lo /\ till = hi
      BY <1>8, <3>1
    <3>3. lo \in {q.id} \cup ids /\ hi \in {q.id} \cup ids /\ lo <= x /\ x <= hi
      BY <1>7, <1>11, <3>2
    <3> QED BY <1>6, <2>4, <3>1, <3>3 DEF Whole
  <2> QED BY <1>2, <2>1, <2>2, <2>3, <2>4
<1>12. /\ m \in Event /\ m.kind = "found" /\ m.ids = ids /\ m.from = from /\ m.till = till
       /\ m.total = Cardinality(media)
  <2>1. ids \in SUBSET Ids
    BY <1>3, <1>6
  <2>2. q \in Optional(Ask) /\ Cardinality(media) \in Optional(Nat)
    BY <1>3 DEF Optional
  <2> HIDE DEF m
  <2> QED BY <1>1, <1>10, <2>1, <2>2 DEF Found, Event
<1> HIDE DEF m
<1>13. Finds(m, b, K)
  <2>1. m.ids \subseteq Between(b.media, m.from, m.till)
    BY <1>6, <1>10, <1>12 DEF Between
  <2>2. Between(b.media, m.from, m.till) \subseteq m.ids \cup K
    BY <1>11, <1>12 DEF Between
  <2>3. Ranged(m, b)
    <3>1. from <= till /\ from < next
      BY <1>2, <1>3, <1>10
    <3> QED BY <1>10, <1>12, <3>1 DEF Ranged
  <2> QED BY <1>12, <2>1, <2>2, <2>3 DEF Finds
<1> QED BY <1>12, <1>13 DEF m

\* The server answers.
LEMMA AnswerKeeps ==
  ASSUME IInv, NEW q \in asked, Answer(q)
  PROVE  IInv'
<1>1. /\ Len(net) < MaxNet /\ net' = Append(net, AnswerTo(q)) /\ media' = media /\ next' = next
      /\ slices' = slices /\ count' = count /\ viewer' = viewer /\ asked' = asked
  BY DEF Answer, CanSend
<1>2. PICK b : b = [media |-> media, next |-> next]
  OBVIOUS
<1>3. media \subseteq Ids /\ next \in 1 .. Top /\ media \subseteq 1 .. (next - 1)
  BY ServerIs
<1>4. Placed(b) /\ b.media = media /\ b.next = next
  BY <1>2, <1>3 DEF State, Placed
<1>5. PICK P : Agrees(P)
  BY DEF IInv
<1>6. q \in Ask /\ q.id < next /\ (q.dir # "Around" /\ q.id \in media => q.id \in Content(slices))
  BY <1>5, AskedIs
<1>7. PICK m : m = AnswerTo(q)
  OBVIOUS
<1>8. m \in Event /\ m.kind = "found" /\ Finds(m, b, Content(slices))
  BY <1>4, <1>6, <1>7, AnswerFinds
<1> QED BY <1>1, <1>2, <1>7, <1>8, FoundKeeps

\* A part of the history is loaded.
LEMMA LoadKeeps ==
  ASSUME IInv, NEW from \in 0 .. Top, NEW till \in 0 .. Top, Load(from, till)
  PROVE  IInv'
<1> DEFINE ids == {i \in media : from <= i /\ i <= till}
<1>1. /\ Len(net) < MaxNet /\ net' = Append(net, Found(None, ids, from, till, None))
      /\ ids # {} /\ from < next /\ (till < next \/ till = Top)
      /\ media' = media /\ next' = next
      /\ slices' = slices /\ count' = count /\ viewer' = viewer /\ asked' = asked
  BY DEF Load, CanSend
<1>2. PICK b : b = [media |-> media, next |-> next]
  OBVIOUS
<1>3. /\ media \subseteq Ids /\ next \in 1 .. Top /\ media \subseteq 1 .. (next - 1)
      /\ \A x \in media : x \in Nat
  BY ServerIs
<1>4. b.media = media /\ b.next = next
  BY <1>2
<1>5. PICK m : m = Found(None, ids, from, till, None)
  OBVIOUS
<1>6. ids \subseteq media /\ from <= till /\ from \in Nat /\ till \in Nat
  <2>1. PICK i \in media : from <= i /\ i <= till
    BY <1>1
  <2>2. i \in Nat /\ from \in Nat /\ till \in Nat
    BY <1>3, Places
  <2> QED BY <2>1, <2>2
<1>7. /\ m \in Event /\ m.kind = "found" /\ m.ids = ids /\ m.from = from /\ m.till = till
      /\ m.total = None
  <2>1. ids \in SUBSET Ids
    BY <1>3, <1>6
  <2>2. None \in Optional(Ask) /\ None \in Optional(Nat)
    BY DEF Optional
  <2> HIDE DEF ids
  <2> QED BY <1>5, <2>1, <2>2 DEF Found, Event
<1>8. Finds(m, b, Content(slices))
  <2>1. m.ids = Between(b.media, m.from, m.till)
    BY <1>4, <1>7 DEF Between
  <2>2. Ranged(m, b)
    BY <1>1, <1>4, <1>6, <1>7 DEF Ranged
  <2> QED BY <1>7, <2>1, <2>2 DEF Finds
<1> HIDE DEF ids
<1> QED BY <1>1, <1>2, <1>5, <1>7, <1>8, FoundKeeps

\* A step that neither tells anything nor changes the lists.
LEMMA OwnKeeps ==
  ASSUME IInv, net' = net, media' = media, next' = next, slices' = slices, count' = count,
         \A P : Agrees(P) =>
           /\ viewer' # None => Views(viewer', count, P[0], Content(slices))
           /\ \A q \in asked' : Asks(q, P[0], Content(slices))
  PROVE  IInv'
<1>1. PICK P : Agrees(P)
  BY DEF IInv
<1>2. Past(P)'
  BY <1>1 DEF Agrees, Past
<1>3. Knows(P[0], Content(slices))'
  BY <1>1 DEF Agrees, Knows, Content
<1>4. \A i \in 1 .. Len(net') : Finds(net'[i], P[i], Content(slices'))
  BY <1>1 DEF Agrees
<1>5. Agrees(P)'
  BY <1>2, <1>3, <1>4 DEF Agrees
<1> QED BY <1>5 DEF IInv

\* A request fails.
LEMMA FailKeeps ==
  ASSUME IInv, NEW q \in asked, Fail(q)
  PROVE  IInv'
<1>1. /\ net' = net /\ media' = media /\ next' = next /\ slices' = slices /\ count' = count
      /\ viewer' = viewer /\ asked' = asked \ {q}
  BY DEF Fail
<1> QED BY <1>1, OwnKeeps DEF Agrees, Knows

\* The window is closed.
LEMMA CloseKeeps ==
  ASSUME IInv, Close
  PROVE  IInv'
<1>1. /\ net' = net /\ media' = media /\ next' = next /\ slices' = slices /\ count' = count
      /\ viewer' = None /\ asked' = asked
  BY DEF Close
<1> QED BY <1>1, OwnKeeps DEF Agrees, Knows

\* A window is opened at a message the client has.
LEMMA OpenKeeps ==
  ASSUME IInv, NEW key \in Keys, Open(key)
  PROVE  IInv'
<1> DEFINE empty == [key |-> key, ids |-> {}, full |-> None, before |-> None, after |-> None]
           s     == Snapshot(key)
           first == IF s.ids = {} /\ count = None THEN [viewer |-> empty, asks |-> {}]
                    ELSE Merged(empty, count, s.ids, s.before, s.after)
           second == ToLimits(first.viewer)
<1>1. /\ net' = net /\ media' = media /\ next' = next /\ slices' = slices /\ count' = count
      /\ viewer' = second.viewer /\ asked' = asked \cup first.asks \cup second.asks
      /\ key < next /\ key \notin Untold
  BY DEF Open
<1>2. ASSUME NEW P, Agrees(P)
      PROVE  /\ Views(viewer', count, P[0], Content(slices))
             /\ \A q \in asked' : Asks(q, P[0], Content(slices))
  <2>1. net \in Seq(Event) /\ Past(P) /\ Knows(P[0], Content(slices))
    BY <1>2 DEF IInv, Agrees
  <2>2. PICK a : a = P[0]
    OBVIOUS
  <2>3. Placed(a)
    BY <2>1, <2>2, PastPlaced
  <2>4. key \in 0 .. MaxId /\ key \in Nat /\ key < a.next
    <3>1. key \in 0 .. MaxId /\ key \in Nat
      BY SetsAssumption, Places
    <3>2. key < P[0].next
      BY <1>1, <2>1, <3>1, Crossed
    <3> QED BY <2>2, <3>1, <3>2
  <2>5. Lists(slices, a) /\ Counts(count, a.media) /\ Content(slices) \subseteq a.media
    BY <2>1, <2>2, <2>3, Listed DEF Knows
  <2>6. count \in Optional(Nat)
    BY <2>5 DEF Counts, Optional
  <2>7. /\ s.ids \subseteq Content(slices) /\ Whole(key, s.ids, a.media)
        /\ s.before \in Optional(Int) /\ s.after \in Optional(Int)
    BY <2>3, <2>5, <2>6, SnapshotIs
  <2>8. /\ empty \in Viewer /\ empty.key = key /\ empty.ids = {} /\ empty.full = None
    BY DEF Viewer, Optional
  <2> HIDE DEF empty, s
  <2>9. Steps(first, count, a, Content(slices))
    <3>1. CASE s.ids = {} /\ count = None
      <4>1. Whole(empty.key, empty.ids, a.media)
        BY <2>8 DEF Whole
      <4>2. Views(empty, count, a, Content(slices))
        BY <2>4, <2>8, <3>1, <4>1 DEF Views
      <4>3. first.viewer = empty /\ first.asks = {}
        BY <3>1
      <4> HIDE DEF first
      <4> QED BY <4>2, <4>3 DEF Steps
    <3>2. CASE ~(s.ids = {} /\ count = None)
      <4>1. empty.ids \cup s.ids = s.ids
        BY <2>8
      <4>2. empty.ids \cup s.ids \subseteq Content(slices) /\ Whole(empty.key, empty.ids \cup s.ids, a.media)
        BY <2>7, <2>8, <4>1
      <4>3. Steps(Merged(empty, count, s.ids, s.before, s.after), count, a, Content(slices))
        BY <2>3, <2>4, <2>5, <2>6, <2>7, <2>8, <4>2, MergedSteps
      <4>4. first = Merged(empty, count, s.ids, s.before, s.after)
        BY <3>2
      <4> HIDE DEF first
      <4> QED BY <4>3, <4>4
    <3> QED BY <3>1, <3>2
  <2> HIDE DEF first
  <2>10. Views(first.viewer, count, a, Content(slices))
    BY <2>9 DEF Steps
  <2>11. Steps(second, count, a, Content(slices))
    BY <2>3, <2>5, <2>10, ToLimitsSteps
  <2> HIDE DEF second
  <2>12. Views(viewer', count, a, Content(slices))
    BY <1>1, <2>11 DEF Steps
  <2>13. \A q \in asked' : Asks(q, a, Content(slices))
    <3>1. \A q \in asked : Asks(q, a, Content(slices))
      BY <2>1, <2>2 DEF Knows
    <3> QED BY <1>1, <2>9, <2>11, <3>1 DEF Steps
  <2> QED BY <2>2, <2>12, <2>13
<1> QED BY <1>1, <1>2, OwnKeeps

\* At first the client knows of nothing.
LEMMA InitKnows ==
  ASSUME Init
  PROVE  IInv
<1>1. /\ media = 1 .. Initial /\ next = Initial + 1 /\ net = <<>> /\ slices = {} /\ count = None
      /\ viewer = None /\ asked = {}
  BY DEF Init
<1>2. PICK a : a = [media |-> media, next |-> next]
  OBVIOUS
<1>3. a.media = 1 .. Initial /\ a.next = Initial + 1
  BY <1>1, <1>2
<1>4. Initial \in Nat /\ Initial <= MaxId /\ MaxId \in Nat
  BY BoundsAssumption
<1>5. a \in State /\ a.media \subseteq 1 .. (a.next - 1)
  <2>1. Initial + 1 \in 1 .. Top /\ Initial + 1 - 1 = Initial
    BY <1>4, Places
  <2>2. 1 .. Initial \subseteq Ids
    BY <1>4 DEF Ids
  <2>3. a \in State
    BY <1>1, <1>2, <2>1, <2>2 DEF State
  <2>4. a.next - 1 = Initial
    BY <1>3, <1>4
  <2> QED BY <1>3, <2>3, <2>4
<1>6. Len(net) = 0 /\ net \in Seq(Event)
  BY <1>1, EmptySeq
<1>7. PICK P \in [{0} -> State] : P[0] = a
  <2>1. [i \in {0} |-> a] \in [{0} -> State]
    BY <1>5
  <2> QED BY <2>1
<1>8. 0 .. Len(net) = {0} /\ 1 .. Len(net) = {}
  BY <1>6
<1>9. Past(P)
  <2>1. Later(a, a)
    BY <1>3, <1>4 DEF Later, Between
  <2> QED BY <1>2, <1>5, <1>6, <1>7, <1>8, <2>1 DEF Past
<1>10. Lists(slices, a) /\ Counts(count, a.media)
  BY <1>1, FS_EmptySet DEF Lists, Counts, Apart
<1>11. Agrees(P)
  BY <1>1, <1>7, <1>8, <1>9, <1>10 DEF Agrees, Knows
<1>12. Len(net) <= MaxNet
  BY <1>6, BoundsAssumption
<1> QED BY <1>6, <1>11, <1>12 DEF IInv

\* Nothing changes.
LEMMA StutterKeeps ==
  ASSUME IInv, UNCHANGED vars
  PROVE  IInv'
<1>1. /\ net' = net /\ media' = media /\ next' = next /\ slices' = slices /\ count' = count
      /\ viewer' = viewer /\ asked' = asked
  BY DEF vars
<1> QED BY <1>1, OwnKeeps DEF Agrees, Knows

\* Every step keeps it.
LEMMA NextKeeps == IInv /\ [Next]_vars => IInv'
<1> SUFFICES ASSUME IInv, [Next]_vars PROVE IInv'
  OBVIOUS
<1>1. CASE Create
  BY <1>1, CreateKeeps
<1>2. CASE \E id \in Ids : Delete(id)
  BY <1>2, DeleteKeeps
<1>3. CASE \E till \in Ids : Miss(till)
  BY <1>3, MissKeeps
<1>4. CASE \E ask \in asked : Answer(ask) \/ Fail(ask)
  BY <1>4, AnswerKeeps, FailKeeps
<1>5. CASE \E from, till \in 0 .. Top : Load(from, till)
  BY <1>5, LoadKeeps
<1>6. CASE Take
  <2>1. CASE TakeNew
    BY <2>1, TakeNewKeeps
  <2>2. CASE \E isLoaded \in BOOLEAN : TakeDeleted(isLoaded)
    BY <2>2, TakeDeletedKeeps
  <2>3. CASE TakeTooLong
    BY <2>3, TakeTooLongKeeps
  <2>4. CASE TakeFound
    BY <2>4, TakeFoundKeeps
  <2> QED BY <1>6, <2>1, <2>2, <2>3, <2>4 DEF Take
<1>7. CASE \E key \in Keys : Open(key)
  BY <1>7, OpenKeeps
<1>8. CASE Close
  BY <1>8, CloseKeeps
<1>9. CASE UNCHANGED vars
  BY <1>9, StutterKeeps
<1> QED BY <1>1, <1>2, <1>3, <1>4, <1>5, <1>6, <1>7, <1>8, <1>9 DEF Next

\* The client's lists and its window are right of a past state of the server, and what
\* is on its way leads from there to the server's state now.
THEOREM Inductive == Spec => []IInv
BY InitKnows, NextKeeps, PTL DEF Spec

-----------------------------------------------------------------------------
\* What is known of what the client has.
LEMMA ClientIs ==
  ASSUME IInv
  PROVE  \E a : /\ Placed(a) /\ Knows(a, Content(slices))
                /\ Told \subseteq a.media /\ a.media \subseteq media \cup Undeleted
<1>1. PICK P : Agrees(P)
  BY DEF IInv
<1>2. net \in Seq(Event) /\ Past(P) /\ Knows(P[0], Content(slices))
  BY <1>1 DEF IInv, Agrees
<1>3. Placed(P[0])
  BY <1>2, PastPlaced
<1>4. Told \subseteq P[0].media /\ P[0].media \subseteq media \cup Undeleted
  BY <1>2, ToldArePast, PastAreThere
<1> QED BY <1>2, <1>3, <1>4

\* The types; the slices are apart; the count is not below zero.
THEOREM TypeCorrect == Spec => []TypeOK
<1>1. IInv => TypeOK
  <2> SUFFICES ASSUME IInv PROVE TypeOK
    OBVIOUS
  <2>1. PICK a : Placed(a) /\ Knows(a, Content(slices))
    BY ClientIs
  <2>2. Lists(slices, a) /\ Counts(count, a.media)
    BY <2>1 DEF Knows
  <2>3. media \subseteq Ids /\ next \in 1 .. MaxId + 1 /\ Len(net) <= MaxNet
    BY ServerIs, Places DEF IInv
  <2>4. SlicesApart
    <3>1. \A s, t \in slices : s # t => s.till < t.from \/ t.till < s.from
      BY <2>2 DEF Lists, Apart
    <3>2. \A s \in slices : s.from <= s.till /\ \A id \in s.ids : s.from <= id /\ id <= s.till
      BY <2>2 DEF Lists, Exact, Ranged, Between
    <3> QED BY <3>1, <3>2 DEF SlicesApart
  <2>5. count \in Optional(Nat)
    BY <2>2 DEF Counts, Optional
  <2>6. viewer = None \/ viewer \in Viewer
    BY <2>1 DEF Knows, Views
  <2>7. asked \subseteq Ask
    BY <2>1 DEF Knows, Asks
  <2> QED BY <2>2, <2>3, <2>4, <2>5, <2>6, <2>7 DEF TypeOK, Lists
<1> QED BY <1>1, Inductive, PTL

\* A slice has every media the client was told of in its range: neither uniting slices nor
\* widening the one that has as many as are counted skips one.
THEOREM NoneSkipped == Spec => []NothingSkipped
<1>1. IInv => NothingSkipped
  <2> SUFFICES ASSUME IInv PROVE NothingSkipped
    OBVIOUS
  <2>1. PICK a : Knows(a, Content(slices)) /\ Told \subseteq a.media
    BY ClientIs
  <2> QED BY <2>1 DEF Knows, Lists, Exact, Between, NothingSkipped
<1> QED BY <1>1, Inductive, PTL

\* A slice has no media that is deleted, but one whose deletion is on its way.
THEOREM NoneKept == Spec => []NothingKept
<1>1. IInv => NothingKept
  <2> SUFFICES ASSUME IInv PROVE NothingKept
    OBVIOUS
  <2>1. PICK a : Knows(a, Content(slices)) /\ a.media \subseteq media \cup Undeleted
    BY ClientIs
  <2> QED BY <2>1 DEF Knows, Lists, Exact, Between, NothingKept
<1> QED BY <1>1, Inductive, PTL

\* The count is not below the number of media the client was told of.
THEOREM CountIsEnough == Spec => []CountCovers
<1>1. IInv => CountCovers
  <2> SUFFICES ASSUME IInv, count # None PROVE count >= Cardinality(Told)
    BY DEF CountCovers
  <2>1. PICK a : Placed(a) /\ Knows(a, Content(slices)) /\ Told \subseteq a.media
    BY ClientIs
  <2>2. count \in Nat /\ count >= Cardinality(a.media)
    BY <2>1 DEF Knows, Counts
  <2>3. a.media \subseteq 0 .. Top /\ Cardinality(a.media) \in Nat
    BY <2>1, MediaArePlaced
  <2>4. Told \subseteq 0 .. Top
    BY <2>1, <2>3
  <2>5. Cardinality(Told) \in Nat /\ Cardinality(Told) <= Cardinality(a.media)
    BY <2>1, <2>3, <2>4, Fewer, Finite
  <2> QED BY <2>2, <2>3, <2>5
<1> QED BY <1>1, Inductive, PTL

\* The window has every media the client was told of between its ends, and its count is
\* the list's, though it is told of changes only.
THEOREM WindowIsWhole == Spec => []WindowWhole
<1>1. IInv => WindowWhole
  <2> SUFFICES ASSUME IInv, viewer # None PROVE WindowHasNoHoles /\ viewer.full = count
    BY DEF WindowWhole
  <2>1. PICK a : Placed(a) /\ Knows(a, Content(slices)) /\ Told \subseteq a.media
    BY ClientIs
  <2>2. viewer \in Viewer /\ viewer.full = count /\ Whole(viewer.key, viewer.ids, a.media)
    BY <2>1 DEF Knows, Views
  <2>3. ASSUME viewer.key # 0, viewer.ids # {}
        PROVE  LET held == {viewer.key} \cup viewer.ids
               IN {id \in Told : Min(held) <= id /\ id <= Max(held)} \subseteq viewer.ids
    <3> DEFINE held == {viewer.key} \cup viewer.ids
    <3>1. held \subseteq 0 .. Top /\ held # {}
      BY <2>2, ViewerFields
    <3>2. Min(held) \in held /\ Max(held) \in held
      <4> HIDE DEF held
      <4> QED BY <3>1, Ends
    <3>3. \A id \in Told : Min(held) <= id /\ id <= Max(held) => id \in viewer.ids
      BY <2>1, <2>2, <2>3, <3>2 DEF Whole
    <3> QED BY <3>3
  <2> QED BY <2>2, <2>3 DEF WindowHasNoHoles
<1> QED BY <1>1, Inductive, PTL
=============================================================================
