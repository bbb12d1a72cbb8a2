-------------------------- MODULE LocalFilesProofs --------------------------
(***************************************************************************)
(* Theorems about the encrypted local files, for any files and bounds.     *)
(***************************************************************************)
EXTENDS LocalFiles, TLAPS

\* Nothing in the three files is newer than v.
UpTo(f, v) == f.s <= v /\ f.zero <= v /\ f.one <= v

Writing == job # Idle

\* The tasks that still have to be begun and bring an entry.
Coming ==
  {i \in DOMAIN inbox : /\ inbox[i].do \in {"write", "writeSync"}
                        /\ ~(Writing /\ i = 1)}

\* Entry e is newer than what is on disk and than what is being written.
Ahead(e, f, j, v) ==
  /\ e.v > 0 /\ e.v <= v
  /\ UpTo(f, e.v - 1)
  /\ j # Idle /\ j.entry.base = e.base => j.entry.v < e.v

Newer(e) == Ahead(e, files[e.base], job, version[e.base])

DiskIsAsked == \A b \in Bases : UpTo(files[b], version[b])

JobIsBacked ==
  Writing =>
    LET e == job.entry IN
    /\ e.v > 0 /\ e.v <= version[e.base]
    /\ UpTo(files[e.base], IF job.at = "save" THEN e.v - 1 ELSE e.v)
    /\ inbox # <<>> /\ inbox[1].do # "write"
    /\ inbox[1].do = "writeSync" => inbox[1].entry = e

ScheduledInOrder ==
  /\ \A i \in DOMAIN scheduled : Newer(scheduled[i])
  /\ \A i, j \in DOMAIN scheduled :
       scheduled[i].base = scheduled[j].base => i = j

ComingInOrder ==
  \A i \in Coming :
    LET e == inbox[i].entry IN
    /\ Newer(e)
    /\ \A k \in DOMAIN scheduled :
         scheduled[k].base = e.base => scheduled[k].v < e.v
    /\ \A j \in Coming :
         j < i /\ inbox[j].entry.base = e.base => inbox[j].entry.v < e.v

OneAwaited ==
  \A i, j \in DOMAIN inbox :
    inbox[i].do \in Awaited /\ inbox[j].do \in Awaited => i = j

InOrder ==
  /\ DiskIsAsked /\ JobIsBacked /\ ScheduledInOrder /\ ComingInOrder
  /\ OneAwaited

-----------------------------------------------------------------------------
(***************************************************************************)
(* What the operators do.                                                  *)
(***************************************************************************)
\* What is read is one of the three files, or nothing.
LEMMA ReadableType ==
  ASSUME NEW f \in Files
  PROVE  /\ readable(f) \in Nat
         /\ readable(f) # Absent => readable(f) \in {f.s, f.zero, f.one}
         /\ \A v \in Nat : UpTo(f, v) => readable(f) <= v
         /\ f.s \notin {Absent, Torn} => readable(f) = f.s
BY DEF readable, toTry, Files, Absent, Torn, UpTo

\* Removing what was not read leaves what was read.
LEMMA AfterReadFile ==
  ASSUME NEW f \in Files
  PROVE  /\ afterReadFile(f) \in Files
         /\ readable(afterReadFile(f)) = readable(f)
         /\ afterReadFile(f).s = f.s
         /\ afterReadFile(f).newer = f.newer
         /\ afterReadFile(f).zero \in {f.zero, Absent}
         /\ afterReadFile(f).one \in {f.one, Absent}
         /\ \A v \in Nat : UpTo(f, v) => UpTo(afterReadFile(f), v)
<1> DEFINE g == afterReadFile(f)
<1>1. CASE Len(toTry(f)) < 2 \/ readable(f) = Absent
  BY <1>1 DEF afterReadFile
<1>2. CASE ~(Len(toTry(f)) < 2 \/ readable(f) = Absent)
  <2>1. /\ f.s = Absent /\ f.zero # Absent /\ f.one # Absent
        /\ readable(f) \in {f.zero, f.one} /\ readable(f) \notin {Absent, Torn}
    BY <1>2 DEF readable, toTry
  <2>2. g = IF readable(f) = f.zero THEN [f EXCEPT !.one = Absent]
                                    ELSE [f EXCEPT !.zero = Absent]
    BY <1>2 DEF afterReadFile
  <2>3. \/ /\ readable(f) = f.zero /\ g.zero = f.zero /\ g.one = Absent
        \/ /\ readable(f) = f.one /\ g.one = f.one /\ g.zero = Absent
    BY <2>1, <2>2 DEF Files, Absent
  <2>4. g \in Files /\ g.s = f.s /\ g.newer = f.newer
    BY <2>2 DEF Files, Absent
  <2> HIDE DEF g
  <2>5. readable(g) = readable(f)
    BY <2>1, <2>3, <2>4 DEF readable, toTry, Absent
  <2>6. \A v \in Nat : UpTo(f, v) => UpTo(g, v)
    BY <2>1, <2>3, <2>4 DEF UpTo, Absent
  <2> QED
    BY <2>3, <2>4, <2>5, <2>6 DEF g
<1> QED
  BY <1>1, <1>2

\* What an older version left is a file, of which the newest is read.
LEMMA OldFilesType ==
  ASSUME NEW k \in Old
  PROVE  /\ OldFiles(k) \in Files
         /\ UpTo(OldFiles(k), readable(OldFiles(k)))
         /\ OldFiles(k).s = Absent
<1>1. k \in {"none", "zero", "one", "newer0", "newer1", "torn0", "torn1"}
  BY OldAssumption
<1>2. \E zero, one \in Nat \cup {Torn}, newer \in {"zero", "one"} :
        /\ OldFiles(k) = Legacy(zero, one, newer)
        /\ \/ zero = Torn \/ one = Torn
           \/ zero >= one /\ newer = "zero"
           \/ one >= zero /\ newer = "one"
           \/ zero = Absent
  BY <1>1 DEF OldFiles, Absent, Torn
<1> HIDE DEF OldFiles
<1> QED
  BY <1>2 DEF Legacy, Files, Absent, Torn, UpTo, readable, toTry

\* Where a task was, once the first one is done and others are posted.
LEMMA TaskDoneInbox ==
  ASSUME NEW q \in Seq(Task), q # <<>>, NEW p \in {<<>>, scheduleWrite}
  PROVE  LET r == Tail(q) \o p IN
         /\ r \in Seq(Task)
         /\ \A i \in DOMAIN r :
              \/ i + 1 \in DOMAIN q /\ r[i] = q[i + 1]
              \/ r[i] = [do |-> "writeScheduled"]
         /\ \A i \in DOMAIN q : i > 1 => i - 1 \in DOMAIN r /\ r[i - 1] = q[i]
<1> DEFINE t == [do |-> "writeScheduled"]
<1>1. t \in Task
  BY DEF Task
<1> HIDE DEF t
<1>2. CASE p = <<>>
  BY <1>2
<1>3. CASE p = <<t>>
  <2> DEFINE u == Tail(q)
             r == u \o p
  <2>1. /\ u \in Seq(Task) /\ Len(u) = Len(q) - 1
        /\ \A i \in DOMAIN u : i + 1 \in DOMAIN q /\ u[i] = q[i + 1]
    OBVIOUS
  <2> HIDE DEF u
  <2>2. /\ r \in Seq(Task) /\ Len(r) = Len(q)
        /\ \A i \in DOMAIN u : r[i] = u[i]
        /\ r[Len(q)] = t
    BY <1>1, <1>3, <2>1
  <2> HIDE DEF r
  <2>3. \A i \in DOMAIN r :
          (i + 1 \in DOMAIN q /\ r[i] = q[i + 1]) \/ r[i] = t
    BY <2>1, <2>2
  <2>4. ASSUME NEW i \in DOMAIN q, i > 1
        PROVE  i - 1 \in DOMAIN r /\ r[i - 1] = q[i]
    <3>1. i - 1 \in DOMAIN u /\ (i - 1) + 1 = i
      BY <2>1, <2>4
    <3> QED
      BY <2>1, <2>2, <3>1
  <2> QED
    BY <2>2, <2>3, <2>4 DEF r, u, t
<1> QED
  BY <1>2, <1>3 DEF scheduleWrite, t

\* One entry is taken out of what is scheduled, the others keep their order.
LEMMA RemoveAtType ==
  ASSUME NEW S, NEW q \in Seq(S), NEW k \in DOMAIN q
  PROVE  LET r == RemoveAt(q, k) IN
         /\ r \in Seq(S)
         /\ \A i \in DOMAIN r :
              IF i < k THEN i \in DOMAIN q /\ r[i] = q[i]
                       ELSE i + 1 \in DOMAIN q /\ r[i] = q[i + 1]
         /\ \A i \in DOMAIN q \ {k} :
              IF i < k THEN i \in DOMAIN r /\ r[i] = q[i]
                       ELSE i - 1 \in DOMAIN r /\ r[i - 1] = q[i]
<1> DEFINE a == SubSeq(q, 1, k - 1)
           b == SubSeq(q, k + 1, Len(q))
<1>1. /\ a \in Seq(S) /\ Len(a) = k - 1
      /\ \A i \in 1 .. k - 1 : a[i] = q[i]
  OBVIOUS
<1>2. /\ b \in Seq(S) /\ Len(b) = Len(q) - k
      /\ \A i \in 1 .. Len(q) - k : b[i] = q[i + k]
  OBVIOUS
<1>3. RemoveAt(q, k) = a \o b
  BY DEF RemoveAt
<1> HIDE DEF a, b
<1> DEFINE r == a \o b
<1>4. r \in Seq(S) /\ Len(r) = Len(q) - 1
  BY <1>1, <1>2
<1>5. \A i \in DOMAIN r :
        IF i < k THEN i \in DOMAIN q /\ r[i] = q[i]
                 ELSE i + 1 \in DOMAIN q /\ r[i] = q[i + 1]
  <2> TAKE i \in DOMAIN r
  <2>1. CASE i < k
    BY <1>1, <1>2, <2>1
  <2>2. CASE ~(i < k)
    <3>1. i \in Nat /\ i <= Len(q) - 1 /\ i - Len(a) \in 1 .. Len(b)
      BY <1>1, <1>2, <1>4, <2>2
    <3>2. r[i] = b[i - Len(a)]
      BY <1>1, <1>2, <2>2
    <3>3. i - Len(a) + k = i + 1
      BY <1>1, <3>1
    <3> QED
      BY <1>2, <2>2, <3>1, <3>2, <3>3
  <2> QED
    BY <2>1, <2>2
<1> HIDE DEF r
<1>6. \A i \in DOMAIN q \ {k} :
        IF i < k THEN i \in DOMAIN r /\ r[i] = q[i]
                 ELSE i - 1 \in DOMAIN r /\ r[i - 1] = q[i]
  BY <1>4, <1>5
<1>7. RemoveAt(q, k) = r
  BY <1>3 DEF r
<1> QED
  BY <1>4, <1>5, <1>6, <1>7

\* At most one entry goes from what is scheduled, that of b (writeSync).
LEMMA UnscheduledType ==
  ASSUME NEW b \in Bases, scheduled \in Seq(Entry),
         \A i, j \in DOMAIN scheduled :
           scheduled[i].base = scheduled[j].base => i = j
  PROVE  LET r == unscheduled(b) IN
         /\ r \in Seq(Entry)
         /\ \A i \in DOMAIN r : r[i].base # b
         /\ \A i, j \in DOMAIN r : r[i].base = r[j].base => i = j
         /\ \A i \in DOMAIN r : \E k \in DOMAIN scheduled : r[i] = scheduled[k]
         /\ \A i \in DOMAIN scheduled :
              scheduled[i].base # b => \E k \in DOMAIN r : r[k] = scheduled[i]
<1>1. CASE Scheduled(b) = {}
  BY <1>1 DEF unscheduled, Scheduled
<1>2. CASE Scheduled(b) # {}
  <2> DEFINE k == CHOOSE i \in Scheduled(b) : TRUE
             r == RemoveAt(scheduled, k)
  <2>1. k \in DOMAIN scheduled /\ scheduled[k].base = b
    BY <1>2 DEF Scheduled
  <2>2. unscheduled(b) = r
    BY <1>2 DEF unscheduled
  <2> HIDE DEF k
  <2>3. /\ r \in Seq(Entry)
        /\ \A i \in DOMAIN r :
             IF i < k THEN i \in DOMAIN scheduled /\ r[i] = scheduled[i]
             ELSE i + 1 \in DOMAIN scheduled /\ r[i] = scheduled[i + 1]
        /\ \A i \in DOMAIN scheduled \ {k} :
             IF i < k THEN i \in DOMAIN r /\ r[i] = scheduled[i]
             ELSE i - 1 \in DOMAIN r /\ r[i - 1] = scheduled[i]
    BY <2>1, RemoveAtType
  <2> HIDE DEF r
  <2>4. \A i \in DOMAIN r :
          \E j \in DOMAIN scheduled : j # k /\ r[i] = scheduled[j]
    BY <2>1, <2>3
  <2>5. \A i, j \in DOMAIN r : r[i].base = r[j].base => i = j
    <3> DEFINE at(i) == IF i < k THEN i ELSE i + 1
    <3>1. \A i \in DOMAIN r : at(i) \in DOMAIN scheduled /\ r[i] = scheduled[at(i)]
      BY <2>3
    <3>2. \A i, j \in DOMAIN r : at(i) = at(j) => i = j
      BY <2>1, <2>3
    <3> HIDE DEF at
    <3> QED
      BY <3>1, <3>2
  <2>6. \A i \in DOMAIN scheduled :
          scheduled[i].base # b => \E j \in DOMAIN r : r[j] = scheduled[i]
    BY <2>1, <2>3
  <2> QED
    BY <2>1, <2>2, <2>3, <2>4, <2>5, <2>6
<1> QED
  BY <1>1, <1>2

-----------------------------------------------------------------------------
(***************************************************************************)
(* The order of what is written.                                           *)
(***************************************************************************)
LEMMA InitInOrder == Init => TypeOK /\ InOrder
<1> SUFFICES ASSUME Init PROVE TypeOK /\ InOrder
  OBVIOUS
<1>1. PICK old \in [Bases -> Old] :
        files = [b \in Bases |-> OldFiles(old[b])]
  BY DEF Init
<1>2. \A b \in Bases : files[b] \in Files /\ UpTo(files[b], readable(files[b]))
  BY <1>1, OldFilesType
<1>3. version \in [Bases -> Nat] /\ DiskIsAsked
  BY <1>2, ReadableType DEF Init, DiskIsAsked
<1>4. TypeOK
  BY <1>1, <1>2, <1>3, BoundsAssumption DEF Init, TypeOK, Idle, Awaited, MainStates
<1>5. InOrder
  BY <1>3 DEF Init, InOrder, JobIsBacked, ScheduledInOrder, ComingInOrder,
    OneAwaited, Writing, Coming
<1> QED
  BY <1>4, <1>5

\* What TypeOK says of the parts of the queues.
LEMMA Types ==
  ASSUME TypeOK
  PROVE  /\ Writing => job.at \in Steps /\ job.entry \in Entry
         /\ \A i \in DOMAIN scheduled : scheduled[i] \in Entry
         /\ \A i \in DOMAIN inbox :
              inbox[i].do \in {"write", "writeSync"} => inbox[i].entry \in Entry
         /\ \A i \in Coming : i \in DOMAIN inbox /\ inbox[i].entry \in Entry
         /\ \A b \in Bases : files[b] \in Files /\ version[b] \in Nat
         /\ DOMAIN inbox = 1 .. Len(inbox) /\ Len(inbox) \in Nat
<1>1. \A t \in Task : t.do \in {"write", "writeSync"} => t.entry \in Entry
  BY DEF Task
<1>2. \A i \in DOMAIN inbox : inbox[i] \in Task
  BY DEF TypeOK
<1>3. Writing => job.at \in Steps /\ job.entry \in Entry
  BY DEF TypeOK, Writing
<1>4. \A i \in Coming : i \in DOMAIN inbox /\ inbox[i].entry \in Entry
  BY <1>1, <1>2 DEF Coming
<1>5. \A i \in DOMAIN scheduled : scheduled[i] \in Entry
  BY DEF TypeOK
<1>6. \A b \in Bases : files[b] \in Files /\ version[b] \in Nat
  BY DEF TypeOK
<1>7. DOMAIN inbox = 1 .. Len(inbox) /\ Len(inbox) \in Nat
  BY DEF TypeOK
<1> QED
  BY <1>1, <1>2, <1>3, <1>4, <1>5, <1>6, <1>7

\* The parts of an entry.
LEMMA EntryType ==
  ASSUME NEW e \in Entry
  PROVE  e.base \in Bases /\ e.v \in Nat
BY DEF Entry

\* What is ahead stays so while the disk changes behind it.
LEMMA AheadStays ==
  ASSUME NEW e, NEW f, NEW j, NEW v \in Nat, NEW f1, NEW j1, NEW v1 \in Nat,
         e.v \in Nat, Ahead(e, f, j, v), v <= v1, UpTo(f1, e.v - 1),
         j1 # Idle /\ j1.entry.base = e.base => j1.entry.v < e.v
  PROVE  Ahead(e, f1, j1, v1)
BY DEF Ahead

\* A bound on the files may be raised.
LEMMA UpToMore ==
  ASSUME NEW f \in Files, NEW v \in Int, NEW w \in Int, v <= w, UpTo(f, v)
  PROVE  UpTo(f, w)
BY DEF UpTo, Files, Torn

\* A version is asked for that is newer than all there are.
LEMMA AskingInOrder ==
  ASSUME TypeOK, InOrder, NEW b \in Bases, Asks(b),
         NEW d \in {"write", "writeSync"},
         inbox' = Append(inbox, [do |-> d, entry |-> EntryOf(b)]),
         UNCHANGED <<files, scheduled, job>>
  PROVE  InOrder' /\ inbox' \in Seq(Task) /\ version' \in [Bases -> Nat]
<1> DEFINE e == EntryOf(b)
           t == [do |-> d, entry |-> e]
           n == Len(inbox) + 1
<1>1. /\ version' \in [Bases -> Nat]
      /\ version'[b] = version[b] + 1
      /\ \A c \in Bases : version[c] <= version'[c]
      /\ e.base = b /\ e.v = version[b] + 1 /\ e \in Entry
  BY DEF Asks, TypeOK, EntryOf, Entry
<1> HIDE DEF e
<1>2. t \in Task /\ t.do = d /\ t.entry = e
  BY <1>1 DEF Task
<1> HIDE DEF t
<1>3. /\ inbox' \in Seq(Task) /\ DOMAIN inbox' = 1 .. n
      /\ inbox'[n] = t /\ \A i \in DOMAIN inbox : inbox'[i] = inbox[i]
      /\ DOMAIN inbox = 1 .. n - 1 /\ n \in Nat \ {0}
  BY <1>2 DEF TypeOK, t, e
<1> HIDE DEF n
<1>4. \A i \in DOMAIN inbox : inbox[i].do \notin Awaited
  BY DEF TypeOK, Asks, Idle
<1>5. DiskIsAsked'
  BY <1>1, Types, UpToMore DEF InOrder, DiskIsAsked
<1>6. JobIsBacked'
  <2>1. CASE ~Writing
    BY <2>1 DEF JobIsBacked, Writing
  <2>2. CASE Writing
    <3>1. inbox # <<>> /\ 1 \in DOMAIN inbox /\ inbox'[1] = inbox[1]
      BY <1>3, <2>2 DEF InOrder, JobIsBacked
    <3>2. inbox' # <<>>
      BY <1>3
    <3>3. job.entry.v <= version'[job.entry.base]
      BY <1>1, <2>2, Types, EntryType DEF InOrder, JobIsBacked
    <3> QED
      BY <2>2, <3>1, <3>2, <3>3 DEF InOrder, JobIsBacked, Writing
  <2> QED
    BY <2>1, <2>2
<1>7. ASSUME NEW x \in Entry, Ahead(x, files[x.base], job, version[x.base])
      PROVE  Ahead(x, files'[x.base], job', version'[x.base])
  BY <1>1, <1>7, Types, EntryType, AheadStays DEF Ahead
<1>8. ScheduledInOrder'
  BY <1>7, Types DEF InOrder, ScheduledInOrder, Newer
<1>9. /\ Ahead(e, files'[e.base], job', version'[e.base])
      /\ \A k \in DOMAIN scheduled :
           scheduled[k].base = b => scheduled[k].v < e.v
      /\ \A j \in Coming : inbox[j].entry.base = b => inbox[j].entry.v < e.v
  <2>1. UpTo(files[b], version[b]) /\ version[b] + 1 - 1 = version[b]
    BY Types DEF InOrder, DiskIsAsked
  <2>2. Writing /\ job.entry.base = b => job.entry.v < e.v
    BY <1>1, Types, EntryType DEF InOrder, JobIsBacked
  <2>3. \A x \in Entry : x.base = b /\ Newer(x) => x.v < e.v
    BY <1>1, Types, EntryType DEF Newer, Ahead
  <2> QED
    BY <1>1, <2>1, <2>2, <2>3, Types
    DEF Ahead, Writing, InOrder, ScheduledInOrder, ComingInOrder
<1>10. ComingInOrder'
  <2>1. \A i \in Coming' : i # n => i \in Coming /\ inbox'[i] = inbox[i]
    BY <1>3 DEF Coming, Writing
  <2>2. \A j \in Coming' : j <= n /\ j \in Nat
    BY <1>3 DEF Coming
  <2> SUFFICES ASSUME NEW i \in Coming'
      PROVE LET x == inbox'[i].entry IN
            /\ Ahead(x, files'[x.base], job', version'[x.base])
            /\ \A k \in DOMAIN scheduled :
                 scheduled[k].base = x.base => scheduled[k].v < x.v
            /\ \A j \in Coming' :
                 j < i /\ inbox'[j].entry.base = x.base => inbox'[j].entry.v < x.v
    BY DEF ComingInOrder, Newer
  <2>3. CASE i = n
    <3>1. ASSUME NEW j \in Coming', j < i
          PROVE  j \in Coming /\ inbox'[j] = inbox[j]
      <4>1. j \in Nat /\ i \in Nat /\ i <= n /\ n \in Nat
        BY <1>3, <2>2
      <4>2. j # n
        BY <3>1, <4>1
      <4> QED
        BY <2>1, <4>2
    <3> QED
      BY <1>1, <1>2, <1>3, <1>9, <2>3, <3>1
  <2>4. CASE i # n
    <3>1. ASSUME NEW j \in Coming', j < i
          PROVE  j \in Coming /\ inbox'[j] = inbox[j]
      <4>1. j \in Nat /\ i \in Nat /\ i <= n /\ n \in Nat
        BY <1>3, <2>2
      <4>2. j # n
        BY <3>1, <4>1
      <4> QED
        BY <2>1, <4>2
    <3>2. i \in Coming /\ inbox'[i] = inbox[i]
      BY <2>1, <2>4
    <3> QED
      BY <1>7, <3>1, <3>2, Types DEF InOrder, ComingInOrder, Newer
  <2> QED
    BY <2>3, <2>4
<1>11. OneAwaited'
  BY <1>3, <1>4 DEF OneAwaited
<1> QED
  BY <1>1, <1>3, <1>5, <1>6, <1>8, <1>10, <1>11 DEF InOrder

\* The parts of what the main thread is in the middle of.
LEMMA MainType ==
  ASSUME NEW m \in MainStates
  PROVE  /\ m.at = "waiting" => m.then \in {"idle", "finished"} /\ m # Idle
                                /\ m.bases \subseteq Bases
         /\ m.at = "clearing" => m.base \in Bases /\ m # Idle
         /\ m = Idle => m.at = "idle"
BY DEF MainStates, Idle

\* The first task is done: who waited for it goes on.
LEMMA TaskDoneType ==
  ASSUME TypeOK, OneAwaited, inbox # <<>>, NEW p \in {<<>>, scheduleWrite},
         TaskDone(p)
  PROVE  /\ inbox' \in Seq(Task) /\ main' \in MainStates
         /\ main'.at = "waiting" <=>
              \E i \in DOMAIN inbox' : inbox'[i].do \in Awaited
         /\ OneAwaited'
         /\ \A i \in DOMAIN inbox' :
              \/ i + 1 \in DOMAIN inbox /\ inbox'[i] = inbox[i + 1] /\ i + 1 > 1
              \/ inbox'[i].do = "writeScheduled"
<1>1. /\ inbox' \in Seq(Task)
      /\ \A i \in DOMAIN inbox' :
           \/ i + 1 \in DOMAIN inbox /\ inbox'[i] = inbox[i + 1]
           \/ inbox'[i] = [do |-> "writeScheduled"]
      /\ \A i \in DOMAIN inbox :
           i > 1 => i - 1 \in DOMAIN inbox' /\ inbox'[i - 1] = inbox[i]
  <2>1. inbox \in Seq(Task) /\ inbox' = Tail(inbox) \o p
    BY DEF TypeOK, TaskDone
  <2> QED
    BY <2>1, TaskDoneInbox, Zenon
<1>2. /\ \A i \in DOMAIN inbox' : i \in Nat /\ i > 0
      /\ 1 \in DOMAIN inbox /\ Head(inbox) = inbox[1]
      /\ \A i \in DOMAIN inbox : i \in Nat /\ i > 0
  BY <1>1 DEF TypeOK
<1>3. \A i \in DOMAIN inbox' :
        \/ i + 1 \in DOMAIN inbox /\ inbox'[i] = inbox[i + 1] /\ i + 1 > 1
        \/ inbox'[i].do = "writeScheduled"
  BY <1>1, <1>2
<1>4. \A i \in DOMAIN inbox' : inbox'[i].do \in Awaited =>
        i + 1 \in DOMAIN inbox /\ inbox'[i] = inbox[i + 1] /\ i + 1 > 1
  BY <1>3 DEF Awaited
<1>5. OneAwaited'
  <2> SUFFICES ASSUME NEW i \in DOMAIN inbox', NEW j \in DOMAIN inbox',
                      inbox'[i].do \in Awaited, inbox'[j].do \in Awaited
               PROVE  i = j
    BY DEF OneAwaited
  <2>1. i + 1 = j + 1
    BY <1>4 DEF OneAwaited
  <2> QED
    BY <1>2, <2>1
<1>6. CASE inbox[1].do \in Awaited
  <2>1. main.at = "waiting"
    BY <1>2, <1>6 DEF TypeOK
  <2>2. main' = [at |-> main.then] /\ main.then \in {"idle", "finished"}
    BY <1>2, <1>6, <2>1, MainType DEF TaskDone, woken, TypeOK
  <2>3. main' \in MainStates /\ main'.at # "waiting"
    BY <2>2 DEF MainStates
  <2>4. \A i \in DOMAIN inbox' : inbox'[i].do \notin Awaited
    BY <1>2, <1>4, <1>6 DEF OneAwaited
  <2> QED
    BY <1>1, <1>3, <1>5, <2>3, <2>4
<1>7. CASE inbox[1].do \notin Awaited
  <2>1. main' = main /\ main \in MainStates
    BY <1>2, <1>7 DEF TaskDone, woken, TypeOK
  <2>2. ASSUME NEW i \in DOMAIN inbox, inbox[i].do \in Awaited
        PROVE  \E k \in DOMAIN inbox' : inbox'[k].do \in Awaited
    <3>1. i > 1
      BY <1>2, <1>7, <2>2
    <3> QED
      BY <1>1, <2>2, <3>1
  <2>3. (\E i \in DOMAIN inbox : inbox[i].do \in Awaited) <=>
          \E i \in DOMAIN inbox' : inbox'[i].do \in Awaited
    BY <1>4, <2>2
  <2> QED
    BY <1>1, <1>3, <1>5, <2>1, <2>3 DEF TypeOK
<1> QED
  BY <1>6, <1>7

\* The tasks behind the first keep their order when it is done.
LEMMA TaskDoneInOrder ==
  ASSUME TypeOK, InOrder, inbox # <<>>, NEW p \in {<<>>, scheduleWrite},
         TaskDone(p), job' = Idle, version' = version,
         \A i \in Coming : i > 1 =>
           LET x == inbox[i].entry IN
           /\ Ahead(x, files'[x.base], job', version'[x.base])
           /\ \A k \in DOMAIN scheduled' :
                scheduled'[k].base = x.base => scheduled'[k].v < x.v
  PROVE  ComingInOrder'
<1>1. /\ inbox' \in Seq(Task)
      /\ \A i \in DOMAIN inbox' :
           \/ i + 1 \in DOMAIN inbox /\ inbox'[i] = inbox[i + 1] /\ i + 1 > 1
           \/ inbox'[i].do = "writeScheduled"
  BY TaskDoneType DEF InOrder
<1>2. \A i \in Coming' : /\ i + 1 \in Coming /\ i + 1 > 1 /\ i \in Nat
                         /\ inbox'[i] = inbox[i + 1]
  BY <1>1 DEF Coming
<1> SUFFICES ASSUME NEW i \in Coming'
    PROVE LET x == inbox'[i].entry IN
          /\ Ahead(x, files'[x.base], job', version'[x.base])
          /\ \A k \in DOMAIN scheduled' :
               scheduled'[k].base = x.base => scheduled'[k].v < x.v
          /\ \A j \in Coming' :
               j < i /\ inbox'[j].entry.base = x.base => inbox'[j].entry.v < x.v
  BY DEF ComingInOrder, Newer
<1>3. ASSUME NEW j \in Coming', j < i, inbox'[j].entry.base = inbox'[i].entry.base
      PROVE  inbox'[j].entry.v < inbox'[i].entry.v
  <2>1. j + 1 < i + 1
    BY <1>2, <1>3
  <2> QED
    BY <1>2, <1>3, <2>1 DEF InOrder, ComingInOrder
<1> QED
  BY <1>2, <1>3

\* The disk changes behind what is written; the entries stay ahead of it.
LEMMA FilesBehind ==
  ASSUME TypeOK, InOrder, version' = version, files' \in [Bases -> Files],
         job' # Idle => Writing /\ job'.entry = job.entry,
         \A b \in Bases, v \in Nat :
           /\ UpTo(files[b], v)
           /\ Writing /\ job.entry.base = b => job.entry.v <= v
           => UpTo(files'[b], v)
  PROVE  /\ DiskIsAsked'
         /\ \A x \in Entry : Newer(x) =>
              Ahead(x, files'[x.base], job', version'[x.base])
         /\ Writing => UpTo(files'[job.entry.base], job.entry.v)
<1>1. DiskIsAsked'
  BY Types, EntryType DEF InOrder, DiskIsAsked, JobIsBacked
<1>2. ASSUME NEW x \in Entry, Newer(x)
      PROVE  Ahead(x, files'[x.base], job', version'[x.base])
  <2>1. x.v - 1 \in Nat /\ UpTo(files[x.base], x.v - 1) /\ x.base \in Bases
    BY <1>2, EntryType DEF Newer, Ahead
  <2>2. Writing /\ job.entry.base = x.base => job.entry.v <= x.v - 1
    BY <1>2, EntryType, Types DEF Newer, Ahead, Writing
  <2>3. UpTo(files'[x.base], x.v - 1)
    BY <2>1, <2>2
  <2> QED
    BY <1>2, <2>3, EntryType, Types, AheadStays DEF Newer, Ahead, Writing
<1>3. CASE Writing
  <2> DEFINE e == job.entry
  <2>1. e \in Entry /\ e.base \in Bases /\ e.v \in Nat /\ files[e.base] \in Files
    BY <1>3, Types, EntryType
  <2>2. UpTo(files[e.base], e.v)
    BY <1>3, <2>1, UpToMore DEF InOrder, JobIsBacked
  <2> QED
    BY <1>1, <1>2, <2>1, <2>2
<1> QED
  BY <1>1, <1>2, <1>3

\* Opening '0' and renaming it bring nothing newer.
LEMMA OpenedAndRenamed ==
  ASSUME NEW g \in Files
  PROVE  /\ [g EXCEPT !.zero = Torn, !.newer = "zero"] \in Files
         /\ [g EXCEPT !.s = g.zero, !.zero = Absent] \in Files
         /\ \A v \in Nat : UpTo(g, v) =>
              /\ UpTo([g EXCEPT !.zero = Torn, !.newer = "zero"], v)
              /\ UpTo([g EXCEPT !.s = g.zero, !.zero = Absent], v)
<1>1. [g EXCEPT !.zero = Torn, !.newer = "zero"] \in Files
  BY DEF Files
<1>2. [g EXCEPT !.s = g.zero, !.zero = Absent] \in Files
  BY DEF Files, Absent
<1>3. ASSUME NEW v \in Nat, UpTo(g, v)
      PROVE  /\ UpTo([g EXCEPT !.zero = Torn, !.newer = "zero"], v)
             /\ UpTo([g EXCEPT !.s = g.zero, !.zero = Absent], v)
  BY <1>3 DEF UpTo, Files, Absent, Torn
<1> QED
  BY <1>1, <1>2, <1>3

\* Putting the files of the entry leaves the others, and its bounds.
LEMMA PutsBehind ==
  ASSUME TypeOK, Writing, NEW f \in Files, Puts(f),
         \A v \in Nat : UpTo(here, v) /\ job.entry.v <= v => UpTo(f, v)
  PROVE  /\ files' \in [Bases -> Files] /\ files'[job.entry.base] = f
         /\ \A b \in Bases : b # job.entry.base => files'[b] = files[b]
         /\ \A b \in Bases, v \in Nat :
              UpTo(files[b], v) /\ (job.entry.base = b => job.entry.v <= v)
                => UpTo(files'[b], v)
BY Types, EntryType DEF TypeOK, Puts, here

\* The count of failures keeps its bound.
LEMMA FailuresType ==
  ASSUME TypeOK, Works \/ \E what \in {"save", "open", "short", "rename"} : Fails(what)
  PROVE  failures' \in 0 .. MaxFailures
BY BoundsAssumption DEF TypeOK, Works, Fails

\* What is counted as stored keeps its type.
LEMMA StoredType ==
  ASSUME TypeOK, Writing, Completes \/ stored' = stored
  PROVE  stored' \in [Bases -> Nat]
BY Types, EntryType DEF TypeOK, Completes

\* An operation on the disk, and what follows it.
LEMMA WriteNowStep ==
  ASSUME TypeOK, writeNow
  PROVE  /\ Writing
         /\ files' \in [Bases -> Files]
         /\ \A b \in Bases, v \in Nat :
              UpTo(files[b], v) /\ (job.entry.base = b => job.entry.v <= v)
                => UpTo(files'[b], v)
         /\ \A b \in Bases : b # job.entry.base => files'[b] = files[b]
         /\ stored' \in [Bases -> Nat] /\ failures' \in 0 .. MaxFailures
         /\ Returns \/ \E step \in Steps \ {"save"} : Continues(step)
<1>1. Writing
  BY DEF writeNow, Save, RemoveSimple, RemoveBackup, Open, Fill, DropBackup,
    Rename, DropSafe, Doing, Writing
<1>2. /\ job.entry \in Entry /\ job.entry.base \in Bases /\ job.entry.v \in Nat
      /\ here \in Files
  BY <1>1, Types, EntryType DEF here
<1>3. /\ files' = files \/ \E f \in Files :
           /\ Puts(f)
           /\ \A v \in Nat : UpTo(here, v) /\ job.entry.v <= v => UpTo(f, v)
      /\ Completes \/ stored' = stored
      /\ Works \/ \E what \in {"save", "open", "short", "rename"} : Fails(what)
      /\ Returns \/ \E step \in Steps \ {"save"} : Continues(step)
  <2>1. CASE Save
    <3>1. CASE UNCHANGED files
      BY <2>1, <3>1 DEF Save, Steps
    <3>2. CASE Puts([here EXCEPT !.s = job.entry.v])
      BY <1>2, <2>1, <3>2 DEF Save, Steps, Files, UpTo
    <3> QED
      BY <2>1, <3>1, <3>2 DEF Save
  <2>2. CASE RemoveSimple
    BY <1>2, <2>2 DEF RemoveSimple, Steps, Files, UpTo, Absent
  <2>3. CASE RemoveBackup
    BY <1>2, <2>3 DEF RemoveBackup, Steps, Files, UpTo, Absent
  <2>4. CASE Open
    <3> DEFINE f == [here EXCEPT !.zero = Torn, !.newer = "zero"]
    <3>1. f \in Files /\ \A v \in Nat : UpTo(here, v) => UpTo(f, v)
      BY <1>2, OpenedAndRenamed
    <3>2. Puts(f) \/ files' = files
      BY <2>4 DEF Open
    <3> HIDE DEF f
    <3> QED
      BY <2>4, <3>1, <3>2 DEF Open, Steps
  <2>5. CASE Fill
    BY <1>2, <2>5 DEF Fill, Steps, Files, UpTo
  <2>6. CASE DropBackup
    BY <1>2, <2>6 DEF DropBackup, Steps, Files, UpTo, Absent
  <2>7. CASE Rename
    <3> DEFINE f == [here EXCEPT !.s = here.zero, !.zero = Absent]
    <3>1. f \in Files /\ \A v \in Nat : UpTo(here, v) => UpTo(f, v)
      BY <1>2, OpenedAndRenamed
    <3>2. Puts(f) \/ files' = files
      BY <2>7 DEF Rename
    <3> HIDE DEF f
    <3> QED
      BY <2>7, <3>1, <3>2 DEF Rename, Steps
  <2>8. CASE DropSafe
    BY <1>2, <2>8 DEF DropSafe, Steps, Files, UpTo, Absent
  <2> QED
    BY <2>1, <2>2, <2>3, <2>4, <2>5, <2>6, <2>7, <2>8 DEF writeNow
<1>4. /\ files' \in [Bases -> Files]
      /\ \A b \in Bases, v \in Nat :
           UpTo(files[b], v) /\ (job.entry.base = b => job.entry.v <= v)
             => UpTo(files'[b], v)
      /\ \A b \in Bases : b # job.entry.base => files'[b] = files[b]
  BY <1>1, <1>3, PutsBehind DEF TypeOK
<1> QED
  BY <1>1, <1>3, <1>4, FailuresType, StoredType

\* Each operation of writeNow keeps the order.
LEMMA WriteNowInOrder ==
  ASSUME TypeOK, InOrder, writeNow
  PROVE  TypeOK' /\ InOrder'
<1>1. /\ Writing /\ files' \in [Bases -> Files]
      /\ \A b \in Bases, v \in Nat :
           UpTo(files[b], v) /\ (job.entry.base = b => job.entry.v <= v)
             => UpTo(files'[b], v)
      /\ stored' \in [Bases -> Nat] /\ failures' \in 0 .. MaxFailures
      /\ Returns \/ \E step \in Steps \ {"save"} : Continues(step)
  BY WriteNowStep
<1>2. /\ job.at \in Steps /\ job.entry \in Entry /\ job \in [at : Steps, entry : Entry]
      /\ version' = version /\ scheduled' = scheduled
  BY <1>1, Types DEF TypeOK, Writing, Returns, Continues
<1>3. /\ inbox # <<>> /\ inbox[1] = Head(inbox) /\ inbox[1].do # "write"
      /\ 1 \in DOMAIN inbox
  BY <1>1 DEF InOrder, JobIsBacked, TypeOK
<1>4. CASE \E step \in Steps \ {"save"} : Continues(step)
  <2>1. /\ job' \in [at : Steps, entry : Entry] /\ job'.entry = job.entry
        /\ job'.at # "save" /\ job' # Idle
        /\ inbox' = inbox /\ main' = main
    BY <1>2, <1>4 DEF Continues, Goes, Steps, Idle
  <2>2. /\ DiskIsAsked'
        /\ \A x \in Entry : Newer(x) =>
             Ahead(x, files'[x.base], job', version'[x.base])
        /\ UpTo(files'[job.entry.base], job.entry.v)
    BY <1>1, <1>2, <2>1, FilesBehind
  <2>3. TypeOK'
    BY <1>1, <1>2, <2>1 DEF TypeOK
  <2>4. JobIsBacked'
    BY <1>1, <1>2, <2>1, <2>2 DEF InOrder, JobIsBacked, Writing
  <2>5. ScheduledInOrder'
    BY <1>2, <2>2, Types DEF InOrder, ScheduledInOrder, Newer
  <2>6. ComingInOrder'
    <3>1. Coming' = Coming
      BY <1>1, <2>1 DEF Coming, Writing
    <3> QED
      BY <1>2, <2>1, <2>2, <3>1, Types DEF InOrder, ComingInOrder, Newer
  <2>7. OneAwaited'
    BY <2>1 DEF InOrder, OneAwaited
  <2> QED
    BY <2>2, <2>3, <2>4, <2>5, <2>6, <2>7 DEF InOrder
<1>5. CASE Returns
  <2>1. job' = Idle
    BY <1>5 DEF Returns
  <2>2. /\ DiskIsAsked'
        /\ \A x \in Entry : Newer(x) =>
             Ahead(x, files'[x.base], job', version'[x.base])
    BY <1>1, <1>2, <2>1, FilesBehind
  <2>3. JobIsBacked'
    BY <2>1 DEF JobIsBacked, Writing
  <2>4. ScheduledInOrder'
    BY <1>2, <2>2, Types DEF InOrder, ScheduledInOrder, Newer
  <2>5. \A i \in Coming :
          LET x == inbox[i].entry IN
          /\ Ahead(x, files'[x.base], job', version'[x.base])
          /\ \A k \in DOMAIN scheduled' :
               scheduled'[k].base = x.base => scheduled'[k].v < x.v
    BY <1>2, <2>2, Types DEF InOrder, ComingInOrder
  <2>6. CASE inbox[1].do = "writeSyncAll"
    <3>1. inbox' = inbox /\ main' = main
      BY <1>3, <1>5, <2>6 DEF Returns, loops
    <3>2. TypeOK'
      BY <1>1, <1>2, <2>1, <3>1 DEF TypeOK
    <3>3. Coming' = Coming
      BY <1>1, <2>1, <2>6, <3>1 DEF Coming, Writing
    <3>4. ComingInOrder'
      BY <2>5, <3>1, <3>3 DEF InOrder, ComingInOrder, Newer
    <3>5. OneAwaited'
      BY <3>1 DEF InOrder, OneAwaited
    <3> QED
      BY <2>2, <2>3, <2>4, <3>2, <3>4, <3>5 DEF InOrder
  <2>7. CASE inbox[1].do # "writeSyncAll"
    <3>1. \E p \in {<<>>, scheduleWrite} : TaskDone(p)
      BY <1>3, <1>5, <2>7 DEF Returns, loops
    <3>2. /\ inbox' \in Seq(Task) /\ main' \in MainStates
          /\ main'.at = "waiting" <=>
               \E i \in DOMAIN inbox' : inbox'[i].do \in Awaited
          /\ OneAwaited'
      BY <1>3, <3>1, TaskDoneType DEF InOrder
    <3>3. TypeOK'
      BY <1>1, <1>2, <2>1, <3>2 DEF TypeOK
    <3>4. ComingInOrder'
      BY <1>2, <1>3, <2>1, <2>5, <3>1, TaskDoneInOrder
    <3> QED
      BY <2>2, <2>3, <2>4, <3>2, <3>3, <3>4 DEF InOrder
  <2> QED
    BY <2>6, <2>7
<1> QED
  BY <1>1, <1>4, <1>5

\* Files are read or removed; nothing becomes newer.
LEMMA FilesOnly ==
  ASSUME TypeOK, InOrder, files' \in [Bases -> Files],
         \A b \in Bases, v \in Nat : UpTo(files[b], v) => UpTo(files'[b], v),
         UNCHANGED <<inbox, scheduled, job, version>>
  PROVE  InOrder'
<1>1. /\ DiskIsAsked'
      /\ \A x \in Entry : Newer(x) =>
           Ahead(x, files'[x.base], job', version'[x.base])
  BY FilesBehind DEF Writing
<1>2. JobIsBacked'
  <2>1. CASE ~Writing
    BY <2>1 DEF JobIsBacked, Writing
  <2>2. CASE Writing
    <3> DEFINE e == job.entry
               v == IF job.at = "save" THEN e.v - 1 ELSE e.v
    <3>1. e.base \in Bases /\ v \in Nat /\ UpTo(files[e.base], v)
      BY <2>2, Types, EntryType DEF InOrder, JobIsBacked
    <3>2. UpTo(files'[e.base], v)
      BY <3>1
    <3> QED
      BY <2>2, <3>2 DEF InOrder, JobIsBacked, Writing
  <2> QED
    BY <2>1, <2>2
<1>3. ScheduledInOrder'
  BY <1>1, Types DEF InOrder, ScheduledInOrder, Newer
<1>4. Coming' = Coming
  BY DEF Coming, Writing
<1>5. ComingInOrder'
  BY <1>1, <1>4, Types DEF InOrder, ComingInOrder, Newer
<1> QED
  BY <1>1, <1>2, <1>3, <1>5 DEF InOrder, OneAwaited

\* Removing the file that was not read keeps the order.
LEMMA ReadFileInOrder ==
  ASSUME TypeOK, InOrder, NEW b \in Bases, ReadFile(b)
  PROVE  TypeOK' /\ InOrder'
<1>1. /\ files' \in [Bases -> Files]
      /\ \A c \in Bases, v \in Nat : UpTo(files[c], v) => UpTo(files'[c], v)
  BY Types, AfterReadFile DEF ReadFile, TypeOK
<1> QED
  BY <1>1, FilesOnly DEF ReadFile, TypeOK

\* Beginning to clear touches none of the queues.
LEMMA StartClearInOrder ==
  ASSUME TypeOK, InOrder, NEW b \in Bases, StartClear(b)
  PROVE  TypeOK' /\ InOrder'
<1>1. /\ main' \in MainStates /\ main'.at = "clearing" /\ main.at = "idle"
      /\ stored' \in [Bases -> Nat]
  BY DEF StartClear, MainStates, clearOrder, TypeOK, Idle, Absent
<1>2. TypeOK'
  BY <1>1 DEF TypeOK, StartClear
<1> QED
  BY <1>2, FilesOnly DEF StartClear, TypeOK

\* One of the three files of f is removed.
LEMMA RemovedOne ==
  ASSUME NEW f \in Files, NEW name \in {"zero", "one", "s"}
  PROVE  /\ [f EXCEPT ![name] = Absent] \in Files
         /\ \A v \in Nat : UpTo(f, v) => UpTo([f EXCEPT ![name] = Absent], v)
<1>1. CASE name = "zero"
  BY <1>1 DEF Files, UpTo, Absent
<1>2. CASE name = "one"
  BY <1>2 DEF Files, UpTo, Absent
<1>3. CASE name = "s"
  BY <1>3 DEF Files, UpTo, Absent
<1> QED
  BY <1>1, <1>2, <1>3

\* Which file is cleared, and what the main thread does next.
LEMMA ClearOneType ==
  ASSUME TypeOK, ClearOne
  PROVE  /\ main.base \in Bases /\ main.left # <<>>
         /\ Head(main.left) \in {"zero", "one", "s"}
         /\ main' \in MainStates /\ main'.at \in {"idle", "clearing"}
         /\ files' = [files EXCEPT ![main.base] =
                        [files[main.base] EXCEPT ![Head(main.left)] = Absent]]
<1>1. main \in [at : {"clearing"}, base : Bases,
                left : {<<"zero", "one", "s">>, <<"one", "s">>, <<"s">>}]
  BY DEF TypeOK, ClearOne, MainStates
<1>2. CASE main.left = <<"zero", "one", "s">>
  BY <1>1, <1>2 DEF ClearOne, MainStates, Idle
<1>3. CASE main.left = <<"one", "s">>
  BY <1>1, <1>3 DEF ClearOne, MainStates, Idle
<1>4. CASE main.left = <<"s">>
  BY <1>1, <1>4 DEF ClearOne, MainStates, Idle
<1> QED
  BY <1>1, <1>2, <1>3, <1>4

\* A file less on disk keeps the order.
LEMMA ClearOneInOrder ==
  ASSUME TypeOK, InOrder, ClearOne
  PROVE  TypeOK' /\ InOrder'
<1>1. /\ files' \in [Bases -> Files]
      /\ \A b \in Bases, v \in Nat : UpTo(files[b], v) => UpTo(files'[b], v)
  <2> DEFINE g == [files[main.base] EXCEPT ![Head(main.left)] = Absent]
  <2>1. /\ g \in Files /\ main.base \in Bases
        /\ \A v \in Nat : UpTo(files[main.base], v) => UpTo(g, v)
    BY ClearOneType, RemovedOne, Types
  <2>2. files' = [files EXCEPT ![main.base] = g]
    BY ClearOneType
  <2> HIDE DEF g
  <2> QED
    BY <2>1, <2>2 DEF TypeOK
<1>2. TypeOK'
  BY <1>1, ClearOneType DEF TypeOK, ClearOne
<1> QED
  BY <1>1, <1>2, FilesOnly DEF ClearOne

\* Posting writeSyncAll keeps the order.
LEMMA SyncInOrder ==
  ASSUME TypeOK, InOrder, NEW then \in {"idle", "finished"}, Sync(then)
  PROVE  TypeOK' /\ InOrder'
<1> DEFINE t == [do |-> "writeSyncAll"]
           n == Len(inbox) + 1
<1>1. /\ inbox' \in Seq(Task) /\ DOMAIN inbox' = 1 .. n /\ inbox'[n] = t
      /\ \A i \in DOMAIN inbox : inbox'[i] = inbox[i]
      /\ DOMAIN inbox = 1 .. n - 1 /\ n \in Nat \ {0}
  <2>1. t \in Task
    BY DEF Task
  <2> HIDE DEF t
  <2> QED
    BY <2>1 DEF TypeOK, Sync, Posts, t
<1>2. \A i \in DOMAIN inbox : inbox[i].do \notin Awaited
  BY DEF TypeOK, Sync, Idle
<1>3. main' \in MainStates /\ main'.at = "waiting"
  BY DEF Sync, Waits, MainStates
<1> HIDE DEF n
<1>4. TypeOK'
  <2>1. n \in DOMAIN inbox' /\ inbox'[n].do \in Awaited
    BY <1>1 DEF Awaited
  <2>2. UNCHANGED <<files, scheduled, job, version, stored, failures>>
    BY DEF Sync
  <2> QED
    BY <1>1, <1>3, <2>1, <2>2 DEF TypeOK
<1>5. OneAwaited'
  BY <1>1, <1>2 DEF OneAwaited
<1>6. JobIsBacked'
  <2>1. Writing => inbox # <<>> /\ 1 \in DOMAIN inbox /\ inbox' # <<>>
    BY <1>1 DEF InOrder, JobIsBacked
  <2> QED
    BY <1>1, <2>1 DEF InOrder, JobIsBacked, Writing, Sync
<1>7. Coming' = Coming /\ \A i \in Coming : inbox'[i] = inbox[i]
  BY <1>1 DEF Coming, Writing, Sync
<1>8. ComingInOrder' /\ ScheduledInOrder' /\ DiskIsAsked'
  BY <1>7 DEF InOrder, ComingInOrder, ScheduledInOrder, DiskIsAsked, Newer, Sync
<1> QED
  BY <1>4, <1>5, <1>6, <1>8 DEF InOrder

\* A crash empties the queues.
LEMMA CrashInOrder ==
  ASSUME TypeOK, InOrder, Crash
  PROVE  TypeOK' /\ InOrder'
<1>1. TypeOK'
  BY DEF TypeOK, Crash, MainStates, Idle, Awaited
<1>2. InOrder'
  BY DEF InOrder, DiskIsAsked, JobIsBacked, ScheduledInOrder, ComingInOrder,
    OneAwaited, Coming, Writing, Crash
<1> QED
  BY <1>1, <1>2

\* A new version is posted to be written.
LEMMA WriteInOrder ==
  ASSUME TypeOK, InOrder, NEW b \in Bases, Write(b)
  PROVE  TypeOK' /\ InOrder'
<1>1. InOrder' /\ inbox' \in Seq(Task) /\ version' \in [Bases -> Nat]
  BY AskingInOrder DEF Write, Posts
<1>2. \A i \in DOMAIN inbox' : inbox'[i].do \in Awaited =>
        i \in DOMAIN inbox /\ inbox'[i] = inbox[i]
  BY DEF Write, Posts, TypeOK, Awaited
<1>3. main.at = "idle"
  BY DEF Write, Asks, Idle
<1>4. \A i \in DOMAIN inbox' : inbox'[i].do \notin Awaited
  BY <1>2, <1>3 DEF TypeOK
<1>5. TypeOK'
  BY <1>1, <1>3, <1>4 DEF TypeOK, Write
<1> QED
  BY <1>1, <1>5

\* A new version is posted, and waited for.
LEMMA WriteSyncInOrder ==
  ASSUME TypeOK, InOrder, NEW b \in Bases, WriteSync(b)
  PROVE  TypeOK' /\ InOrder'
<1>1. InOrder' /\ inbox' \in Seq(Task) /\ version' \in [Bases -> Nat]
  BY AskingInOrder DEF WriteSync, Posts
<1>2. /\ Len(inbox) + 1 \in DOMAIN inbox'
      /\ inbox'[Len(inbox) + 1].do \in Awaited
  BY DEF WriteSync, Posts, TypeOK, Awaited
<1>3. main' \in MainStates /\ main'.at = "waiting"
  BY DEF WriteSync, Waits, MainStates
<1>4. TypeOK'
  BY <1>1, <1>2, <1>3 DEF TypeOK, WriteSync
<1> QED
  BY <1>1, <1>4

\* The first task becomes the scheduled entry of its base (write).
LEMMA RunWriteInOrder ==
  ASSUME TypeOK, InOrder, RunWrite
  PROVE  TypeOK' /\ InOrder'
<1> DEFINE e == inbox[1].entry
           same == Scheduled(e.base)
<1>1. /\ job = Idle /\ job' = Idle /\ inbox # <<>> /\ inbox[1].do = "write"
      /\ Head(inbox) = inbox[1] /\ 1 \in DOMAIN inbox /\ 1 \in Coming
      /\ \A i \in Coming : i \in Nat /\ i > 0
  BY DEF RunWrite, Runs, Coming, Writing, TypeOK
<1>2. e \in Entry /\ e.base \in Bases /\ Newer(e)
  BY <1>1, Types, EntryType DEF InOrder, ComingInOrder
<1>3. /\ scheduled' \in Seq(Entry)
      /\ \A k \in DOMAIN scheduled' :
           scheduled'[k] = e \/ \E l \in DOMAIN scheduled : scheduled'[k] = scheduled[l]
      /\ \A k, l \in DOMAIN scheduled' :
           scheduled'[k].base = scheduled'[l].base => k = l
  <2>1. \A k, l \in DOMAIN scheduled :
          scheduled[k].base = scheduled[l].base => k = l
    BY DEF InOrder, ScheduledInOrder
  <2> HIDE DEF e
  <2>2. CASE same = {}
    <3>1. scheduled' = Append(scheduled, e)
      BY <1>1, <2>2 DEF RunWrite, e
    <3>2. \A k \in DOMAIN scheduled : scheduled[k].base # e.base
      BY <2>2 DEF Scheduled
    <3>3. /\ scheduled' \in Seq(Entry) /\ DOMAIN scheduled' = 1 .. Len(scheduled) + 1
          /\ scheduled'[Len(scheduled) + 1] = e
          /\ DOMAIN scheduled = 1 .. Len(scheduled) /\ Len(scheduled) \in Nat
          /\ \A k \in DOMAIN scheduled : scheduled'[k] = scheduled[k]
      BY <1>2, <3>1 DEF TypeOK
    <3> QED
      BY <2>1, <3>2, <3>3
  <2>3. CASE same # {}
    <3>1. PICK m \in DOMAIN scheduled :
            scheduled[m].base = e.base /\ scheduled' = [scheduled EXCEPT ![m] = e]
      BY <1>1, <2>3 DEF RunWrite, Scheduled, e
    <3>2. /\ scheduled' \in Seq(Entry) /\ DOMAIN scheduled' = DOMAIN scheduled
          /\ scheduled'[m] = e
          /\ \A k \in DOMAIN scheduled : k # m => scheduled'[k] = scheduled[k]
      BY <1>2, <3>1 DEF TypeOK
    <3> QED
      BY <2>1, <3>1, <3>2
  <2> QED
    BY <2>2, <2>3
<1>4. /\ inbox' \in Seq(Task) /\ main' \in MainStates
      /\ main'.at = "waiting" <=>
           \E i \in DOMAIN inbox' : inbox'[i].do \in Awaited
      /\ OneAwaited'
  BY <1>1, TaskDoneType DEF RunWrite, InOrder
<1>5. TypeOK'
  BY <1>3, <1>4 DEF TypeOK, RunWrite
<1>6. /\ files' = files /\ version' = version
      /\ DiskIsAsked' /\ JobIsBacked'
  BY <1>1 DEF RunWrite, InOrder, DiskIsAsked, JobIsBacked, Writing
<1> HIDE DEF e
<1>7. ScheduledInOrder'
  <2>1. \A x \in Entry : Newer(x) =>
          Ahead(x, files'[x.base], job', version'[x.base])
    BY <1>1, <1>6 DEF Newer
  <2>2. \A k \in DOMAIN scheduled' :
          LET x == scheduled'[k] IN x \in Entry /\ Newer(x)
    BY <1>2, <1>3, Types DEF InOrder, ScheduledInOrder
  <2> QED
    BY <1>3, <2>1, <2>2 DEF ScheduledInOrder, Newer
<1>8. ComingInOrder'
  <2>1. ASSUME NEW i \in Coming, i > 1
        PROVE  LET x == inbox[i].entry IN
               /\ Ahead(x, files'[x.base], job', version'[x.base])
               /\ \A k \in DOMAIN scheduled' :
                    scheduled'[k].base = x.base => scheduled'[k].v < x.v
    <3>1. e.base = inbox[i].entry.base => e.v < inbox[i].entry.v
      BY <1>1, <2>1 DEF InOrder, ComingInOrder, e
    <3> QED
      BY <1>1, <1>3, <1>6, <3>1 DEF InOrder, ComingInOrder, Newer
  <2>2. \E p \in {<<>>, scheduleWrite} : TaskDone(p)
    BY DEF RunWrite
  <2> QED
    BY <1>1, <1>6, <2>1, <2>2, TaskDoneInOrder
<1> QED
  BY <1>4, <1>5, <1>6, <1>7, <1>8 DEF InOrder

\* A task with nothing left to write is done.
LEMMA RunEmptyInOrder ==
  ASSUME TypeOK, InOrder, RunEmpty
  PROVE  TypeOK' /\ InOrder'
<1>1. /\ job = Idle /\ job' = Idle /\ inbox # <<>>
      /\ files' = files /\ version' = version /\ scheduled' = scheduled
      /\ TaskDone(<<>>)
  BY DEF RunEmpty, Runs
<1>2. /\ inbox' \in Seq(Task) /\ main' \in MainStates
      /\ main'.at = "waiting" <=>
           \E i \in DOMAIN inbox' : inbox'[i].do \in Awaited
      /\ OneAwaited'
  BY <1>1, TaskDoneType DEF InOrder
<1>3. TypeOK'
  BY <1>1, <1>2 DEF TypeOK, RunEmpty
<1>4. DiskIsAsked' /\ JobIsBacked' /\ ScheduledInOrder'
  BY <1>1 DEF InOrder, DiskIsAsked, JobIsBacked, ScheduledInOrder, Newer, Writing
<1>5. ComingInOrder'
  <2>1. \A i \in Coming :
          LET x == inbox[i].entry IN
          /\ Ahead(x, files'[x.base], job', version'[x.base])
          /\ \A k \in DOMAIN scheduled' :
               scheduled'[k].base = x.base => scheduled'[k].v < x.v
    BY <1>1 DEF InOrder, ComingInOrder, Newer
  <2> QED
    BY <1>1, <2>1, TaskDoneInOrder
<1> QED
  BY <1>2, <1>3, <1>4, <1>5 DEF InOrder

\* An entry is taken that is ahead of the disk and behind all that wait.
LEMMA StartsInOrder ==
  ASSUME TypeOK, InOrder, job = Idle, NEW e \in Entry, StartsWriteNow(e),
         UNCHANGED <<files, inbox, main, version, stored, failures>>,
         Newer(e), inbox # <<>>, inbox[1].do # "write",
         inbox[1].do = "writeSync" => inbox[1].entry = e,
         scheduled' \in Seq(Entry),
         \A k \in DOMAIN scheduled' :
           /\ \E l \in DOMAIN scheduled : scheduled'[k] = scheduled[l]
           /\ scheduled'[k].base # e.base,
         \A k, l \in DOMAIN scheduled' :
           scheduled'[k].base = scheduled'[l].base => k = l,
         \A i \in Coming :
           i > 1 /\ inbox[i].entry.base = e.base => e.v < inbox[i].entry.v
  PROVE  TypeOK' /\ InOrder'
<1>1. /\ job' = [at |-> "save", entry |-> e] /\ job' # Idle
      /\ job' \in [at : Steps, entry : Entry]
      /\ e.base \in Bases /\ e.v \in Nat
  BY EntryType DEF StartsWriteNow, Idle, Steps
<1>2. TypeOK'
  BY <1>1 DEF TypeOK
<1>3. DiskIsAsked' /\ OneAwaited'
  BY DEF InOrder, DiskIsAsked, OneAwaited
<1>4. JobIsBacked'
  BY <1>1 DEF JobIsBacked, Newer, Ahead
<1>5. ASSUME NEW x \in Entry, Newer(x), x.base = e.base => e.v < x.v
      PROVE  Ahead(x, files'[x.base], job', version'[x.base])
  BY <1>1, <1>5 DEF Newer, Ahead
<1>6. ScheduledInOrder'
  <2>1. \A k \in DOMAIN scheduled' :
          LET x == scheduled'[k] IN x \in Entry /\ Newer(x) /\ x.base # e.base
    BY Types DEF InOrder, ScheduledInOrder
  <2> QED
    BY <1>5, <2>1 DEF ScheduledInOrder, Newer
<1>7. ComingInOrder'
  <2>1. \A i \in Coming' : i \in Coming /\ i > 1
    BY <1>1, Types DEF Coming, Writing
  <2>2. \A i \in Coming' :
          LET x == inbox[i].entry IN
          x \in Entry /\ Newer(x) /\ (x.base = e.base => e.v < x.v)
    BY <2>1, Types DEF InOrder, ComingInOrder
  <2> QED
    BY <1>5, <2>1, <2>2 DEF InOrder, ComingInOrder, Newer
<1> QED
  BY <1>2, <1>3, <1>4, <1>6, <1>7 DEF InOrder

\* The first task is written now, past what was scheduled.
LEMMA RunWriteSyncInOrder ==
  ASSUME TypeOK, InOrder, RunWriteSync
  PROVE  TypeOK' /\ InOrder'
<1> DEFINE e == inbox[1].entry
<1>1. /\ job = Idle /\ inbox # <<>> /\ inbox[1].do = "writeSync"
      /\ Head(inbox) = inbox[1] /\ 1 \in Coming
      /\ StartsWriteNow(e) /\ scheduled' = unscheduled(e.base)
  BY DEF RunWriteSync, Runs, Coming, Writing, TypeOK
<1>2. e \in Entry /\ e.base \in Bases /\ Newer(e)
  BY <1>1, Types, EntryType DEF InOrder, ComingInOrder
<1>3. \A i \in Coming :
        i > 1 /\ inbox[i].entry.base = e.base => e.v < inbox[i].entry.v
  BY <1>1 DEF InOrder, ComingInOrder
<1> HIDE DEF e
<1>4. /\ scheduled' \in Seq(Entry)
      /\ \A k \in DOMAIN scheduled' :
           /\ \E l \in DOMAIN scheduled : scheduled'[k] = scheduled[l]
           /\ scheduled'[k].base # e.base
      /\ \A k, l \in DOMAIN scheduled' :
           scheduled'[k].base = scheduled'[l].base => k = l
  <2> DEFINE u == unscheduled(e.base)
  <2>1. /\ scheduled \in Seq(Entry)
        /\ \A i, j \in DOMAIN scheduled :
             scheduled[i].base = scheduled[j].base => i = j
    BY DEF TypeOK, InOrder, ScheduledInOrder
  <2>2. /\ u \in Seq(Entry)
        /\ \A i \in DOMAIN u : u[i].base # e.base
        /\ \A i, j \in DOMAIN u : u[i].base = u[j].base => i = j
        /\ \A i \in DOMAIN u : \E k \in DOMAIN scheduled : u[i] = scheduled[k]
    BY <1>2, <2>1, UnscheduledType
  <2>3. scheduled' = u
    BY <1>1
  <2> HIDE DEF u
  <2> QED
    BY <2>2, <2>3
<1>5. UNCHANGED <<files, inbox, main, version, stored, failures>>
  BY DEF RunWriteSync
<1>6. inbox[1].do = "writeSync" /\ inbox[1].entry = e
  BY <1>1 DEF e
<1> QED
  BY <1>1, <1>2, <1>3, <1>4, <1>5, <1>6, StartsInOrder

\* The first scheduled entry is written now.
LEMMA RunScheduledInOrder ==
  ASSUME TypeOK, InOrder, RunScheduled
  PROVE  TypeOK' /\ InOrder'
<1> DEFINE e == scheduled[1]
<1>1. /\ job = Idle /\ inbox # <<>> /\ Head(inbox) = inbox[1]
      /\ inbox[1].do \in {"writeScheduled", "writeSyncAll"}
      /\ StartsWriteNow(e) /\ scheduled' = Tail(scheduled)
      /\ scheduled # <<>> /\ 1 \in DOMAIN scheduled
  BY DEF RunScheduled, Runs, TypeOK
<1>2. e \in Entry /\ Newer(e)
  BY <1>1, Types DEF InOrder, ScheduledInOrder
<1>3. \A i \in Coming : inbox[i].entry.base = e.base => e.v < inbox[i].entry.v
  BY <1>1 DEF InOrder, ComingInOrder
<1>4. /\ scheduled' \in Seq(Entry)
      /\ \A k \in DOMAIN scheduled' :
           k \in Nat /\ k > 0 /\ k + 1 \in DOMAIN scheduled /\ scheduled'[k] = scheduled[k + 1]
  BY <1>1 DEF TypeOK
<1>5. /\ \A k \in DOMAIN scheduled' :
           /\ \E l \in DOMAIN scheduled : scheduled'[k] = scheduled[l]
           /\ scheduled'[k].base # e.base
      /\ \A k, l \in DOMAIN scheduled' :
           scheduled'[k].base = scheduled'[l].base => k = l
  <2>1. \A k, l \in DOMAIN scheduled :
          scheduled[k].base = scheduled[l].base => k = l
    BY DEF InOrder, ScheduledInOrder
  <2>2. \A k \in DOMAIN scheduled' : k + 1 # 1
    BY <1>4
  <2>3. ASSUME NEW k \in DOMAIN scheduled', NEW l \in DOMAIN scheduled',
               scheduled'[k].base = scheduled'[l].base
        PROVE  k = l
    <3>1. k + 1 = l + 1
      BY <1>4, <2>1, <2>3
    <3> QED
      BY <1>4, <3>1
  <2> QED
    BY <1>1, <1>4, <2>1, <2>2, <2>3
<1>6. UNCHANGED <<files, inbox, main, version, stored, failures>>
  BY DEF RunScheduled
<1> HIDE DEF e
<1> QED
  BY <1>1, <1>2, <1>3, <1>4, <1>5, <1>6, StartsInOrder

\* One step per action.
LEMMA NextInOrder ==
  ASSUME TypeOK, InOrder, Next
  PROVE  TypeOK' /\ InOrder'
BY WriteInOrder, WriteSyncInOrder, ReadFileInOrder, StartClearInOrder,
  SyncInOrder, ClearOneInOrder, RunWriteInOrder, RunWriteSyncInOrder,
  RunScheduledInOrder, RunEmptyInOrder, WriteNowInOrder, CrashInOrder
  DEF Next, Main, Thread

\* Nothing changes when nothing does.
LEMMA StutterInOrder ==
  ASSUME TypeOK, InOrder, UNCHANGED vars
  PROVE  TypeOK' /\ InOrder'
BY DEF vars, TypeOK, InOrder, DiskIsAsked, JobIsBacked, ScheduledInOrder,
  ComingInOrder, OneAwaited, Newer, Coming, Writing

(***************************************************************************)
(* The invariant of the queues: entries lie in the order in which they     *)
(* were asked for, ahead of the one being written and of the disk.         *)
(***************************************************************************)
THEOREM AlwaysInOrder == Spec => [](TypeOK /\ InOrder)
<1>1. Init => TypeOK /\ InOrder
  BY InitInOrder
<1>2. (TypeOK /\ InOrder) /\ [Next]_vars => (TypeOK /\ InOrder)'
  BY NextInOrder, StutterInOrder
<1> QED
  BY <1>1, <1>2, PTL DEF Spec

(***************************************************************************)
(* The types, and: the main thread waits exactly as long as a task that it *)
(* awaits is there (with_sync).                                            *)
(***************************************************************************)
THEOREM TypeCorrect == Spec => []TypeOK
BY AlwaysInOrder, PTL

(***************************************************************************)
(* No order of writing brings an older version back: what is scheduled is  *)
(* newer than the disk and than what is being written, whatever fails and  *)
(* whenever the program crashes (WriteManager::write, writeSync).          *)
(***************************************************************************)
THEOREM NoOlderVersion == Spec => []ScheduledIsNewer
<1>1. TypeOK /\ InOrder => ScheduledIsNewer
  <2> SUFFICES ASSUME TypeOK, InOrder, NEW i \in DOMAIN scheduled
      PROVE LET e == scheduled[i] IN
            /\ Scheduled(e.base) = {i}
            /\ readable(files[e.base]) < e.v
            /\ job # Idle /\ job.entry.base = e.base => job.entry.v < e.v
    BY DEF ScheduledIsNewer
  <2> DEFINE e == scheduled[i]
  <2>1. Scheduled(e.base) = {i}
    BY DEF InOrder, ScheduledInOrder, Scheduled
  <2>2. /\ e.base \in Bases /\ e.v - 1 \in Nat /\ UpTo(files[e.base], e.v - 1)
        /\ job # Idle /\ job.entry.base = e.base => job.entry.v < e.v
    BY Types, EntryType DEF InOrder, ScheduledInOrder, Newer, Ahead
  <2>3. readable(files[e.base]) < e.v
    <3>1. readable(files[e.base]) <= e.v - 1 /\ readable(files[e.base]) \in Nat
      BY <2>2, Types, ReadableType
    <3>2. e.v \in Nat
      BY Types, EntryType
    <3> QED
      BY <3>1, <3>2
  <2> QED
    BY <2>1, <2>2, <2>3
<1> QED
  BY <1>1, AlwaysInOrder, PTL

-----------------------------------------------------------------------------
(***************************************************************************)
(* What has been written is not lost.                                      *)
(***************************************************************************)
\* Of the files f of b, of which v is stored, while j is written: the safe
\* one is whole, and so is the one that is to replace it before it does.
Keeps(f, v, j, b) ==
  /\ readable(f) >= v
  /\ f.s # Torn
  /\ Failures # {} => f.s >= v
  /\ j # Idle /\ j.entry.base = b =>
       /\ j.at \in {"removeSimple", "removeBackup"} => f.s # Absent
       /\ j.at = "fill" => f.zero # Absent
       /\ j.at \in {"dropBackup", "rename"} => f.zero = j.entry.v
       /\ j.at # "dropSafe"
       /\ Failures = {} => j.at \in {"save", "removeSimple", "removeBackup"}

Kept(b) == Keeps(files[b], stored[b], job, b)

AllKept == main.at # "clearing" /\ \A b \in Bases : Kept(b)

\* Only StartClear begins to clear.
LEMMA NotClearing ==
  ASSUME TypeOK, InOrder, ~Clears, main.at # "clearing", [Next]_vars
  PROVE  main'.at # "clearing"
<1>1. ASSUME inbox # <<>>, NEW p, TaskDone(p)
      PROVE  main'.at # "clearing"
  <2>1. Head(inbox).do \in Awaited => main.then \in {"idle", "finished"}
    <3>1. 1 \in DOMAIN inbox /\ Head(inbox) = inbox[1]
      BY <1>1 DEF TypeOK
    <3> QED
      BY <3>1, MainType DEF TypeOK
  <2> QED
    BY <1>1, <2>1 DEF TaskDone, woken
<1>2. CASE Main
  <2>1. CASE \E b \in Bases : Write(b) \/ ReadFile(b)
    BY <2>1 DEF Write, ReadFile
  <2>2. CASE \/ \E b \in Bases : WriteSync(b)
             \/ \E then \in {"idle", "finished"} : Sync(then)
    <3>1. \E bases, then : Waits(bases, then)
      BY <2>2 DEF WriteSync, Sync
    <3> QED
      BY <3>1 DEF Waits
  <2>3. CASE (\E b \in Bases : StartClear(b)) \/ ClearOne
    BY <2>3 DEF StartClear, ClearOne
  <2> QED
    BY <1>2, <2>1, <2>2, <2>3 DEF Main
<1>3. CASE RunWrite \/ RunEmpty
  BY <1>1, <1>3 DEF RunWrite, RunEmpty, Runs
<1>4. CASE RunWriteSync \/ RunScheduled
  BY <1>4 DEF RunWriteSync, RunScheduled
<1>5. CASE writeNow
  <2>1. Returns \/ \E step \in Steps : Continues(step)
    BY <1>5, WriteNowStep
  <2>2. inbox # <<>>
    BY <1>5, WriteNowStep DEF InOrder, JobIsBacked
  <2> QED
    BY <1>1, <2>1, <2>2 DEF Returns, Continues
<1>6. CASE Crash
  BY <1>6 DEF Crash, Idle
<1>7. CASE UNCHANGED vars
  BY <1>7 DEF vars
<1> QED
  BY <1>2, <1>3, <1>4, <1>5, <1>6, <1>7 DEF Next, Thread

\* One operation of writeNow on the files of its base.
LEMMA WriteNowKeeps ==
  ASSUME TypeOK, InOrder, AllKept, writeNow, Failures \subseteq {"save", "open"}
  PROVE  \A b \in Bases : Kept(b)'
<1> DEFINE e == job.entry
           f == files[e.base]
           g == files'[e.base]
           j == job'
           w == stored'[e.base]
<1>1. /\ Writing /\ e.base \in Bases /\ e.v \in Nat /\ e.v > 0 /\ f \in Files
      /\ job \in [at : Steps, entry : Entry]
      /\ files' \in [Bases -> Files] /\ g \in Files
      /\ \A b \in Bases : b # e.base => files'[b] = files[b]
      /\ Returns \/ \E step \in Steps \ {"save"} : Continues(step)
      /\ here = f
  BY WriteNowStep, Types, EntryType DEF InOrder, JobIsBacked, TypeOK, Writing, here
<1>2. /\ Keeps(f, stored[e.base], job, e.base)
      /\ readable(f) <= e.v /\ readable(f) \in Nat /\ stored[e.base] \in Nat
      /\ stored[e.base] <= e.v
  <2>1. UpTo(f, e.v)
    <3>1. UpTo(f, e.v - 1) \/ UpTo(f, e.v)
      <4>1. UpTo(f, IF job.at = "save" THEN e.v - 1 ELSE e.v)
        BY <1>1 DEF InOrder, JobIsBacked
      <4> HIDE DEF e, f
      <4> QED
        BY <4>1
    <3> HIDE DEF e, f
    <3> QED
      BY <1>1, <3>1, UpToMore
  <2>2. Keeps(f, stored[e.base], job, e.base) /\ stored[e.base] \in Nat
    BY <1>1 DEF AllKept, Kept, TypeOK
  <2>3. readable(f) >= stored[e.base]
    BY <2>2 DEF Keeps
  <2> HIDE DEF e, f
  <2>4. readable(f) <= e.v /\ readable(f) \in Nat
    BY <1>1, <2>1, ReadableType
  <2> QED
    BY <1>1, <2>2, <2>3, <2>4
<1>3. /\ j = Idle \/ (j.entry = e /\ j # Idle)
      /\ Returns => j = Idle
      /\ \A step \in Steps : Continues(step) => j.at = step /\ j.entry = e
  BY <1>1 DEF Returns, Continues, Goes, Idle, Steps
<1>4. Completes => w = e.v
  BY <1>1, <1>2 DEF Completes, TypeOK
<1>5. \A b \in Bases : b # e.base => stored'[b] = stored[b]
  BY DEF writeNow, Save, RemoveSimple, RemoveBackup, Open, Fill, DropBackup,
    Rename, DropSafe, Completes, TypeOK
<1>6. \A f1 \in Files : Puts(f1) => g = f1
  BY <1>1 DEF Puts, TypeOK
<1>7. ASSUME NEW b \in Bases, b # e.base
      PROVE  Keeps(files'[b], stored'[b], job', b)
  BY <1>1, <1>3, <1>5, <1>7 DEF AllKept, Kept, Keeps
<1>8. files' = files => g = f
  OBVIOUS
<1>9. stored' = stored => w = stored[e.base]
  OBVIOUS
<1>10. Keeps(g, w, j, e.base)
  <2>1. CASE Save
    <3>1. CASE Completes /\ Puts([here EXCEPT !.s = e.v]) /\ Continues("removeSimple")
      <4>1. g.s = e.v
        BY <1>1, <1>6, <3>1 DEF Files
      <4>2. readable(g) = e.v
        BY <1>1, <4>1, ReadableType DEF Absent, Torn
      <4>3. w = e.v /\ j.at = "removeSimple"
        BY <1>3, <1>4, <3>1 DEF Steps
      <4> HIDE DEF e, f, g, j, w
      <4> QED
        BY <1>1, <4>1, <4>2, <4>3 DEF Keeps, Absent, Torn
    <3>2. CASE Fails("save") /\ Continues("open") /\ UNCHANGED <<files, stored>>
      <4>1. g = f /\ w = stored[e.base] /\ j.at = "open" /\ Failures # {}
        BY <1>3, <3>2 DEF Steps, Fails
      <4> HIDE DEF e, f, g, j, w
      <4> QED
        BY <1>2, <4>1 DEF Keeps
    <3> QED
      BY <2>1, <3>1, <3>2 DEF Save
  <2>2. CASE RemoveSimple \/ RemoveBackup
    <3>1. f.s # Absent /\ f.s # Torn
      BY <1>1, <1>2, <2>2 DEF RemoveSimple, RemoveBackup, Keeps, Doing
    <3>2. g.s = f.s
      BY <1>1, <1>6, <2>2 DEF RemoveSimple, RemoveBackup, Files, Absent
    <3>3. readable(g) = readable(f)
      BY <1>1, <3>1, <3>2, ReadableType
    <3>4. w = stored[e.base] /\ (j = Idle \/ j.at = "removeBackup")
      BY <1>3, <1>9, <2>2 DEF RemoveSimple, RemoveBackup, Steps
    <3> HIDE DEF e, f, g, j, w
    <3> QED
      BY <1>2, <3>1, <3>2, <3>3, <3>4 DEF Keeps
  <2>3. CASE Open \/ Fill \/ DropBackup
    <3>1. Failures # {}
      BY <1>1, <1>2, <2>3 DEF Open, Fill, DropBackup, Doing, Keeps
    <3>2. CASE Open
      <4>1. \/ g = [f EXCEPT !.zero = Torn, !.newer = "zero"] /\ j.at = "fill"
            \/ g = f /\ j = Idle
        <5>1. CASE /\ Puts([f EXCEPT !.zero = Torn, !.newer = "zero"])
                   /\ Continues("fill")
          <6>1. [f EXCEPT !.zero = Torn, !.newer = "zero"] \in Files
            BY <1>1, OpenedAndRenamed
          <6>2. j.at = "fill"
            BY <1>3, <5>1 DEF Steps
          <6> QED
            BY <1>6, <5>1, <6>1, <6>2
        <5>2. CASE Returns /\ UNCHANGED files
          BY <1>3, <1>8, <5>2
        <5> QED
          BY <1>1, <3>2, <5>1, <5>2 DEF Open
      <4> HIDE DEF e, f, g, j, w
      <4>2. g.s = f.s /\ (j = Idle \/ (j.at = "fill" /\ g.zero = Torn))
        <5>1. CASE j.at = "fill" /\ g = [f EXCEPT !.zero = Torn, !.newer = "zero"]
          <6>1. g.s = f.s /\ g.zero = Torn
            BY <1>1, <5>1 DEF Files
          <6> QED
            BY <5>1, <6>1
        <5>2. CASE g = f /\ j = Idle
          BY <5>2
        <5> QED
          BY <4>1, <5>1, <5>2
      <4>3. w = stored[e.base]
        BY <1>9, <3>2 DEF Open, w
      <4>4. readable(g) >= w
        BY <1>1, <1>2, <3>1, <4>2, <4>3, ReadableType DEF Keeps, Absent, Files
      <4> HIDE DEF e, f, g, j, w
      <4>5. Torn # Absent
        BY DEF Torn, Absent
      <4>6. CASE j = Idle
        BY <1>2, <4>2, <4>3, <4>4, <4>6 DEF Keeps
      <4>7. CASE j # Idle
        BY <1>2, <3>1, <4>2, <4>3, <4>4, <4>5, <4>7 DEF Keeps
      <4> QED
        BY <4>6, <4>7
    <3>3. CASE Fill
      <4>1. f.zero # Absent /\ "short" \notin Failures
        BY <1>1, <1>2, <3>3 DEF Fill, Doing, Keeps
      <4>2. Puts([f EXCEPT !.zero = e.v])
        BY <1>1, <3>3, <4>1 DEF Fill, Fails
      <4>3. g.zero = e.v /\ g.s = f.s
        BY <1>1, <1>6, <4>2 DEF Files
      <4>4. w = stored[e.base] /\ j.at = "dropBackup" /\ j.entry = e
        BY <1>3, <1>9, <3>3 DEF Fill, Steps
      <4>5. readable(g) >= w
        BY <1>1, <1>2, <3>1, <4>3, <4>4, ReadableType DEF Keeps, Absent, Files
      <4> HIDE DEF e, f, g, j, w
      <4> QED
        BY <1>2, <3>1, <4>3, <4>4, <4>5 DEF Keeps
    <3>4. CASE DropBackup
      <4>1. f.zero = e.v
        BY <1>1, <1>2, <3>4 DEF DropBackup, Doing, Keeps
      <4>2. g.zero = f.zero /\ g.s = f.s
        BY <1>1, <1>6, <3>4 DEF DropBackup, Files, Absent
      <4>3. w = stored[e.base] /\ j.at = "rename" /\ j.entry = e
        BY <1>3, <1>9, <3>4 DEF DropBackup, Steps
      <4>4. readable(g) >= w
        BY <1>1, <1>2, <3>1, <4>2, <4>3, ReadableType DEF Keeps, Absent, Files
      <4> HIDE DEF e, f, g, j, w
      <4> QED
        BY <1>2, <3>1, <4>1, <4>2, <4>3, <4>4 DEF Keeps
    <3> QED
      BY <2>3, <3>2, <3>3, <3>4
  <2>4. CASE Rename
    <3>1. f.zero = e.v /\ f.zero # Absent /\ "rename" \notin Failures
      BY <1>1, <1>2, <2>4 DEF Rename, Doing, Keeps, Absent
    <3>2. /\ Puts([f EXCEPT !.s = f.zero, !.zero = Absent])
          /\ Returns /\ Completes
      BY <1>1, <2>4, <3>1 DEF Rename, Fails
    <3>3. g.s = e.v
      <4>1. g = [f EXCEPT !.s = f.zero, !.zero = Absent]
        BY <1>1, <1>6, <3>2, OpenedAndRenamed
      <4> HIDE DEF e, f, g, j, w
      <4> QED
        BY <1>1, <3>1, <4>1 DEF Files
    <3>4. readable(g) = e.v
      BY <1>1, <3>3, ReadableType DEF Absent, Torn
    <3>5. w = e.v /\ j = Idle
      BY <1>3, <1>4, <3>2
    <3> HIDE DEF e, f, g, j, w
    <3> QED
      BY <1>1, <3>3, <3>4, <3>5 DEF Keeps, Torn
  <2>5. CASE DropSafe
    BY <1>1, <1>2, <2>5 DEF DropSafe, Doing, Keeps
  <2> QED
    BY <2>1, <2>2, <2>3, <2>4, <2>5 DEF writeNow
<1> QED
  BY <1>7, <1>10 DEF Kept

\* What is kept stays kept while no file of b is touched.
LEMMA UntouchedKept ==
  ASSUME NEW b, Kept(b), files'[b] = files[b], stored'[b] = stored[b],
         \/ job' = job \/ job' = Idle
         \/ \E e : job' = [at |-> "save", entry |-> e]
  PROVE  Kept(b)'
BY DEF Kept, Keeps

\* What has been stored stays found, one step per action.
LEMMA NextKeeps ==
  ASSUME TypeOK, InOrder, AllKept, [Next]_vars, ~Clears,
         Failures \subseteq {"save", "open"}
  PROVE  AllKept'
<1>1. main'.at # "clearing"
  BY NotClearing DEF AllKept
<1> SUFFICES \A b \in Bases : Kept(b)'
  BY <1>1 DEF AllKept
<1>2. ASSUME UNCHANGED <<files, stored>>,
             \/ job' = job \/ job' = Idle
             \/ \E e : job' = [at |-> "save", entry |-> e]
      PROVE  \A b \in Bases : Kept(b)'
  BY <1>2, UntouchedKept DEF AllKept
<1>3. CASE UNCHANGED vars
  BY <1>2, <1>3 DEF vars
<1>4. CASE \E b \in Bases : Write(b) \/ WriteSync(b)
  BY <1>2, <1>4 DEF Write, WriteSync
<1>5. CASE \E then \in {"idle", "finished"} : Sync(then)
  BY <1>2, <1>5 DEF Sync
<1>6. ASSUME NEW c \in Bases, ReadFile(c)
      PROVE  \A b \in Bases : Kept(b)'
  <2> SUFFICES ASSUME NEW b \in Bases PROVE Kept(b)'
    OBVIOUS
  <2>1. /\ files'[b] = IF b = c THEN afterReadFile(files[c]) ELSE files[b]
        /\ stored' = stored /\ job' = job
        /\ ~(job # Idle /\ job.entry.base = c)
    BY <1>6 DEF ReadFile, TypeOK, pending
  <2>2. CASE b = c
    <3>1. /\ readable(files'[b]) = readable(files[b])
          /\ files'[b].s = files[b].s
      BY <2>1, <2>2, Types, AfterReadFile
    <3> QED
      BY <2>1, <2>2, <3>1 DEF AllKept, Kept, Keeps
  <2>3. CASE b # c
    BY <2>1, <2>3, UntouchedKept DEF AllKept
  <2> QED
    BY <2>2, <2>3
<1>7. CASE (\E b \in Bases : StartClear(b)) \/ ClearOne
  BY <1>7 DEF StartClear, ClearOne, AllKept
<1>8. CASE RunWrite \/ RunEmpty
  BY <1>2, <1>8 DEF RunWrite, RunEmpty
<1>9. CASE RunWriteSync \/ RunScheduled
  BY <1>2, <1>9 DEF RunWriteSync, RunScheduled, StartsWriteNow
<1>10. CASE Crash
  BY <1>2, <1>10 DEF Crash
<1>11. CASE writeNow
  BY <1>11, WriteNowKeeps
<1> QED
  BY <1>3, <1>4, <1>5, <1>6, <1>7, <1>8, <1>9, <1>10, <1>11
  DEF Next, Main, Thread

(***************************************************************************)
(* Once a version has been written to the end, it or a newer one is found, *)
(* through any crashes: for new files however often saving and opening     *)
(* fail, and for the files of older versions if nothing fails              *)
(* (WriteManager::writeNow, ReadFile).  Files are not cleared meanwhile.   *)
(***************************************************************************)
THEOREM NothingIsLost ==
  ASSUME ~Clears,
         \/ Failures = {}
         \/ Failures \subseteq {"save", "open"} /\ Old = {"none"}
  PROVE  Spec => []NothingLost
<1>1. Init => AllKept
  <2> SUFFICES ASSUME Init, NEW b \in Bases PROVE Kept(b)
    BY DEF AllKept, Init, Idle
  <2>1. PICK old \in [Bases -> Old] : files = [c \in Bases |-> OldFiles(old[c])]
    BY DEF Init
  <2>2. /\ files[b] = OldFiles(old[b]) /\ files[b].s = Absent
        /\ readable(files[b]) \in Nat /\ stored[b] = readable(files[b])
        /\ job = Idle
    BY <2>1, OldFilesType, ReadableType DEF Init
  <2>3. Old = {"none"} => readable(files[b]) = Absent
    BY <2>1, <2>2 DEF OldFiles, Legacy, readable, toTry, Absent, Torn
  <2> QED
    BY <2>2, <2>3 DEF Kept, Keeps, Absent, Torn
<1>2. TypeOK /\ InOrder /\ AllKept /\ [Next]_vars => AllKept'
  BY NextKeeps
<1>3. AllKept => NothingLost
  BY DEF AllKept, Kept, Keeps, NothingLost
<1> QED
  BY <1>1, <1>2, <1>3, AlwaysInOrder, PTL DEF Spec

-----------------------------------------------------------------------------
(***************************************************************************)
(* Waiting for the disk.                                                   *)
(***************************************************************************)
Saved ==
  Writing =>
    /\ job.at \in {"save", "removeSimple", "removeBackup"}
    /\ job.at # "save" => files[job.entry.base].s = job.entry.v

\* Entry e is still to be written.
Waiting(e) ==
  \/ Writing /\ job.at = "save" /\ job.entry = e
  \/ \E i \in DOMAIN scheduled : scheduled[i] = e
  \/ \E i \in Coming : inbox[i].entry = e

\* The latest version of b is on disk or on its way.
Latest(b) ==
  \/ readable(files[b]) = version[b]
  \/ \E e \in Entry : e.base = b /\ e.v = version[b] /\ Waiting(e)

\* While the main thread waits it asks for nothing.
AwaitedIsLast ==
  \A i \in DOMAIN inbox : inbox[i].do \in Awaited =>
    /\ \A j \in DOMAIN inbox : j > i => inbox[j].do = "writeScheduled"
    /\ inbox[i].do = "writeSync" =>
         /\ main.bases = {inbox[i].entry.base}
         /\ inbox[i].entry.v = version[inbox[i].entry.base]

OnItsWay ==
  /\ main.at # "clearing" /\ Saved /\ AwaitedIsLast
  /\ \A b \in Bases : Latest(b)

\* The latest version stays on its way while what waits stays.
LEMMA LatestStays ==
  ASSUME NEW b, Latest(b), version'[b] = version[b],
         readable(files[b]) = version[b] => readable(files'[b]) = version[b],
         \A e \in Entry :
           e.base = b /\ e.v = version[b] /\ Waiting(e) =>
             Waiting(e)' \/ readable(files'[b]) = version[b]
  PROVE  Latest(b)'
BY DEF Latest

\* Tasks move up when the first is done.
LEMMA ComingMovesUp ==
  ASSUME TypeOK, OneAwaited, inbox # <<>>, NEW p \in {<<>>, scheduleWrite},
         TaskDone(p), job' = Idle
  PROVE  \A i \in Coming : i > 1 =>
           i - 1 \in Coming' /\ inbox'[i - 1] = inbox[i]
<1>1. inbox \in Seq(Task) /\ inbox' = Tail(inbox) \o p
  BY DEF TypeOK, TaskDone
<1>2. \A i \in DOMAIN inbox :
        i > 1 => i - 1 \in DOMAIN inbox' /\ inbox'[i - 1] = inbox[i]
  BY <1>1, TaskDoneInbox, Zenon
<1> QED
  BY <1>2 DEF Coming, Writing

\* The task that is awaited stays the last one that brings anything.
LEMMA AwaitedMovesUp ==
  ASSUME TypeOK, InOrder, AwaitedIsLast, inbox # <<>>,
         NEW p \in {<<>>, scheduleWrite}, TaskDone(p), version' = version
  PROVE  AwaitedIsLast'
<1>1. \A i \in DOMAIN inbox' :
        \/ i + 1 \in DOMAIN inbox /\ inbox'[i] = inbox[i + 1] /\ i + 1 > 1
        \/ inbox'[i].do = "writeScheduled"
  BY TaskDoneType DEF InOrder
<1>2. inbox' \in Seq(Task) /\ 1 \in DOMAIN inbox /\ Head(inbox) = inbox[1]
  BY TaskDoneType DEF InOrder, TypeOK
<1> SUFFICES ASSUME NEW i \in DOMAIN inbox', inbox'[i].do \in Awaited
    PROVE  /\ \A j \in DOMAIN inbox' : j > i => inbox'[j].do = "writeScheduled"
           /\ inbox'[i].do = "writeSync" =>
                /\ main'.bases = {inbox'[i].entry.base}
                /\ inbox'[i].entry.v = version'[inbox'[i].entry.base]
  BY DEF AwaitedIsLast
<1>3. /\ i + 1 \in DOMAIN inbox /\ inbox'[i] = inbox[i + 1] /\ i + 1 > 1
      /\ inbox[i + 1].do \in Awaited
  BY <1>1 DEF Awaited
<1>4. main' = main
  BY <1>2, <1>3 DEF InOrder, OneAwaited, TaskDone, woken
<1>5. ASSUME NEW j \in DOMAIN inbox', j > i
      PROVE  inbox'[j].do = "writeScheduled"
  <2>1. i \in Nat /\ j \in Nat
    BY <1>2
  <2>2. j + 1 > i + 1
    BY <1>5, <2>1
  <2> QED
    BY <1>1, <1>3, <2>2 DEF AwaitedIsLast
<1> QED
  BY <1>3, <1>4, <1>5 DEF AwaitedIsLast

\* What is asked for is posted.
LEMMA AskedOnItsWay ==
  ASSUME TypeOK, InOrder, OnItsWay, NEW c \in Bases, Write(c) \/ WriteSync(c)
  PROVE  OnItsWay'
<1> DEFINE n == Len(inbox) + 1
           e == EntryOf(c)
<1>1. /\ UNCHANGED <<files, scheduled, job>>
      /\ version'[c] = version[c] + 1 /\ version[c] + 1 \in Nat
      /\ \A b \in Bases : b # c => version'[b] = version[b]
      /\ main.at = "idle"
  BY DEF Write, WriteSync, Asks, TypeOK, Idle
<1>2. e = [base |-> c, v |-> version'[c]] /\ e \in Entry
  BY <1>1 DEF EntryOf, Entry
<1> HIDE DEF e
<1>3. PICK d \in {"write", "writeSync"} :
        /\ inbox' = Append(inbox, [do |-> d, entry |-> e])
        /\ d = "write" => main' = main
        /\ d = "writeSync" => main' = [at |-> "waiting", bases |-> {c}, then |-> "idle"]
  BY DEF Write, WriteSync, Posts, Waits, e
<1>4. /\ DOMAIN inbox' = 1 .. n /\ inbox'[n] = [do |-> d, entry |-> e]
      /\ \A i \in DOMAIN inbox : inbox'[i] = inbox[i]
      /\ DOMAIN inbox = 1 .. n - 1 /\ n \in Nat \ {0}
  BY <1>3 DEF TypeOK
<1> HIDE DEF n
<1>5. \A i \in DOMAIN inbox : inbox[i].do \notin Awaited
  BY <1>1 DEF TypeOK
<1>6. main'.at # "clearing" /\ Saved'
  BY <1>1, <1>3 DEF OnItsWay, Saved, Writing
<1>7. AwaitedIsLast'
  <2> SUFFICES ASSUME NEW i \in DOMAIN inbox', inbox'[i].do \in Awaited
      PROVE  /\ \A j \in DOMAIN inbox' : j > i => inbox'[j].do = "writeScheduled"
             /\ inbox'[i].do = "writeSync" =>
                  /\ main'.bases = {inbox'[i].entry.base}
                  /\ inbox'[i].entry.v = version'[inbox'[i].entry.base]
    BY DEF AwaitedIsLast
  <2>1. i = n /\ d = "writeSync"
    BY <1>4, <1>5 DEF Awaited
  <2>2. \A j \in DOMAIN inbox' : ~(j > i)
    BY <1>4, <2>1
  <2>3. main'.bases = {c} /\ e.base = c /\ e.v = version'[c]
    BY <1>2, <1>3, <2>1
  <2> QED
    BY <1>4, <2>1, <2>2, <2>3
<1>8. ASSUME NEW b \in Bases PROVE Latest(b)'
  <2>1. CASE b = c
    <3>1. n \in Coming' /\ inbox'[n].entry = e
      <4>1. Writing => n # 1
        BY <1>4 DEF InOrder, JobIsBacked
      <4> QED
        BY <1>1, <1>4, <4>1 DEF Coming, Writing
    <3> QED
      BY <1>2, <2>1, <3>1 DEF Latest, Waiting
  <2>2. CASE b # c
    <3>1. \A i \in Coming : i \in Coming' /\ inbox'[i] = inbox[i]
      BY <1>1, <1>4 DEF Coming, Writing
    <3>2. \A x \in Entry : Waiting(x) => Waiting(x)'
      BY <1>1, <3>1 DEF Waiting, Writing
    <3> QED
      BY <1>1, <2>2, <3>2 DEF OnItsWay, Latest
  <2> QED
    BY <2>1, <2>2
<1> QED
  BY <1>6, <1>7, <1>8 DEF OnItsWay

\* Reading changes nothing of what is on its way.
LEMMA ReadOnItsWay ==
  ASSUME TypeOK, OnItsWay, NEW c \in Bases, ReadFile(c)
  PROVE  OnItsWay'
<1>1. /\ \A b \in Bases : /\ readable(files'[b]) = readable(files[b])
                          /\ files'[b].s = files[b].s
      /\ UNCHANGED <<inbox, scheduled, job, main, version>>
  BY Types, AfterReadFile DEF ReadFile, TypeOK
<1>2. Saved'
  BY <1>1, Types, EntryType DEF OnItsWay, Saved, Writing
<1>3. Coming' = Coming
  BY <1>1 DEF Coming, Writing
<1> QED
  BY <1>1, <1>2, <1>3 DEF OnItsWay, AwaitedIsLast, Latest, Waiting, Writing

\* writeSyncAll is posted behind all that is on its way.
LEMMA SyncOnItsWay ==
  ASSUME TypeOK, OnItsWay, NEW then \in {"idle", "finished"}, Sync(then)
  PROVE  OnItsWay'
<1> DEFINE n == Len(inbox) + 1
<1>1. /\ DOMAIN inbox' = 1 .. n /\ inbox'[n] = [do |-> "writeSyncAll"]
      /\ \A i \in DOMAIN inbox : inbox'[i] = inbox[i]
      /\ DOMAIN inbox = 1 .. n - 1 /\ n \in Nat \ {0}
  BY DEF TypeOK, Sync, Posts
<1> HIDE DEF n
<1>2. \A i \in DOMAIN inbox : inbox[i].do \notin Awaited
  BY DEF TypeOK, Sync, Idle
<1>3. AwaitedIsLast'
  <2>1. \A i \in DOMAIN inbox' : inbox'[i].do \in Awaited => i = n
    BY <1>1, <1>2
  <2>2. \A j \in DOMAIN inbox' : ~(j > n)
    BY <1>1
  <2> QED
    BY <1>1, <2>1, <2>2 DEF AwaitedIsLast
<1>4. \A i \in Coming : i \in Coming' /\ inbox'[i] = inbox[i]
  BY <1>1 DEF Coming, Writing, Sync
<1>5. \A x \in Entry : Waiting(x) => Waiting(x)'
  BY <1>4 DEF Waiting, Writing, Sync
<1>6. main'.at # "clearing" /\ Saved' /\ \A b \in Bases : Latest(b)'
  BY <1>5 DEF OnItsWay, Saved, Latest, Writing, Sync, Waits
<1> QED
  BY <1>3, <1>6 DEF OnItsWay

\* What was posted is scheduled.
LEMMA RunWriteOnItsWay ==
  ASSUME TypeOK, InOrder, OnItsWay, RunWrite
  PROVE  Saved' /\ AwaitedIsLast' /\ \A b \in Bases : Latest(b)'
<1> DEFINE e == inbox[1].entry
<1>1. /\ job = Idle /\ job' = Idle /\ inbox # <<>>
      /\ Head(inbox) = inbox[1] /\ 1 \in Coming
      /\ \A i \in Coming : i \in Nat /\ i > 0
      /\ UNCHANGED <<files, version>>
      /\ TaskDone(scheduleWrite)
  BY DEF RunWrite, Runs, Coming, Writing, TypeOK
<1>2. e \in Entry /\ e.base \in Bases /\ e.v \in Nat /\ e.v <= version[e.base]
  BY <1>1, Types, EntryType DEF InOrder, ComingInOrder, Newer, Ahead
<1>3. Saved' /\ AwaitedIsLast'
  BY <1>1, AwaitedMovesUp DEF Saved, Writing, OnItsWay
<1>4. \A i \in Coming : i > 1 => i - 1 \in Coming' /\ inbox'[i - 1] = inbox[i]
  BY <1>1, ComingMovesUp DEF InOrder
<1> HIDE DEF e
<1>5. /\ \E k \in DOMAIN scheduled' : scheduled'[k] = e
      /\ \A k \in DOMAIN scheduled : scheduled[k].base # e.base =>
           \E l \in DOMAIN scheduled' : scheduled'[l] = scheduled[k]
  <2>1. CASE Scheduled(e.base) = {}
    <3>1. scheduled' = Append(scheduled, e)
      BY <1>1, <2>1 DEF RunWrite, e
    <3>2. /\ DOMAIN scheduled' = 1 .. Len(scheduled) + 1
          /\ scheduled'[Len(scheduled) + 1] = e
          /\ DOMAIN scheduled = 1 .. Len(scheduled) /\ Len(scheduled) \in Nat
          /\ \A k \in DOMAIN scheduled : scheduled'[k] = scheduled[k]
      BY <1>2, <3>1 DEF TypeOK
    <3> QED
      BY <3>2
  <2>2. CASE Scheduled(e.base) # {}
    <3>1. PICK m \in DOMAIN scheduled :
            scheduled[m].base = e.base /\ scheduled' = [scheduled EXCEPT ![m] = e]
      BY <1>1, <2>2 DEF RunWrite, Scheduled, e
    <3> QED
      BY <3>1 DEF TypeOK
  <2> QED
    BY <2>1, <2>2
<1>6. ASSUME NEW b \in Bases PROVE Latest(b)'
  <2>1. ASSUME NEW x \in Entry, x.base = b, x.v = version[b], Waiting(x)
        PROVE  Waiting(x)'
    <3>1. CASE x = e
      BY <1>5, <3>1 DEF Waiting
    <3>2. ASSUME NEW k \in DOMAIN scheduled, scheduled[k] = x
          PROVE  Waiting(x)'
      <4>1. scheduled[k].base # e.base
        BY <1>1, <1>2, <2>1, <3>2, EntryType DEF InOrder, ComingInOrder, e
      <4> QED
        BY <1>5, <3>2, <4>1 DEF Waiting
    <3>3. ASSUME NEW i \in Coming, i > 1, inbox[i].entry = x
          PROVE  Waiting(x)'
      BY <1>4, <3>3 DEF Waiting
    <3>4. \A i \in Coming : i = 1 \/ i > 1
      BY <1>1
    <3> QED
      BY <1>1, <2>1, <3>1, <3>2, <3>3, <3>4 DEF Waiting, Writing, e
  <2> QED
    BY <1>1, <2>1, LatestStays DEF OnItsWay
<1> QED
  BY <1>3, <1>6

\* The task that is done brought nothing.
LEMMA RunEmptyOnItsWay ==
  ASSUME TypeOK, InOrder, OnItsWay, RunEmpty
  PROVE  Saved' /\ AwaitedIsLast' /\ \A b \in Bases : Latest(b)'
<1>1. /\ job = Idle /\ job' = Idle /\ inbox # <<>> /\ Head(inbox) = inbox[1]
      /\ UNCHANGED <<files, version, scheduled>> /\ TaskDone(<<>>)
      /\ 1 \notin Coming /\ \A i \in Coming : i \in Nat /\ i > 0
  BY DEF RunEmpty, Runs, Coming, TypeOK
<1>2. Saved' /\ AwaitedIsLast'
  BY <1>1, AwaitedMovesUp DEF Saved, Writing, OnItsWay
<1>3. \A i \in Coming : i > 1 /\ i - 1 \in Coming' /\ inbox'[i - 1] = inbox[i]
  <2>1. \A i \in Coming : i > 1
    BY <1>1
  <2> QED
    BY <1>1, <2>1, ComingMovesUp DEF InOrder
<1>4. \A x \in Entry : Waiting(x) => Waiting(x)'
  BY <1>1, <1>3 DEF Waiting, Writing
<1> QED
  BY <1>1, <1>2, <1>4 DEF OnItsWay, Latest

\* An entry that is taken from the queues is the one being written.
LEMMA StartsOnItsWay ==
  ASSUME TypeOK, OnItsWay, job = Idle, NEW e \in Entry, StartsWriteNow(e),
         UNCHANGED <<files, inbox, main, version>>,
         \A k \in DOMAIN scheduled :
           \/ scheduled[k] = e \/ scheduled[k].v < version[scheduled[k].base]
           \/ \E l \in DOMAIN scheduled' : scheduled'[l] = scheduled[k],
         \A i \in Coming : i = 1 => inbox[i].entry = e
  PROVE  Saved' /\ AwaitedIsLast' /\ \A b \in Bases : Latest(b)'
<1>1. job' = [at |-> "save", entry |-> e] /\ job' # Idle
  BY DEF StartsWriteNow, Idle
<1>2. Saved' /\ AwaitedIsLast'
  BY <1>1 DEF Saved, OnItsWay, AwaitedIsLast
<1>3. \A i \in Coming : inbox[i].entry = e \/ i \in Coming'
  BY DEF Coming, Writing
<1>4. ASSUME NEW b \in Bases PROVE Latest(b)'
  <2>1. ASSUME NEW x \in Entry, x.base = b, x.v = version[b], Waiting(x)
        PROVE  Waiting(x)'
    <3>1. CASE x = e
      BY <1>1, <3>1 DEF Waiting, Writing
    <3>2. ASSUME NEW k \in DOMAIN scheduled, scheduled[k] = x, x # e
          PROVE  Waiting(x)'
      <4>1. ~(x.v < version[x.base])
        BY <2>1, Types
      <4> QED
        BY <3>2, <4>1 DEF Waiting
    <3>3. ASSUME NEW i \in Coming, inbox[i].entry = x, x # e
          PROVE  Waiting(x)'
      BY <1>3, <3>3 DEF Waiting
    <3> QED
      BY <2>1, <3>1, <3>2, <3>3 DEF Waiting, Writing
  <2> QED
    BY <2>1, LatestStays DEF OnItsWay
<1> QED
  BY <1>2, <1>4

\* What was posted is being written; what it replaces was older.
LEMMA RunWriteSyncOnItsWay ==
  ASSUME TypeOK, InOrder, OnItsWay, RunWriteSync
  PROVE  Saved' /\ AwaitedIsLast' /\ \A b \in Bases : Latest(b)'
<1> DEFINE e == inbox[1].entry
<1>1. /\ job = Idle /\ inbox # <<>> /\ Head(inbox) = inbox[1] /\ 1 \in Coming
      /\ StartsWriteNow(e) /\ scheduled' = unscheduled(e.base)
      /\ UNCHANGED <<files, inbox, main, version>>
  BY DEF RunWriteSync, Runs, Coming, Writing, TypeOK
<1>2. e \in Entry /\ e.base \in Bases /\ e.v \in Nat /\ e.v <= version[e.base]
  BY <1>1, Types, EntryType DEF InOrder, ComingInOrder, Newer, Ahead
<1>3. \A k \in DOMAIN scheduled :
        scheduled[k].base = e.base => scheduled[k].v < e.v
  BY <1>1 DEF InOrder, ComingInOrder
<1> HIDE DEF e
<1>4. \A k \in DOMAIN scheduled : scheduled[k].base # e.base =>
        \E l \in DOMAIN scheduled' : scheduled'[l] = scheduled[k]
  BY <1>1, <1>2, UnscheduledType DEF TypeOK, InOrder, ScheduledInOrder
<1>5. \A k \in DOMAIN scheduled :
        \/ scheduled[k].v < version[scheduled[k].base]
        \/ \E l \in DOMAIN scheduled' : scheduled'[l] = scheduled[k]
  BY <1>2, <1>3, <1>4, Types, EntryType
<1> QED
  BY <1>1, <1>2, <1>5, StartsOnItsWay DEF e

\* What was scheduled is being written.
LEMMA RunScheduledOnItsWay ==
  ASSUME TypeOK, InOrder, OnItsWay, RunScheduled
  PROVE  Saved' /\ AwaitedIsLast' /\ \A b \in Bases : Latest(b)'
<1> DEFINE e == scheduled[1]
<1>1. /\ job = Idle /\ inbox # <<>> /\ Head(inbox) = inbox[1] /\ 1 \notin Coming
      /\ StartsWriteNow(e) /\ scheduled' = Tail(scheduled)
      /\ scheduled # <<>> /\ 1 \in DOMAIN scheduled /\ e \in Entry
      /\ UNCHANGED <<files, inbox, main, version>>
  BY DEF RunScheduled, Runs, Coming, TypeOK
<1>2. \A k \in DOMAIN scheduled : k # 1 =>
        k - 1 \in DOMAIN scheduled' /\ scheduled'[k - 1] = scheduled[k]
  BY <1>1 DEF TypeOK
<1>3. \A k \in DOMAIN scheduled :
        \/ scheduled[k] = e
        \/ \E l \in DOMAIN scheduled' : scheduled'[l] = scheduled[k]
  BY <1>2
<1> HIDE DEF e
<1> QED
  BY <1>1, <1>3, StartsOnItsWay

\* What an operation of writeNow does while nothing fails.
LEMMA WriteNowSaves ==
  ASSUME TypeOK, InOrder, Saved, writeNow, Failures = {}
  PROVE  LET b == job.entry.base IN
         /\ Writing /\ b \in Bases /\ inbox # <<>>
         /\ version' = version /\ scheduled' = scheduled
         /\ \A c \in Bases : c # b => files'[c] = files[c]
         /\ files'[b].s = job.entry.v /\ readable(files'[b]) = job.entry.v
         /\ job.at # "save" => readable(files[b]) = job.entry.v
         /\ \/ /\ job' = [at |-> "removeSimple", entry |-> job.entry]
               /\ inbox' = inbox /\ main' = main
            \/ /\ job' = [at |-> "removeBackup", entry |-> job.entry]
               /\ job.at # "save" /\ inbox' = inbox /\ main' = main
            \/ Returns /\ job' = Idle /\ job.at # "save"
<1> DEFINE e == job.entry
           f == files[e.base]
           g == files'[e.base]
<1>1. /\ Writing /\ e.base \in Bases /\ e.v \in Nat /\ e.v > 0 /\ f \in Files
      /\ files' \in [Bases -> Files] /\ g \in Files /\ inbox # <<>>
      /\ job \in [at : Steps, entry : Entry]
      /\ \A c \in Bases : c # e.base => files'[c] = files[c]
      /\ here = f
      /\ job.at \in {"save", "removeSimple", "removeBackup"}
      /\ job.at # "save" => f.s = e.v
  BY WriteNowStep, Types, EntryType DEF InOrder, JobIsBacked, Saved, TypeOK,
    Writing, here
<1>2. \A h \in Files : h.s = e.v => readable(h) = e.v
  BY <1>1, ReadableType DEF Absent, Torn
<1>3. \A h \in Files : Puts(h) => g = h
  BY <1>1 DEF Puts, TypeOK
<1>4. CASE Save
  <2>1. /\ Puts([f EXCEPT !.s = e.v]) /\ Continues("removeSimple")
    BY <1>1, <1>4 DEF Save, Fails
  <2>2. g.s = e.v /\ job.at = "save"
    BY <1>1, <1>3, <1>4, <2>1 DEF Files, Save, Doing
  <2> QED
    BY <1>1, <1>2, <2>1, <2>2 DEF Continues, Goes
<1>5. CASE RemoveSimple
  <2>1. /\ g.s = f.s /\ job.at # "save"
    BY <1>1, <1>3, <1>5 DEF RemoveSimple, Doing, Files, Absent
  <2> QED
    BY <1>1, <1>2, <1>5, <2>1 DEF RemoveSimple, Continues, Goes
<1>6. CASE RemoveBackup
  <2>1. /\ g.s = f.s /\ job.at # "save"
    BY <1>1, <1>3, <1>6 DEF RemoveBackup, Doing, Files, Absent
  <2> QED
    BY <1>1, <1>2, <1>6, <2>1 DEF RemoveBackup, Returns
<1>7. CASE Open \/ Fill \/ DropBackup \/ Rename \/ DropSafe
  BY <1>1, <1>7 DEF Open, Fill, DropBackup, Rename, DropSafe, Doing
<1> QED
  BY <1>4, <1>5, <1>6, <1>7 DEF writeNow

\* What was being written is on disk.
LEMMA WriteNowOnItsWay ==
  ASSUME TypeOK, InOrder, OnItsWay, writeNow, Failures = {}
  PROVE  Saved' /\ AwaitedIsLast' /\ \A b \in Bases : Latest(b)'
<1> DEFINE e == job.entry
<1>1. /\ Writing /\ e.base \in Bases /\ inbox # <<>>
      /\ version' = version /\ scheduled' = scheduled
      /\ \A c \in Bases : c # e.base => files'[c] = files[c]
      /\ files'[e.base].s = e.v /\ readable(files'[e.base]) = e.v
      /\ job.at # "save" => readable(files[e.base]) = e.v
      /\ \/ /\ job' = [at |-> "removeSimple", entry |-> e]
            /\ inbox' = inbox /\ main' = main
         \/ /\ job' = [at |-> "removeBackup", entry |-> e]
            /\ job.at # "save" /\ inbox' = inbox /\ main' = main
         \/ Returns /\ job' = Idle /\ job.at # "save"
  BY WriteNowSaves DEF OnItsWay
<1>2. Saved'
  BY <1>1 DEF Saved, Writing
<1>3. \/ inbox' = inbox /\ main' = main
      \/ \E p \in {<<>>, scheduleWrite} : TaskDone(p) /\ job' = Idle
  BY <1>1 DEF Returns
<1>4. AwaitedIsLast'
  BY <1>1, <1>3, AwaitedMovesUp DEF OnItsWay, AwaitedIsLast
<1>5. \A i \in Coming : \E k \in Coming' : inbox'[k] = inbox[i]
  <2>1. \A i \in Coming : i > 1
    BY <1>1, Types DEF Coming
  <2>2. CASE inbox' = inbox
    BY <2>1, <2>2 DEF Coming
  <2>3. CASE \E p \in {<<>>, scheduleWrite} : TaskDone(p) /\ job' = Idle
    BY <1>1, <2>1, <2>3, ComingMovesUp DEF InOrder
  <2> QED
    BY <1>3, <2>2, <2>3
<1>6. e \in Entry /\ e.v \in Nat /\ e.v <= version[e.base]
      /\ (job.at = "save" => readable(files[e.base]) < e.v)
  <2>1. e \in Entry /\ e.v \in Nat /\ e.v > 0 /\ e.v <= version[e.base]
    BY <1>1, Types, EntryType DEF InOrder, JobIsBacked
  <2>2. job.at = "save" => UpTo(files[e.base], e.v - 1)
    BY <1>1 DEF InOrder, JobIsBacked
  <2>3. job.at = "save" => readable(files[e.base]) <= e.v - 1
    BY <1>1, <2>1, <2>2, Types, ReadableType
  <2>4. readable(files[e.base]) \in Nat
    BY <1>1, Types, ReadableType
  <2> QED
    BY <2>1, <2>3, <2>4
<1>7. ASSUME NEW b \in Bases PROVE Latest(b)'
  <2>1. readable(files[b]) = version[b] => readable(files'[b]) = version[b]
    <3>1. CASE b # e.base
      BY <1>1, <3>1
    <3>2. CASE b = e.base
      <4>1. readable(files[b]) \in Nat /\ version[b] \in Nat
        BY Types, ReadableType
      <4> QED
        BY <1>1, <1>6, <3>2, <4>1
    <3> QED
      BY <3>1, <3>2
  <2>2. ASSUME NEW x \in Entry, x.base = b, x.v = version[b], Waiting(x)
        PROVE  Waiting(x)' \/ readable(files'[b]) = version[b]
    <3>1. CASE x = e
      BY <1>1, <2>2, <3>1
    <3>2. CASE x # e
      BY <1>1, <1>5, <2>2, <3>2 DEF Waiting
    <3> QED
      BY <3>1, <3>2
  <2> QED
    BY <1>1, <2>1, <2>2, LatestStays DEF OnItsWay
<1> QED
  BY <1>2, <1>4, <1>7

\* The latest version stays on its way, one step per action.
LEMMA NextOnItsWay ==
  ASSUME TypeOK, InOrder, OnItsWay, [Main \/ Thread]_vars,
         ~Clears, Failures = {}
  PROVE  OnItsWay'
<1>1. main'.at # "clearing"
  BY NotClearing DEF OnItsWay, Next
<1>2. CASE Main
  BY <1>2, AskedOnItsWay, ReadOnItsWay, SyncOnItsWay
  DEF Main, StartClear, ClearOne, OnItsWay
<1>3. CASE Thread
  BY <1>1, <1>3, RunWriteOnItsWay, RunEmptyOnItsWay, RunWriteSyncOnItsWay,
    RunScheduledOnItsWay, WriteNowOnItsWay DEF Thread, OnItsWay
<1>4. CASE UNCHANGED vars
  BY <1>4 DEF vars, OnItsWay, Saved, AwaitedIsLast, Latest, Waiting, Coming,
    Writing
<1> QED
  BY <1>2, <1>3, <1>4

\* Who goes on finds what it waited for.
LEMMA GoesOn ==
  ASSUME TypeOK, InOrder, OnItsWay, Main \/ Thread, Failures = {},
         main.at = "waiting", main'.at # "waiting"
  PROVE  \A b \in main.bases : readable(files'[b]) = version[b]
<1>1. CASE Main
  <2>1. main # Idle /\ main.at # "clearing"
    BY DEF Idle
  <2>2. ~\E b \in Bases : Write(b) \/ WriteSync(b)
    BY <2>1 DEF Write, WriteSync, Asks
  <2>3. ~\E b \in Bases : ReadFile(b) \/ StartClear(b)
    BY <2>1 DEF ReadFile, StartClear
  <2>4. ~(ClearOne \/ \E then \in {"idle", "finished"} : Sync(then))
    BY <2>1 DEF ClearOne, Sync
  <2> QED
    BY <1>1, <2>2, <2>3, <2>4 DEF Main
<1>2. ASSUME inbox # <<>>, NEW p, TaskDone(p)
      PROVE  1 \in DOMAIN inbox /\ Head(inbox) = inbox[1]
             /\ inbox[1].do \in Awaited
  <2>1. 1 \in DOMAIN inbox /\ Head(inbox) = inbox[1]
    BY <1>2 DEF TypeOK
  <2> QED
    BY <1>2, <2>1 DEF TaskDone, woken
<1>3. CASE RunWrite \/ RunWriteSync \/ RunScheduled
  BY <1>2, <1>3 DEF RunWrite, RunWriteSync, RunScheduled, Runs, Awaited
<1>4. CASE RunEmpty
  <2>1. /\ job = Idle /\ scheduled = <<>> /\ files' = files
        /\ 1 \in DOMAIN inbox /\ inbox[1].do = "writeSyncAll"
    BY <1>2, <1>4 DEF RunEmpty, Runs, Awaited
  <2>2. Coming = {}
    <3>1. \A j \in DOMAIN inbox : j = 1 \/ j > 1
      BY Types
    <3>2. \A j \in DOMAIN inbox : inbox[j].do \notin {"write", "writeSync"}
      BY <2>1, <3>1 DEF OnItsWay, AwaitedIsLast, Awaited
    <3> QED
      BY <3>2 DEF Coming
  <2>3. \A x \in Entry : ~Waiting(x)
    BY <2>1, <2>2 DEF Waiting, Writing
  <2>4. main.bases \subseteq Bases
    BY MainType DEF TypeOK
  <2> QED
    BY <2>1, <2>3, <2>4 DEF OnItsWay, Latest
<1>5. CASE writeNow
  <2> DEFINE e == job.entry
  <2>1. /\ Writing /\ inbox # <<>> /\ Returns
        /\ readable(files'[e.base]) = e.v
    BY <1>5, WriteNowSaves DEF OnItsWay
  <2>2. \E p : TaskDone(p)
    BY <2>1 DEF Returns
  <2>3. /\ 1 \in DOMAIN inbox /\ Head(inbox) = inbox[1]
        /\ inbox[1].do = "writeSync"
    BY <1>2, <2>1, <2>2 DEF Returns, loops, Awaited
  <2>4. inbox[1].entry = e
    BY <2>1, <2>3 DEF InOrder, JobIsBacked
  <2>5. main.bases = {e.base} /\ e.v = version[e.base]
    BY <2>3, <2>4 DEF OnItsWay, AwaitedIsLast, Awaited
  <2> QED
    BY <2>1, <2>5
<1> QED
  BY <1>1, <1>3, <1>4, <1>5 DEF Thread

(***************************************************************************)
(* When nothing fails, and files are not cleared, the main thread goes on  *)
(* after Sync or a synchronous write only when what it waited for is on    *)
(* disk in its latest version (with_sync, writeSync, writeSyncAll).        *)
(***************************************************************************)
THEOREM WaitingIsForDisk ==
  ASSUME ~Clears, Failures = {}
  PROVE  RunningSpec => SyncWaitsForDisk
<1> DEFINE Inv == TypeOK /\ InOrder /\ OnItsWay
<1>1. Init => Inv
  <2> SUFFICES ASSUME Init PROVE OnItsWay
    BY InitInOrder
  <2>1. \A b \in Bases : readable(files[b]) = version[b]
    BY DEF Init
  <2> QED
    BY <2>1 DEF Init, OnItsWay, Saved, AwaitedIsLast, Latest, Writing, Idle
<1>2. Inv /\ [Main \/ Thread]_vars => Inv'
  BY NextInOrder, StutterInOrder, NextOnItsWay DEF Next
<1>3. Inv /\ [Main \/ Thread]_vars =>
        [main.at = "waiting" /\ main'.at # "waiting" =>
           \A b \in main.bases : readable(files'[b]) = version[b]]_vars
  BY GoesOn
<1> QED
  BY <1>1, <1>2, <1>3, PTL DEF RunningSpec, SyncWaitsForDisk

-----------------------------------------------------------------------------
(***************************************************************************)
(* The files implement the store.                                          *)
(***************************************************************************)
\* Of the old files the newer one is cleared last.
Orderly(f) ==
  /\ f.s # Torn
  /\ f.zero \notin {Absent, Torn} /\ f.one \notin {Absent, Torn} =>
       f.newer = "one"

SavedOrCleared ==
  Writing =>
    LET f == files[job.entry.base] IN
    /\ job.at \in {"save", "removeSimple", "removeBackup"}
    /\ job.at # "save" =>
         \/ f.s = job.entry.v
         \/ f.s = Absent /\ f.zero = Absent /\ f.one = Absent

ClearedSoFar ==
  main.at = "clearing" =>
    /\ main.left # <<"zero", "one", "s">> => files[main.base].zero = Absent
    /\ main.left = <<"s">> => files[main.base].one = Absent

StoreInv ==
  (\A b \in Bases : Orderly(files[b])) /\ SavedOrCleared /\ ClearedSoFar

\* Each file that is cleared leaves what was read, or nothing.
LEMMA ClearedReads ==
  ASSUME NEW f \in Files, Orderly(f), NEW name \in {"zero", "one", "s"},
         name # "zero" => f.zero = Absent, name = "s" => f.one = Absent
  PROVE  LET g == [f EXCEPT ![name] = Absent] IN
         /\ g \in Files /\ Orderly(g) /\ g[name] = Absent
         /\ readable(g) \in {readable(f), Absent}
         /\ name # "s" => g.s = f.s
         /\ f.zero = Absent => g.zero = Absent
         /\ f.one = Absent => g.one = Absent
         /\ f.s = Absent => g.s = Absent
<1>1. CASE name = "zero"
  <2> DEFINE g == [f EXCEPT !.zero = Absent]
  <2>1. /\ g \in Files /\ g.s = f.s /\ g.one = f.one /\ g.newer = f.newer
        /\ g.zero = Absent
    BY DEF Files, Absent
  <2> HIDE DEF g
  <2>2. readable(g) \in {readable(f), Absent}
    <3>1. CASE f.s # Absent
      BY <2>1, <3>1, ReadableType DEF Orderly
    <3>2. CASE f.s = Absent
      <4>1. readable(g) = IF f.one = Torn THEN Absent ELSE f.one
        BY <2>1, <3>2 DEF readable, toTry
      <4>2. f.zero = Absent => readable(f) = readable(g)
        BY <3>2, <4>1 DEF readable, toTry
      <4>3. f.zero # Absent /\ f.one \notin {Absent, Torn} => readable(f) = f.one
        BY <3>2 DEF readable, toTry, Orderly, Absent, Torn
      <4> QED
        BY <4>1, <4>2, <4>3
    <3> QED
      BY <3>1, <3>2
  <2>3. Orderly(g)
    BY <2>1 DEF Orderly
  <2> QED
    BY <1>1, <2>1, <2>2, <2>3 DEF g
<1>2. CASE name = "one"
  <2> DEFINE g == [f EXCEPT !.one = Absent]
  <2>1. /\ g \in Files /\ g.s = f.s /\ g.zero = Absent /\ g.one = Absent
        /\ f.zero = Absent
    BY <1>2 DEF Files, Absent
  <2> HIDE DEF g
  <2>2. readable(g) \in {readable(f), Absent}
    <3>1. CASE f.s # Absent
      BY <2>1, <3>1, ReadableType DEF Orderly
    <3>2. CASE f.s = Absent
      BY <2>1, <3>2 DEF readable, toTry, Absent, Torn
    <3> QED
      BY <3>1, <3>2
  <2>3. Orderly(g)
    BY <2>1 DEF Orderly
  <2> QED
    BY <1>2, <2>1, <2>2, <2>3 DEF g
<1>3. CASE name = "s"
  <2> DEFINE g == [f EXCEPT !.s = Absent]
  <2>1. /\ g \in Files /\ g.s = Absent /\ g.zero = Absent /\ g.one = Absent
        /\ f.zero = Absent /\ f.one = Absent
    BY <1>3 DEF Files, Absent
  <2> HIDE DEF g
  <2>2. readable(g) = Absent
    BY <2>1 DEF readable, toTry, Absent, Torn
  <2>3. Orderly(g)
    BY <2>1 DEF Orderly, Absent, Torn
  <2> QED
    BY <1>3, <2>1, <2>2, <2>3 DEF g
<1> QED
  BY <1>1, <1>2, <1>3

\* The base being cleared, if any, as a set.
Clearing == IF main.at = "clearing" THEN {main.base} ELSE {}

\* A task that is done ends no clearing.
LEMMA TaskDoneClearing ==
  ASSUME TypeOK, inbox # <<>>, NEW p, TaskDone(p)
  PROVE  \/ main' = main
         \/ main.at = "waiting" /\ main'.at \in {"idle", "finished"}
<1>1. 1 \in DOMAIN inbox /\ Head(inbox) = inbox[1]
  BY DEF TypeOK
<1> QED
  BY <1>1, MainType DEF TypeOK, TaskDone, woken

\* What an operation of writeNow does while nothing fails, though the
\* files may be cleared meanwhile.
LEMMA WriteNowStores ==
  ASSUME TypeOK, InOrder, StoreInv, writeNow, Failures = {}
  PROVE  LET b == job.entry.base IN
         /\ Writing /\ b \in Bases /\ files' \in [Bases -> Files]
         /\ version' = version
         /\ \A c \in Bases : c # b => files'[c] = files[c]
         /\ IF job.at = "save"
            THEN /\ readable(files[b]) < job.entry.v
                 /\ readable(files'[b]) = job.entry.v
                 /\ job.entry.v <= version[b]
            ELSE readable(files'[b]) = readable(files[b])
         /\ Orderly(files'[b])
         /\ files'[b].zero \in {files[b].zero, Absent}
         /\ files'[b].one \in {files[b].one, Absent}
         /\ \/ files'[b].s = job.entry.v
            \/ /\ files'[b].s = Absent /\ files'[b].zero = Absent
               /\ files'[b].one = Absent
         /\ \/ /\ main' = main
               /\ job'.entry = job.entry
               /\ job'.at \in {"removeSimple", "removeBackup"}
            \/ Returns /\ job' = Idle
<1> DEFINE e == job.entry
           f == files[e.base]
           g == files'[e.base]
<1>1. /\ Writing /\ e.base \in Bases /\ e.v \in Nat /\ e.v > 0 /\ f \in Files
      /\ e.v <= version[e.base]
      /\ files' \in [Bases -> Files] /\ g \in Files
      /\ job \in [at : Steps, entry : Entry]
      /\ \A c \in Bases : c # e.base => files'[c] = files[c]
      /\ here = f /\ Orderly(f)
      /\ job.at \in {"save", "removeSimple", "removeBackup"}
      /\ job.at # "save" =>
           f.s = e.v \/ (f.s = Absent /\ f.zero = Absent /\ f.one = Absent)
  BY WriteNowStep, Types, EntryType DEF InOrder, JobIsBacked, StoreInv,
    SavedOrCleared, TypeOK, Writing, here
<1>2. \A h \in Files : h.s = e.v => readable(h) = e.v
  BY <1>1, ReadableType DEF Absent, Torn
<1>3. \A h \in Files : Puts(h) => g = h
  BY <1>1 DEF Puts, TypeOK
<1>4. CASE Save
  <2>1. /\ Puts([f EXCEPT !.s = e.v]) /\ Continues("removeSimple")
        /\ job.at = "save"
    BY <1>1, <1>4 DEF Save, Fails, Doing
  <2>2. /\ g.s = e.v /\ g.zero = f.zero /\ g.one = f.one /\ g.newer = f.newer
    BY <1>1, <1>3, <2>1 DEF Files
  <2>3. readable(f) < e.v
    <3>1. UpTo(f, e.v - 1) /\ e.v - 1 \in Nat
      BY <1>1, <2>1 DEF InOrder, JobIsBacked
    <3> HIDE DEF e, f
    <3>2. readable(f) <= e.v - 1 /\ readable(f) \in Nat
      BY <1>1, <3>1, ReadableType
    <3> QED
      BY <1>1, <3>2
  <2>4. Orderly(g)
    BY <1>1, <2>2 DEF Orderly, Torn
  <2> QED
    BY <1>1, <1>2, <2>1, <2>2, <2>3, <2>4 DEF Continues, Goes
<1>5. CASE RemoveSimple \/ RemoveBackup
  <2>1. /\ g.s = f.s /\ g.newer = f.newer /\ job.at # "save"
        /\ g.zero \in {f.zero, Absent} /\ g.one \in {f.one, Absent}
    BY <1>1, <1>3, <1>5 DEF RemoveSimple, RemoveBackup, Doing, Files, Absent
  <2>2. Orderly(g)
    BY <1>1, <2>1 DEF Orderly
  <2>3. readable(g) = readable(f)
    <3>1. CASE f.s = e.v
      BY <1>1, <1>2, <2>1, <3>1
    <3>2. CASE f.s = Absent /\ f.zero = Absent /\ f.one = Absent
      BY <2>1, <3>2 DEF readable, toTry
    <3> QED
      BY <1>1, <2>1, <3>1, <3>2
  <2>4. version' = version
    BY <1>5 DEF RemoveSimple, RemoveBackup, Continues, Returns
  <2>5. \/ main' = main /\ job'.entry = e /\ job'.at = "removeBackup"
        \/ Returns /\ job' = Idle
    BY <1>1, <1>5 DEF RemoveSimple, RemoveBackup, Continues, Goes, Returns
  <2> QED
    BY <1>1, <2>1, <2>2, <2>3, <2>4, <2>5
<1>6. CASE Open \/ Fill \/ DropBackup \/ Rename \/ DropSafe
  BY <1>1, <1>6 DEF Open, Fill, DropBackup, Rename, DropSafe, Doing
<1> QED
  BY <1>4, <1>5, <1>6 DEF writeNow

Found == [b \in Bases |-> readable(files[b])]

\* The steps of the store.
LEMMA StoreSteps ==
  ASSUME \/ UNCHANGED <<version, Found, Clearing>>
         \/ \E b \in Bases :
              /\ version' = [version EXCEPT ![b] = @ + 1]
              /\ UNCHANGED <<Found, Clearing>>
         \/ \E b \in Bases :
              /\ \E v \in Found[b] + 1 .. version[b] :
                   Found' = [Found EXCEPT ![b] = v]
              /\ UNCHANGED <<version, Clearing>>
         \/ \E b \in Bases :
              /\ Clearing = {} /\ Clearing' = {b}
              /\ UNCHANGED <<version, Found>>
         \/ \E b \in Bases :
              /\ b \in Clearing /\ Found' = [Found EXCEPT ![b] = Absent]
              /\ Clearing' \in {Clearing, {}}
              /\ version' = version
         \/ Clearing' = {} /\ UNCHANGED <<version, Found>>
  PROVE  [Store!Next]_(Store!vars)
BY DEF Found, Clearing, Absent, Store!Next, Store!vars, Store!Ask,
  Store!Persist, Store!StartClear, Store!Forget, Store!EndClear, Store!NotFound

\* What is found when at most the files of b change.
LEMMA FoundAt ==
  ASSUME NEW b \in Bases, \A c \in Bases : c # b => files'[c] = files[c]
  PROVE  Found' = [Found EXCEPT ![b] = readable(files'[b])]
BY DEF Found

\* Steps that leave the files alone.
LEMMA QuietStores ==
  ASSUME StoreInv, files' = files,
         \/ job' = job \/ job' = Idle
         \/ \E e : job' = [at |-> "save", entry |-> e],
         main' = main \/ main'.at # "clearing"
  PROVE  /\ StoreInv'
         /\ Found' = Found
         /\ Clearing' \in {Clearing, {}}
<1>1. SavedOrCleared'
  BY DEF StoreInv, SavedOrCleared, Writing
<1>2. ClearedSoFar'
  BY DEF StoreInv, ClearedSoFar
<1> QED
  BY <1>1, <1>2 DEF StoreInv, Found, Clearing

\* The steps of the main thread but for clearing.
LEMMA MainStores ==
  ASSUME TypeOK, InOrder, StoreInv, Failures = {},
         \/ \E b \in Bases : Write(b) \/ WriteSync(b) \/ ReadFile(b) \/ StartClear(b)
         \/ \E then \in {"idle", "finished"} : Sync(then)
  PROVE  StoreInv' /\ [Store!Next]_(Store!vars)
<1>0. main = Idle /\ main.at # "clearing" /\ Clearing = {}
  <2>1. main = Idle
    BY DEF Write, WriteSync, ReadFile, StartClear, Sync, Asks
  <2> QED
    BY <2>1 DEF Idle, Clearing
<1>1. ASSUME NEW b \in Bases, Write(b) \/ WriteSync(b)
      PROVE  StoreInv' /\ [Store!Next]_(Store!vars)
  <2>1. /\ files' = files /\ job' = job
        /\ version' = [version EXCEPT ![b] = @ + 1]
        /\ main' = main \/ main'.at # "clearing"
    BY <1>1 DEF Write, WriteSync, Asks, Waits
  <2>2. StoreInv' /\ Found' = Found /\ Clearing' = Clearing
    BY <1>0, <2>1, QuietStores
  <2> QED
    BY <2>1, <2>2, StoreSteps
<1>2. ASSUME NEW then, Sync(then)
      PROVE  StoreInv' /\ [Store!Next]_(Store!vars)
  <2>1. files' = files /\ job' = job /\ version' = version /\ main'.at # "clearing"
    BY <1>2 DEF Sync, Waits
  <2>2. StoreInv' /\ Found' = Found /\ Clearing' = Clearing
    BY <1>0, <2>1, QuietStores
  <2> QED
    BY <2>1, <2>2, StoreSteps
<1>3. ASSUME NEW b \in Bases, ReadFile(b)
      PROVE  StoreInv' /\ [Store!Next]_(Store!vars)
  <2> DEFINE f == files[b]
             g == afterReadFile(f)
  <2>1. /\ f \in Files /\ Orderly(f) /\ files' = [files EXCEPT ![b] = g]
        /\ files'[b] = g /\ \A c \in Bases : c # b => files'[c] = files[c]
        /\ UNCHANGED <<job, main, version>> /\ ~(Writing /\ job.entry.base = b)
    BY <1>3, Types DEF ReadFile, StoreInv, TypeOK, pending, Writing
  <2>2. /\ g \in Files /\ readable(g) = readable(f) /\ g.s = f.s
        /\ g.newer = f.newer
        /\ g.zero \in {f.zero, Absent} /\ g.one \in {f.one, Absent}
    BY <2>1, AfterReadFile
  <2> HIDE DEF g, f
  <2>3. Orderly(g)
    BY <2>1, <2>2 DEF Orderly
  <2>4. SavedOrCleared'
    BY <2>1, Types, EntryType DEF StoreInv, SavedOrCleared, Writing
  <2>5. StoreInv'
    BY <1>0, <2>1, <2>3, <2>4 DEF StoreInv, ClearedSoFar
  <2>6. Found' = Found
    BY <2>1, <2>2 DEF Found, f
  <2> QED
    BY <2>1, <2>5, <2>6, StoreSteps DEF Clearing
<1>4. ASSUME NEW b \in Bases, StartClear(b)
      PROVE  StoreInv' /\ [Store!Next]_(Store!vars)
  <2>1. /\ UNCHANGED <<files, job, version>> /\ main'.at = "clearing"
        /\ main'.base = b /\ main'.left = <<"zero", "one", "s">>
    BY <1>4 DEF StartClear, clearOrder
  <2>2. <<"zero", "one", "s">> # <<"s">>
    OBVIOUS
  <2>3. StoreInv'
    BY <2>1, <2>2 DEF StoreInv, SavedOrCleared, ClearedSoFar, Writing
  <2>4. Found' = Found /\ Clearing' = {b}
    BY <2>1 DEF Found, Clearing
  <2> QED
    BY <1>0, <2>1, <2>3, <2>4, StoreSteps
<1> QED
  BY <1>1, <1>2, <1>3, <1>4

\* Clearing forgets once, when what was read is removed.
LEMMA ClearOneStores ==
  ASSUME TypeOK, InOrder, StoreInv, ClearOne
  PROVE  StoreInv' /\ [Store!Next]_(Store!vars)
<1> DEFINE b == main.base
           name == Head(main.left)
           f == files[b]
           g == files'[b]
<1>1. /\ b \in Bases /\ f \in Files /\ Orderly(f)
      /\ g = [f EXCEPT ![name] = Absent]
      /\ \A c \in Bases : c # b => files'[c] = files[c]
      /\ UNCHANGED <<job, version>> /\ main.at = "clearing"
  BY ClearOneType, Types DEF TypeOK, StoreInv, ClearOne
<1>2. \/ /\ main.left = <<"zero", "one", "s">> /\ name = "zero"
         /\ main'.left = <<"one", "s">> /\ main'.at = "clearing" /\ main'.base = b
      \/ /\ main.left = <<"one", "s">> /\ name = "one" /\ f.zero = Absent
         /\ main'.left = <<"s">> /\ main'.at = "clearing" /\ main'.base = b
      \/ /\ main.left = <<"s">> /\ name = "s" /\ main' = Idle
         /\ f.zero = Absent /\ f.one = Absent
  <2>1. main \in [at : {"clearing"}, base : Bases,
                  left : {<<"zero", "one", "s">>, <<"one", "s">>, <<"s">>}]
    BY <1>1 DEF TypeOK, MainStates
  <2>2. CASE main.left = <<"zero", "one", "s">>
    BY <2>1, <2>2 DEF ClearOne
  <2>3. CASE main.left = <<"one", "s">>
    <3>1. main.left # <<"zero", "one", "s">>
      BY <2>3
    <3> QED
      BY <1>1, <2>1, <2>3, <3>1 DEF ClearOne, StoreInv, ClearedSoFar
  <2>4. CASE main.left = <<"s">>
    <3>1. main.left # <<"zero", "one", "s">>
      BY <2>4
    <3> QED
      BY <1>1, <2>1, <2>4, <3>1 DEF ClearOne, StoreInv, ClearedSoFar
  <2> QED
    BY <2>1, <2>2, <2>3, <2>4
<1>3. /\ g \in Files /\ Orderly(g) /\ g[name] = Absent
      /\ readable(g) \in {readable(f), Absent}
      /\ name # "s" => g.s = f.s
      /\ f.zero = Absent => g.zero = Absent
      /\ f.one = Absent => g.one = Absent
      /\ f.s = Absent => g.s = Absent
  <2>1. /\ name \in {"zero", "one", "s"}
        /\ name # "zero" => f.zero = Absent
        /\ name = "s" => f.one = Absent
    BY <1>2
  <2> HIDE DEF b, name, f, g
  <2> QED
    BY <1>1, <2>1, ClearedReads
<1>4. Found' = [Found EXCEPT ![b] = readable(g)] /\ Found[b] = readable(f)
  BY <1>1, FoundAt DEF Found
<1>5. Clearing = {b} /\ (Clearing' = {b} \/ Clearing' = {})
  BY <1>1, <1>2 DEF Clearing, Idle
<1> HIDE DEF b, name, f, g
<1>6. ClearedSoFar'
  <2>1. CASE main' = Idle
    BY <2>1 DEF ClearedSoFar, Idle
  <2>2. CASE main'.left = <<"one", "s">> /\ name = "zero" /\ main'.base = b
    <3>1. <<"one", "s">> # <<"s">>
      OBVIOUS
    <3> QED
      BY <1>3, <2>2, <3>1 DEF ClearedSoFar, g
  <2>3. CASE main'.left = <<"s">> /\ name = "one" /\ f.zero = Absent /\ main'.base = b
    BY <1>3, <2>3 DEF ClearedSoFar, g
  <2> QED
    BY <1>2, <2>1, <2>2, <2>3
<1>7. SavedOrCleared'
  <2> SUFFICES ASSUME Writing
      PROVE  LET h == files'[job.entry.base] IN
             /\ job.at \in {"save", "removeSimple", "removeBackup"}
             /\ job.at # "save" =>
                  \/ h.s = job.entry.v
                  \/ h.s = Absent /\ h.zero = Absent /\ h.one = Absent
    BY <1>1 DEF SavedOrCleared, Writing
  <2>1. CASE job.entry.base # b
    BY <1>1, <2>1, Types, EntryType DEF StoreInv, SavedOrCleared
  <2>2. CASE job.entry.base = b
    BY <1>2, <1>3, <2>2 DEF StoreInv, SavedOrCleared, f, g
  <2> QED
    BY <2>1, <2>2
<1>8. StoreInv'
  BY <1>1, <1>3, <1>6, <1>7 DEF StoreInv, g
<1>9. CASE readable(g) = Absent
  BY <1>1, <1>4, <1>5, <1>8, <1>9, StoreSteps
<1>10. CASE readable(g) = readable(f)
  <2>1. Found' = Found
    BY <1>1, <1>4, <1>10 DEF Found
  <2> QED
    BY <1>1, <1>5, <1>8, <2>1, StoreSteps
<1> QED
  BY <1>3, <1>9, <1>10

\* An operation of writeNow persists a version, or nothing changes.
LEMMA WriteNowImplements ==
  ASSUME TypeOK, InOrder, StoreInv, writeNow, Failures = {}
  PROVE  StoreInv' /\ [Store!Next]_(Store!vars)
<1> DEFINE e == job.entry
           b == e.base
           f == files[b]
           g == files'[b]
<1>1. /\ Writing /\ b \in Bases /\ version' = version
      /\ \A c \in Bases : c # b => files'[c] = files[c]
      /\ Orderly(g)
      /\ g.zero \in {f.zero, Absent} /\ g.one \in {f.one, Absent}
      /\ g.s = e.v \/ (g.s = Absent /\ g.zero = Absent /\ g.one = Absent)
  BY WriteNowStores
<1>2. IF job.at = "save"
      THEN /\ readable(f) < e.v /\ readable(g) = e.v /\ e.v <= version[b]
      ELSE readable(g) = readable(f)
  BY WriteNowStores
<1>3. \/ /\ main' = main /\ job'.entry = e
         /\ job'.at \in {"removeSimple", "removeBackup"}
      \/ Returns /\ job' = Idle
  BY WriteNowStores
<1>4. main' = main \/ (main.at = "waiting" /\ main'.at \in {"idle", "finished"})
  BY <1>1, <1>3, TaskDoneClearing DEF Returns, InOrder, JobIsBacked
<1>5. Clearing' = Clearing
  BY <1>4 DEF Clearing
<1>6. SavedOrCleared'
  BY <1>1, <1>3 DEF SavedOrCleared, Writing
<1>7. ClearedSoFar'
  <2>1. CASE main' = main
    <3>1. CASE main.at = "clearing" /\ main.base = b
      BY <1>1, <2>1, <3>1 DEF StoreInv, ClearedSoFar
    <3>2. CASE main.at = "clearing" /\ main.base # b
      <4>1. main.base \in Bases
        BY <3>2, MainType DEF TypeOK
      <4> QED
        BY <1>1, <2>1, <3>2, <4>1 DEF StoreInv, ClearedSoFar
    <3>3. CASE main.at # "clearing"
      BY <2>1, <3>3 DEF ClearedSoFar
    <3> QED
      BY <3>1, <3>2, <3>3
  <2>2. CASE main'.at \in {"idle", "finished"}
    BY <2>2 DEF ClearedSoFar
  <2> QED
    BY <1>4, <2>1, <2>2
<1>8. StoreInv'
  BY <1>1, <1>6, <1>7 DEF StoreInv
<1>9. Found' = [Found EXCEPT ![b] = readable(g)] /\ Found[b] = readable(f)
  BY <1>1, FoundAt DEF Found
<1>10. /\ readable(f) \in Nat /\ e.v \in Nat /\ version[b] \in Nat
  BY <1>1, Types, EntryType, ReadableType
<1> HIDE DEF e, b, f, g
<1>11. CASE job.at = "save"
  <2>1. e.v \in Found[b] + 1 .. version[b]
    BY <1>2, <1>9, <1>10, <1>11
  <2> QED
    BY <1>1, <1>2, <1>5, <1>8, <1>9, <1>11, <2>1, StoreSteps
<1>12. CASE job.at # "save"
  <2>1. Found' = Found
    BY <1>1, <1>2, <1>9, <1>12 DEF Found
  <2> QED
    BY <1>1, <1>5, <1>8, <2>1, StoreSteps
<1> QED
  BY <1>11, <1>12

\* Each step of the files is one of the store, or leaves it alone.
LEMMA NextStores ==
  ASSUME TypeOK, InOrder, StoreInv, [Next]_vars, Failures = {}
  PROVE  StoreInv' /\ [Store!Next]_(Store!vars)
<1>1. CASE \/ UNCHANGED vars \/ Crash
           \/ RunWrite \/ RunEmpty \/ RunWriteSync \/ RunScheduled
  <2>1. /\ files' = files /\ version' = version
        /\ \/ job' = job \/ job' = Idle
           \/ \E e : job' = [at |-> "save", entry |-> e]
    BY <1>1 DEF vars, Crash, RunWrite, RunEmpty, RunWriteSync, RunScheduled,
      StartsWriteNow
  <2>2. main' = main \/ main'.at # "clearing"
    BY <1>1, TaskDoneClearing DEF vars, Crash, RunWrite, RunEmpty,
      RunWriteSync, RunScheduled, Runs, Idle
  <2>3. StoreInv' /\ Found' = Found /\ Clearing' \in {Clearing, {}}
    BY <2>1, <2>2, QuietStores
  <2> QED
    BY <2>1, <2>3, StoreSteps
<1>2. CASE Main
  BY <1>2, MainStores, ClearOneStores DEF Main
<1>3. CASE writeNow
  BY <1>3, WriteNowImplements
<1> QED
  BY <1>1, <1>2, <1>3 DEF Next, Thread

(***************************************************************************)
(* While nothing fails, the files are a store (DurableStore): found is     *)
(* always a version asked for, never an older one than before, and only    *)
(* ClearKey makes it disappear, whatever the storage thread is doing and   *)
(* whenever the program crashes.  The one start left out is that of two    *)
(* old files the newer of which is the first to be cleared.                *)
(***************************************************************************)
THEOREM ImplementsTheStore ==
  ASSUME Failures = {}, "newer0" \notin Old
  PROVE  Spec => ImplementsStore
<1>1. Init => StoreInv /\ Store!Init
  <2> SUFFICES ASSUME Init PROVE StoreInv /\ Store!Init
    OBVIOUS
  <2>1. PICK old \in [Bases -> Old] : files = [b \in Bases |-> OldFiles(old[b])]
    BY DEF Init
  <2>2. \A k \in Old : OldFiles(k) \in Files /\ Orderly(OldFiles(k))
    <3> SUFFICES ASSUME NEW k \in Old PROVE Orderly(OldFiles(k))
      BY OldFilesType
    <3>1. k \in {"none", "zero", "one", "newer1", "torn0", "torn1"}
      BY OldAssumption
    <3> QED
      BY <3>1 DEF OldFiles, Legacy, Orderly, Absent, Torn
  <2>3. \A b \in Bases : /\ files[b] \in Files /\ Orderly(files[b])
                         /\ readable(files[b]) \in Nat
    BY <2>1, <2>2, ReadableType
  <2>4. StoreInv
    BY <2>3 DEF Init, StoreInv, SavedOrCleared, ClearedSoFar, Writing, Idle
  <2>5. Store!Init
    BY <2>3 DEF Init, Idle, Store!Init
  <2> QED
    BY <2>4, <2>5
<1>2. TypeOK /\ InOrder /\ StoreInv /\ [Next]_vars =>
        StoreInv' /\ [Store!Next]_(Store!vars)
  BY NextStores
<1> QED
  BY <1>1, <1>2, AlwaysInOrder, PTL DEF Spec, ImplementsStore, Store!Spec
=============================================================================
