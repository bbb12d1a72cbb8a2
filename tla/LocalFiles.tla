----------------------------- MODULE LocalFiles -----------------------------
(***************************************************************************)
(* The encrypted local files (storage/details/storage_file_utilities.cpp): *)
(* a file `base` lies on disk as base + 's' (safe), base + '0' or          *)
(* base + '1' (what older versions of the program wrote).  The main thread *)
(* hands what is to be written to WriteManager on a thread of its own,     *)
(* waiting for it or not, reads files and clears them.  A crash may come   *)
(* between any two operations on the disk.                                 *)
(*                                                                         *)
(* Content is a version: each request to write a base is one more.         *)
(***************************************************************************)
EXTENDS Integers, SequencesExt

CONSTANTS
  Bases,       \* the files
  Old,         \* what an older version of the program may have left
  Failures,    \* the operations on the disk that may fail
  MaxFailures, \* bound on their failures
  Clears,      \* may files be cleared?
  MaxVersion,  \* bound on the versions of a base
  MaxInbox     \* bound on the tasks waiting for the thread

ASSUME OldAssumption ==
  Old \subseteq {"none", "zero", "one", "newer0", "newer1", "torn0", "torn1"}
ASSUME FailuresAssumption ==
  /\ Failures \subseteq {"save", "open", "short", "rename"}
  /\ Clears \in BOOLEAN
ASSUME BoundsAssumption ==
  MaxVersion \in Nat /\ MaxInbox \in Nat /\ MaxFailures \in Nat

VARIABLES
  files,      \* base -> its three files
  inbox,      \* the tasks of the storage thread, the first one being run
  scheduled,  \* _scheduled
  job,        \* the entry writeNow writes, and how far it is
  main,       \* what the main thread is in the middle of
  version,    \* base -> the last version asked for
  stored,     \* history: base -> the newest version whose writing was finished
  failures    \* history: how many operations failed

vars == <<files, inbox, scheduled, job, main, version, stored, failures>>

Absent == 0
Torn == -1

Entry == [base : Bases, v : Nat]

\* zero is read before one when both exist and it is not older.
Files == [s : Nat \cup {Torn}, zero : Nat \cup {Torn}, one : Nat \cup {Torn},
          newer : {"zero", "one"}]

Task ==
  [do : {"write", "writeSync"}, entry : Entry]
    \cup [do : {"writeScheduled", "writeSyncAll"}]

Steps == {"save", "removeSimple", "removeBackup", "open", "fill",
          "dropBackup", "rename", "dropSafe"}

Idle == [at |-> "idle"]

MainStates ==
  [at : {"idle", "finished"}]
    \cup [at : {"waiting"}, bases : SUBSET Bases, then : {"idle", "finished"}]
    \cup [at : {"clearing"}, base : Bases,
          left : {<<"zero", "one", "s">>, <<"one", "s">>, <<"s">>}]

(***************************************************************************)
(* What ReadFile tries, in order: the safe file if it exists; else the     *)
(* newer of the two legacy ones, then the other.  A torn one fails the     *)
(* check of its signature.                                                 *)
(***************************************************************************)
toTry(f) ==
  IF f.s # Absent THEN <<f.s>>
  ELSE IF f.zero = Absent THEN <<f.one>>
  ELSE IF f.one = Absent THEN <<f.zero>>
  ELSE IF f.newer = "one" THEN <<f.one, f.zero>> ELSE <<f.zero, f.one>>

readable(f) ==
  LET t == toTry(f) IN
  IF t[1] # Torn THEN t[1]
  ELSE IF Len(t) = 2 /\ t[2] # Torn THEN t[2] ELSE Absent

\* The file that was not read is removed, when both legacy ones exist.
afterReadFile(f) ==
  IF Len(toTry(f)) < 2 \/ readable(f) = Absent THEN f
  ELSE IF readable(f) = f.zero THEN [f EXCEPT !.one = Absent]
  ELSE [f EXCEPT !.zero = Absent]

-----------------------------------------------------------------------------
(***************************************************************************)
(* The start: nothing, or the files of an older version of the program.    *)
(***************************************************************************)
Legacy(zero, one, newer) ==
  [s |-> Absent, zero |-> zero, one |-> one, newer |-> newer]

OldFiles(k) ==
  CASE k = "none" -> Legacy(Absent, Absent, "zero")
    [] k = "zero" -> Legacy(2, Absent, "zero")
    [] k = "one" -> Legacy(Absent, 2, "zero")
    [] k = "newer0" -> Legacy(2, 1, "zero")
    [] k = "newer1" -> Legacy(1, 2, "one")
    [] k = "torn0" -> Legacy(Torn, 2, "zero")
    [] k = "torn1" -> Legacy(2, Torn, "one")

Init ==
  /\ \E old \in [Bases -> Old] : files = [b \in Bases |-> OldFiles(old[b])]
  /\ inbox = <<>> /\ scheduled = <<>> /\ job = Idle /\ main = Idle
  /\ version = [b \in Bases |-> readable(files[b])]
  /\ stored = version
  /\ failures = 0

-----------------------------------------------------------------------------
(***************************************************************************)
(* The main thread.  with_sync posts a task and waits until it is done.    *)
(***************************************************************************)
Posts(task) == inbox' = Append(inbox, task)

Waits(bases, then) ==
  main' = [at |-> "waiting", bases |-> bases, then |-> then]

Asks(b) ==
  /\ main = Idle /\ version[b] < MaxVersion /\ Len(inbox) < MaxInbox
  /\ version' = [version EXCEPT ![b] = @ + 1]

EntryOf(b) == [base |-> b, v |-> version'[b]]

Write(b) ==
  /\ Asks(b)
  /\ Posts([do |-> "write", entry |-> EntryOf(b)])
  /\ UNCHANGED <<files, scheduled, job, main, stored, failures>>

WriteSync(b) ==
  /\ Asks(b)
  /\ Posts([do |-> "writeSync", entry |-> EntryOf(b)])
  /\ Waits({b}, "idle")
  /\ UNCHANGED <<files, scheduled, job, stored, failures>>

\* sync, and stop, after which nothing may be written.
Sync(then) ==
  /\ main = Idle /\ Len(inbox) < MaxInbox
  /\ Posts([do |-> "writeSyncAll"])
  /\ Waits(Bases, then)
  /\ UNCHANGED <<files, scheduled, job, version, stored, failures>>

\* Files are read at the start or before their first use.
pending(b) ==
  \/ job # Idle /\ job.entry.base = b
  \/ \E i \in DOMAIN scheduled : scheduled[i].base = b
  \/ \E i \in DOMAIN inbox :
       inbox[i].do \in {"write", "writeSync"} /\ inbox[i].entry.base = b

ReadFile(b) ==
  /\ main = Idle /\ ~pending(b)
  /\ files' = [files EXCEPT ![b] = afterReadFile(@)]
  /\ UNCHANGED <<inbox, scheduled, job, main, version, stored, failures>>

\* Mutant: the safe file goes first.
clearOrder_SafeFirst == <<"s", "zero", "one">>

clearOrder == <<"zero", "one", "s">>

\* ClearKey; its callers forget the key, and with it what was stored.
StartClear(b) ==
  /\ Clears /\ main = Idle
  /\ main' = [at |-> "clearing", base |-> b, left |-> clearOrder]
  /\ stored' = [stored EXCEPT ![b] = Absent]
  /\ UNCHANGED <<files, inbox, scheduled, job, version, failures>>

ClearOne ==
  /\ main.at = "clearing"
  /\ files' = [files EXCEPT ![main.base][Head(main.left)] = Absent]
  /\ main' = IF Len(main.left) = 1 THEN Idle
                                   ELSE [main EXCEPT !.left = Tail(@)]
  /\ UNCHANGED <<inbox, scheduled, job, version, stored, failures>>

-----------------------------------------------------------------------------
(***************************************************************************)
(* WriteManager, on its thread: its tasks are run one after another.       *)
(***************************************************************************)
Runs(do) == job = Idle /\ inbox # <<>> /\ Head(inbox).do = do

Scheduled(b) == {i \in DOMAIN scheduled : scheduled[i].base = b}

Awaited == {"writeSync", "writeSyncAll"}

\* Mutant: a synchronous write leaves the main thread waiting.
woken_BySyncAll(do) ==
  IF do = "writeSyncAll" THEN [at |-> main.then] ELSE main

woken(do) == IF do \in Awaited THEN [at |-> main.then] ELSE main

TaskDone(posted) ==
  /\ inbox' = Tail(inbox) \o posted
  /\ main' = woken(Head(inbox).do)

\* Mutant: nothing makes the thread come back to what is scheduled.
scheduleWrite_Never == <<>>

scheduleWrite == <<[do |-> "writeScheduled"]>>

\* An entry takes the place of an earlier one for the same base.
RunWrite ==
  /\ Runs("write")
  /\ LET e == Head(inbox).entry
         same == Scheduled(e.base)
     IN  scheduled' = IF same = {} THEN Append(scheduled, e)
                      ELSE [scheduled EXCEPT ![CHOOSE i \in same : TRUE] = e]
  /\ TaskDone(scheduleWrite)
  /\ UNCHANGED <<files, job, version, stored, failures>>

\* Mutant: what was scheduled for the base stays scheduled.
unscheduled_Kept(b) == scheduled

unscheduled(b) ==
  IF Scheduled(b) = {} THEN scheduled
  ELSE RemoveAt(scheduled, CHOOSE i \in Scheduled(b) : TRUE)

StartsWriteNow(e) == job' = [at |-> "save", entry |-> e]

RunWriteSync ==
  /\ Runs("writeSync")
  /\ scheduled' = unscheduled(Head(inbox).entry.base)
  /\ StartsWriteNow(Head(inbox).entry)
  /\ UNCHANGED <<files, inbox, main, version, stored, failures>>

\* writeOneScheduledNow, of writeScheduled or of the loop of writeSyncAll.
RunScheduled ==
  /\ Runs("writeScheduled") \/ Runs("writeSyncAll")
  /\ scheduled # <<>>
  /\ scheduled' = Tail(scheduled)
  /\ StartsWriteNow(Head(scheduled))
  /\ UNCHANGED <<files, inbox, main, version, stored, failures>>

\* Nothing is left to write for the task.
RunEmpty ==
  /\ Runs("writeScheduled") \/ Runs("writeSyncAll")
  /\ scheduled = <<>>
  /\ TaskDone(<<>>)
  /\ UNCHANGED <<files, scheduled, job, version, stored, failures>>

-----------------------------------------------------------------------------
(***************************************************************************)
(* writeNow: one operation on the disk per step.  First QSaveFile, whose   *)
(* commit is atomic; if it fails '0' is written in place, flushed, and     *)
(* renamed over 's'.                                                       *)
(***************************************************************************)
Doing(step) == job # Idle /\ job.at = step
Fails(what) ==
  what \in Failures /\ failures < MaxFailures /\ failures' = failures + 1
Works == UNCHANGED failures
Goes(step) == job' = [job EXCEPT !.at = step]
Puts(f) == files' = [files EXCEPT ![job.entry.base] = f]
here == files[job.entry.base]

\* Mutant: writeSyncAll writes one entry instead of all.
loops_Never(do) == FALSE

loops(do) == do = "writeSyncAll"

\* Back in the task that called writeNow.
Returns ==
  LET do == Head(inbox).do IN
  /\ job' = Idle
  /\ IF loops(do) THEN UNCHANGED <<inbox, main>>
     ELSE TaskDone(IF do = "writeScheduled" /\ scheduled # <<>>
                   THEN scheduleWrite ELSE <<>>)
  /\ UNCHANGED <<scheduled, version>>

Continues(step) ==
  Goes(step) /\ UNCHANGED <<inbox, scheduled, main, version>>

Completes ==
  stored' = [stored EXCEPT ![job.entry.base] =
               IF @ < job.entry.v THEN job.entry.v ELSE @]

\* Mutant: the file is written in place, not by QSaveFile.
Save_InPlace ==
  /\ Doing("save")
  /\ \/ /\ Puts([here EXCEPT !.s = job.entry.v])
        /\ Continues("removeSimple") /\ Completes /\ Works
     \/ /\ Fails("save") /\ Puts([here EXCEPT !.s = Torn])
        /\ Continues("open") /\ UNCHANGED stored

Save ==
  /\ Doing("save")
  /\ \/ /\ Puts([here EXCEPT !.s = job.entry.v])
        /\ Continues("removeSimple") /\ Completes /\ Works
     \/ /\ Fails("save") /\ Continues("open") /\ UNCHANGED <<files, stored>>

RemoveSimple ==
  /\ Doing("removeSimple")
  /\ Puts([here EXCEPT !.zero = Absent])
  /\ Continues("removeBackup") /\ UNCHANGED stored /\ Works

RemoveBackup ==
  /\ Doing("removeBackup")
  /\ Puts([here EXCEPT !.one = Absent])
  /\ Returns /\ UNCHANGED stored /\ Works

\* Opening '0' truncates it.
Open ==
  /\ Doing("open")
  /\ \/ /\ Puts([here EXCEPT !.zero = Torn, !.newer = "zero"])
        /\ Continues("fill") /\ Works
     \/ Fails("open") /\ Returns /\ UNCHANGED files
  /\ UNCHANGED stored

\* Nobody looks at what write returns.  A file cleared meanwhile stays away.
Fill ==
  /\ Doing("fill")
  /\ \/ /\ Puts([here EXCEPT !.zero = IF @ = Absent THEN @ ELSE job.entry.v])
        /\ Works
     \/ Fails("short") /\ UNCHANGED files
  /\ Continues("dropBackup") /\ UNCHANGED stored

DropBackup ==
  /\ Doing("dropBackup")
  /\ Puts([here EXCEPT !.one = Absent])
  /\ Continues("rename") /\ UNCHANGED stored /\ Works

Rename ==
  /\ Doing("rename")
  /\ \/ /\ here.zero # Absent
        /\ Puts([here EXCEPT !.s = here.zero, !.zero = Absent])
        /\ Returns /\ Completes /\ Works
     \/ /\ Fails("rename") \/ (here.zero = Absent /\ Works)
        /\ Continues("dropSafe") /\ UNCHANGED <<files, stored>>

DropSafe ==
  /\ Doing("dropSafe")
  /\ Puts([here EXCEPT !.s = Absent])
  /\ Returns /\ Completes /\ Works

writeNow ==
  \/ Save \/ RemoveSimple \/ RemoveBackup
  \/ Open \/ Fill \/ DropBackup \/ Rename \/ DropSafe

\* Everything in memory is gone; a file being written keeps what it has.
Crash ==
  /\ inbox' = <<>> /\ scheduled' = <<>> /\ job' = Idle /\ main' = Idle
  /\ UNCHANGED <<files, version, stored, failures>>

-----------------------------------------------------------------------------
Main ==
  \/ \E b \in Bases :
       Write(b) \/ WriteSync(b) \/ ReadFile(b) \/ StartClear(b)
  \/ \E then \in {"idle", "finished"} : Sync(then)
  \/ ClearOne

Thread == RunWrite \/ RunWriteSync \/ RunScheduled \/ RunEmpty \/ writeNow

Next == Main \/ Thread \/ Crash

Spec == Init /\ [][Next]_vars

\* The thread runs, and nothing crashes.
RunningSpec == Init /\ [][Main \/ Thread]_vars /\ WF_vars(Thread)

-----------------------------------------------------------------------------
TypeOK ==
  /\ files \in [Bases -> Files]
  /\ inbox \in Seq(Task)
  /\ scheduled \in Seq(Entry)
  /\ job = Idle \/ job \in [at : Steps, entry : Entry]
  /\ main \in MainStates
  /\ main.at = "waiting" <=> \E i \in DOMAIN inbox : inbox[i].do \in Awaited
  /\ version \in [Bases -> Nat]
  /\ stored \in [Bases -> Nat]
  /\ failures \in 0 .. MaxFailures

(***************************************************************************)
(* Once a version has been written to the end, that one or a newer one is  *)
(* found, whenever the program crashes and whatever was going on: a later  *)
(* write does not destroy what it is to replace before it has replaced it. *)
(***************************************************************************)
NothingLost ==
  \A b \in Bases : main.at # "clearing" => readable(files[b]) >= stored[b]

(***************************************************************************)
(* At most one entry waits for a base, and it is newer than what is on     *)
(* disk and than what is being written, so that no order of writing brings *)
(* an older version back.                                                  *)
(***************************************************************************)
ScheduledIsNewer ==
  \A i \in DOMAIN scheduled :
    LET e == scheduled[i] IN
    /\ Scheduled(e.base) = {i}
    /\ readable(files[e.base]) < e.v
    /\ job # Idle /\ job.entry.base = e.base => job.entry.v < e.v

(***************************************************************************)
(* When the main thread goes on after Sync or a synchronous write, what it *)
(* waited for is on disk in its latest version.                            *)
(***************************************************************************)
SyncWaitsForDisk ==
  [][main.at = "waiting" /\ main'.at # "waiting" =>
       \A b \in main.bases : readable(files'[b]) = version[b]]_vars

(***************************************************************************)
(* Without crashes and failures every version asked for reaches the disk,  *)
(* or a newer one does.                                                    *)
(***************************************************************************)
WritesLand ==
  \A b \in Bases, v \in 1 .. MaxVersion :
    (version[b] >= v) ~> (readable(files[b]) >= v)

(***************************************************************************)
(* The files are a store as DurableStore.tla describes.                    *)
(***************************************************************************)
Store ==
  INSTANCE DurableStore WITH
    asked <- version,
    found <- [b \in Bases |-> readable(files[b])],
    clearing <- IF main.at = "clearing" THEN {main.base} ELSE {}

ImplementsStore == Store!Spec
=============================================================================
