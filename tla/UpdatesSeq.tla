----------------------------- MODULE UpdatesSeq -----------------------------
(***************************************************************************)
(* Api::Updates (api/api_updates.cpp): the numbering of the containers     *)
(* that carry updates.  A container has a date and may have a range        *)
(* start..end of sequence numbers (updates, updatesCombined) or none       *)
(* (updateShort...).  One that comes too early waits in _bySeqUpdates      *)
(* until _bySeqTimer makes the client ask for a difference.                *)
(*                                                                         *)
(* The date tells a difference where to start.  When an update names a     *)
(* channel that is not loaded, the date stays until _byMinChannelTimer has *)
(* made the client ask.                                                    *)
(*                                                                         *)
(* Requests are those of Updates.tla, for the account's stream; what is    *)
(* left of pts here is AskForOtherReasons.  The server's dates number its  *)
(* events.  Unlike there, the length of the wait is modelled, in ticks.    *)
(***************************************************************************)
EXTENDS Integers, Sequences, FiniteSets

CONSTANTS
  Wait,      \* kWaitForSkippedTimeout in ticks
  MaxDate,   \* bound on the events of the server
  MaxNet,    \* bound on the containers under way
  Kinds,     \* what the updates in a container may name
  Vias,      \* how containers come: a push, the result of a request
  MayFail    \* may a difference request fail?

ASSUME WaitAssumption == Wait \in Nat \ {0}
ASSUME BoundsAssumption == MaxDate \in Nat /\ MaxNet \in Nat
ASSUME KindsAssumption ==
  Kinds \subseteq {"plain", "unknownUser", "unknownChannel"}
ASSUME ViasAssumption == Vias \subseteq {"push", "result"} /\ MayFail \in BOOLEAN

VARIABLES
  client,   \* the members of Api::Updates named below
  seen,     \* the server's date when the last request was sent
  log,      \* log[d] is the server's seq after its event of date d
  net       \* the containers under way

vars == <<client, seen, log, net>>

Off == -1
Timer == {Off} \cup 0 .. Wait

Container ==
  [start : Nat, end : Nat, date : Nat, kind : Kinds, via : Vias]

(***************************************************************************)
(* seq: _updatesSeq, date: _updatesDate, held: _bySeqUpdates, bySeq:       *)
(* _bySeqTimer, byMin: _byMinChannelTimer, requesting: of _ptsWaiter,      *)
(* flying: the request is under way (else it failed and waits for its      *)
(* retry), from: the date it carries.  Two fields are history: taken, the  *)
(* sequence numbers whose container or difference was fed, and missed, the *)
(* dates of updates left to a difference because of an unknown channel     *)
(* (but for those a later container without seq has overtaken: the date is *)
(* past them when they come).                                              *)
(***************************************************************************)
Client ==
  [seq : Nat, date : Nat, held : SUBSET Container, bySeq : Timer,
   byMin : Timer, requesting : BOOLEAN, flying : BOOLEAN, from : Nat,
   taken : SUBSET Nat, missed : SUBSET Nat]

\* updates.getState has been answered, by a server that has told nothing yet.
Init ==
  /\ client = [seq |-> 0, date |-> 0, held |-> {}, bySeq |-> Off,
               byMin |-> Off, requesting |-> FALSE, flying |-> FALSE, from |-> 0,
               taken |-> {}, missed |-> {}]
  /\ seen = 0 /\ log = <<>> /\ net = {}

-----------------------------------------------------------------------------
(***************************************************************************)
(* The server: an event, told in a container with w sequence numbers.      *)
(***************************************************************************)
seqAt(d) == IF d = 0 THEN 0 ELSE log[d]

ServerEvent(w, kind, via) ==
  LET d == Len(log) + 1
      s == seqAt(Len(log))
      range == IF w = 0 THEN <<0, 0>> ELSE <<s + 1, s + w>>
  IN  /\ d <= MaxDate /\ Cardinality(net) < MaxNet
      /\ via = "result" => w = 0
      /\ log' = Append(log, s + w)
      /\ net' = net \cup {[start |-> range[1], end |-> range[2], date |-> d,
                           kind |-> kind, via |-> via]}
      /\ UNCHANGED <<client, seen>>

Lose(u) ==
  /\ net' = net \ {u}
  /\ UNCHANGED <<client, seen, log>>

-----------------------------------------------------------------------------
(***************************************************************************)
(* getDifference on client c.                                              *)
(***************************************************************************)
getDifference(c) ==
  IF c.requesting THEN c
  ELSE [c EXCEPT !.held = {}, !.bySeq = Off, !.requesting = TRUE,
                 !.flying = TRUE, !.from = c.date]

(***************************************************************************)
(* What feedUpdateVector does that matters here: an update that names an   *)
(* unknown user asks for a difference at once, one of an unknown channel   *)
(* after a while (unless a difference is already being requested).         *)
(***************************************************************************)
feedUpdateVector(c, u) ==
  CASE u.kind = "unknownUser" -> getDifference(c)
    [] u.kind = "unknownChannel" /\ ~c.requesting ->
         [c EXCEPT !.byMin = IF @ = Off THEN Wait ELSE @,
                   !.missed = IF u.date > c.date THEN @ \cup {u.date} ELSE @]
    [] OTHER -> c

(***************************************************************************)
(* setState: the date, then the sequence number, and when that changes     *)
(* what was held for it.                                                   *)
(***************************************************************************)
\* Mutant: the date moves on though a channel still has to be asked about.
setDate_Always(c, date) == [c EXCEPT !.date = IF @ < date THEN date ELSE @]

setDate(c, date) ==
  [c EXCEPT !.date = IF @ < date /\ c.byMin = Off THEN date ELSE @]

\* The container's updates, its date and its seq, before the held are looked at.
feed(c, u) ==
  LET d == setDate(feedUpdateVector(c, u), u.date) IN
  IF u.end = 0 THEN d
  ELSE [d EXCEPT !.seq = u.end, !.taken = @ \cup (u.start .. u.end)]

later(c) == {h \in c.held : h.start > c.seq + 1}

\* Mutant: what is still too early gets no timer.
rearmed_Not(c) == [c EXCEPT !.held = later(c), !.bySeq = Off]

\* Mutant: what is still too early waits too long.
rearmed_Late(c) ==
  [c EXCEPT !.held = later(c), !.bySeq = IF later(c) = {} THEN Off ELSE Wait + 1]

rearmed(c) ==
  [c EXCEPT !.held = later(c), !.bySeq = IF later(c) = {} THEN Off ELSE Wait]

\* setState and applyUpdates call each other until no held container fits.
drained[c \in Client] ==
  LET fits == {h \in c.held : h.start = c.seq + 1} IN
  IF fits = {} THEN rearmed(c)
  ELSE drained[feed([c EXCEPT !.held = later(c)], CHOOSE h \in fits : TRUE)]

setState(c, date, seq) ==
  LET d == setDate(c, date) IN
  IF seq \in {0, d.seq} THEN d ELSE drained[[d EXCEPT !.seq = seq]]

-----------------------------------------------------------------------------
(***************************************************************************)
(* A step of the client to c, on which it sends a request or not.          *)
(***************************************************************************)
Becomes(c, sent) ==
  /\ client' = c
  /\ seen' = IF sent THEN Len(log) ELSE seen
  /\ UNCHANGED log

Asking(c) == Becomes(getDifference(c), ~c.requesting)

\* mtpUpdateReceived: a push is dropped while a difference is requested.
Discard(u) ==
  /\ u.via = "push" /\ client.requesting
  /\ net' = net \ {u}
  /\ UNCHANGED <<client, seen, log>>

\* Mutant: a container two ahead is taken for the next one.
tooEarly_ByTwo(c, u) == u.start > c.seq + 2

tooEarly(c, u) == u.start > c.seq + 1

\* Mutant: a container of a number already passed is fed.
outdated_Never(c, u) == FALSE

outdated(c, u) == u.start <= c.seq

(***************************************************************************)
(* applyUpdates, from a push or with the result of a request.  An update   *)
(* of an unknown user, in it or in what it releases, makes for a request.  *)
(***************************************************************************)
applied(c, u) ==
  IF u.end = 0 THEN feed(c, u)
  ELSE IF outdated(c, u) THEN c
  ELSE IF tooEarly(c, u)
  THEN [c EXCEPT !.held = IF \E h \in @ : h.start = u.start THEN @
                                                            ELSE @ \cup {u},
                 !.bySeq = Wait]
  ELSE drained[feed(c, u)]

ApplyUpdates(u) ==
  LET c == applied(client, u) IN
  /\ u.via = "push" => ~client.requesting
  /\ net' = net \ {u}
  /\ Becomes(c, c.requesting /\ ~client.requesting)

-----------------------------------------------------------------------------
(***************************************************************************)
(* Timers and the other callers of getDifference.                          *)
(***************************************************************************)
Tick ==
  /\ 0 \notin {client.bySeq, client.byMin}
  /\ {client.bySeq, client.byMin} # {Off}
  /\ client' = [client EXCEPT !.bySeq = IF @ = Off THEN @ ELSE @ - 1,
                              !.byMin = IF @ = Off THEN @ ELSE @ - 1]
  /\ UNCHANGED <<seen, log, net>>

BySeqTimer ==
  /\ client.bySeq = 0
  /\ Asking([client EXCEPT !.bySeq = Off]) /\ UNCHANGED net

ByMinChannelTimer ==
  /\ client.byMin = 0
  /\ Asking([client EXCEPT !.byMin = Off]) /\ UNCHANGED net

\* A gap in pts, updatesTooLong, or a long silence.
AskForOtherReasons == ~client.requesting /\ Asking(client) /\ UNCHANGED net

NewSession == Asking([client EXCEPT !.seq = 0]) /\ UNCHANGED net

getDifferenceAfterFail ==
  /\ client.requesting /\ ~client.flying
  /\ Asking([client EXCEPT !.requesting = FALSE]) /\ UNCHANGED net

-----------------------------------------------------------------------------
(***************************************************************************)
(* The answer is the server's state at date k.  It tells the updates later *)
(* than the request's date, and those of every container up to its seq.    *)
(***************************************************************************)
told(c, k) ==
  [c EXCEPT !.taken = @ \cup (1 .. seqAt(k)),
            !.missed = @ \ (c.from + 1 .. k)]

answered(k) ==
  [setState(told(client, k), k, seqAt(k))
     EXCEPT !.requesting = FALSE, !.flying = FALSE]

DifferenceDone ==
  /\ client.flying
  /\ \E k \in seen .. Len(log) : Becomes(answered(k), FALSE)
  /\ UNCHANGED net

DifferenceSlice ==
  /\ client.flying
  /\ \E k \in client.from + 1 .. seen - 1 : Asking(answered(k))
  /\ UNCHANGED net

DifferenceFail ==
  /\ MayFail /\ client.flying
  /\ Becomes([client EXCEPT !.flying = FALSE], FALSE) /\ UNCHANGED net

-----------------------------------------------------------------------------
Environment ==
  \/ \E w \in 0 .. 2, kind \in Kinds, via \in Vias : ServerEvent(w, kind, via)
  \/ \E u \in net : Lose(u)

Receive == \E u \in net : Discard(u) \/ ApplyUpdates(u)

Timers == Tick \/ BySeqTimer \/ ByMinChannelTimer

Ask == AskForOtherReasons \/ NewSession \/ getDifferenceAfterFail

Answer == DifferenceDone \/ DifferenceSlice \/ DifferenceFail

Next == Environment \/ Receive \/ Timers \/ Ask \/ Answer

Spec == Init /\ [][Next]_vars

(***************************************************************************)
(* Time passes and timers fire; a request that is retried is answered in   *)
(* the end, however often it failed.                                       *)
(***************************************************************************)
Fairness ==
  /\ WF_vars(Tick) /\ WF_vars(BySeqTimer) /\ WF_vars(ByMinChannelTimer)
  /\ WF_vars(getDifferenceAfterFail) /\ SF_vars(DifferenceDone)

FairSpec == Spec /\ Fairness

-----------------------------------------------------------------------------
TypeOK ==
  /\ client \in Client
  /\ seen \in Nat
  /\ log \in Seq(Nat)
  /\ net \subseteq Container

(***************************************************************************)
(* The client's seq covers only containers that were fed or told by a      *)
(* difference, whatever order they came in and whatever was lost.          *)
(***************************************************************************)
NoSkippedSeq == 1 .. client.seq \subseteq client.taken

(***************************************************************************)
(* Containers are held only ahead of a gap, with _bySeqTimer running to    *)
(* end the wait, and none is left over when a difference is requested.     *)
(***************************************************************************)
HeldIsWatched ==
  \A h \in client.held :
    /\ h.start > client.seq + 1
    /\ client.bySeq # Off /\ ~client.requesting

(***************************************************************************)
(* While pushes are listened to, the seq is not behind anything fed: no    *)
(* container is fed a second time, though a slice of a difference or a new *)
(* session may have set the seq back in between.                           *)
(***************************************************************************)
NothingFedTwice ==
  ~client.requesting => \A n \in client.taken : n <= client.seq

(***************************************************************************)
(* An update left out because of its channel is asked for: the date a      *)
(* request carries is still before it, and such a request is pending or    *)
(* _byMinChannelTimer runs.                                                *)
(***************************************************************************)
MissedIsAsked ==
  \A e \in client.missed :
    /\ client.date < e
    /\ client.byMin # Off \/ client.requesting

(***************************************************************************)
(* No container is held for ever: the gap before it fills, or a difference *)
(* takes its place.                                                        *)
(***************************************************************************)
HeldIsReleased == (client.held # {}) ~> (client.held = {})

(***************************************************************************)
(* Every update that was left out is told by a difference.                 *)
(***************************************************************************)
MissedIsTold ==
  \A e \in 1 .. MaxDate : (e \in client.missed) ~> (e \notin client.missed)
=============================================================================
