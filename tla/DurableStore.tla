---------------------------- MODULE DurableStore ----------------------------
(***************************************************************************)
(* What storage/details/storage_file_utilities promises its callers: a     *)
(* file is always found as one of the versions that were asked for, and    *)
(* never as an older one than before, through crashes and whatever the     *)
(* storage thread is doing.  Only ClearKey makes one disappear.            *)
(***************************************************************************)
EXTENDS Naturals

CONSTANT Bases  \* the files

NotFound == 0   \* less than any version

VARIABLES
  asked,    \* base -> the last version a caller asked to write
  found,    \* base -> the version ReadFile finds, or NotFound
  clearing  \* the base being cleared, if any, as a set

vars == <<asked, found, clearing>>

Init ==
  /\ asked \in [Bases -> Nat]
  /\ found \in [Bases -> Nat]
  /\ \A b \in Bases : found[b] <= asked[b]
  /\ clearing = {}

Ask(b) ==
  /\ asked' = [asked EXCEPT ![b] = @ + 1]
  /\ UNCHANGED <<found, clearing>>

Persist(b) ==
  /\ \E v \in found[b] + 1 .. asked[b] : found' = [found EXCEPT ![b] = v]
  /\ UNCHANGED <<asked, clearing>>

StartClear(b) ==
  /\ clearing = {} /\ clearing' = {b}
  /\ UNCHANGED <<asked, found>>

Forget(b) ==
  /\ b \in clearing
  /\ found' = [found EXCEPT ![b] = NotFound]
  /\ clearing' \in {clearing, {}}
  /\ UNCHANGED asked

\* Cleared, or crashed before it was.
EndClear == clearing # {} /\ clearing' = {} /\ UNCHANGED <<asked, found>>

Next ==
  \/ \E b \in Bases : Ask(b) \/ Persist(b) \/ StartClear(b) \/ Forget(b)
  \/ EndClear

Spec == Init /\ [][Next]_vars
=============================================================================
