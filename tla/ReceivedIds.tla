---------------------------- MODULE ReceivedIds ----------------------------
(***************************************************************************)
(* Windows of message ids, from                                            *)
(* src/Telegram/SourceFiles/mtproto/details/mtproto_received_ids_manager.  *)
(*                                                                         *)
(* MTProto message ids only grow, so a bounded window of the newest ones   *)
(* is enough to tell a message that has been handled from one that has     *)
(* not: an id that is not in a full window and below all of it may have    *)
(* been there.  A window is the set of its ids; the flag each id carries   *)
(* ("needs an acknowledgement") is of no consequence here.                 *)
(***************************************************************************)
EXTENDS Integers, FiniteSets

\* What registerMsgId finds.
Success   == "Success"
Duplicate == "Duplicate"
TooOld    == "TooOld"

\* The outcome for an id, for a window of ids that should hold size of them.
registerMsgId(ids, id, size) ==
  IF id \in ids THEN Duplicate
  ELSE IF Cardinality(ids) < size \/ (\E other \in ids : other < id) THEN Success
  ELSE TooOld

\* The window after that.
registered(ids, id, size) ==
  IF registerMsgId(ids, id, size) = Success THEN ids \cup {id} ELSE ids

\* Mutant: the largest ids are erased instead of the smallest.
shrink_Newest(ids, size) ==
  IF Cardinality(ids) <= size THEN {ids}
  ELSE {kept \in SUBSET ids : /\ Cardinality(kept) = size
                              /\ \A erased \in ids \ kept, id \in kept : erased > id}

\* What is left of ids when the smallest ones have been erased until there
\* are size: the only member of this set.  (A set, so that a proof need not
\* find its member.)
shrink(ids, size) ==
  IF Cardinality(ids) <= size THEN {ids}
  ELSE {kept \in SUBSET ids : /\ Cardinality(kept) = size
                              /\ \A erased \in ids \ kept, id \in kept : erased < id}

\* The same as an operator.
Newest(ids, size) ==
  {id \in ids : Cardinality({other \in ids : other > id}) < size}

=============================================================================
