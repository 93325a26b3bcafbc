------------------------------- MODULE Mirror -------------------------------
(***************************************************************************)
(* What a replicator owes its two clusters, without saying how: records    *)
(* are copied in any order and any number of times, a record may be given  *)
(* up, and the committed offset of a partition only ever advances over     *)
(* records that were copied or given up.  After a restart a record that    *)
(* was given up but not committed is owed again.                           *)
(***************************************************************************)
EXTENDS Integers

CONSTANTS Partitions, LogEnd

Records == Partitions \X (0 .. LogEnd - 1)

VARIABLES
    committed,  \* committed[p]: records of p below it are never consumed again
    copied,     \* records with a copy on the target
    givenUp     \* records given up since they were last consumed

mirrorVars == <<committed, copied, givenUp>>

Init ==
    /\ committed = [p \in Partitions |-> 0]
    /\ copied = {}
    /\ givenUp = {}

\* A copy of one more record lands on the target.
Copy ==
    /\ \E r \in Records : copied' = copied \cup {r}
    /\ UNCHANGED <<committed, givenUp>>

\* A record that is not committed is given up.
Abandon ==
    /\ \E r \in Records :
         /\ r[2] >= committed[r[1]]
         /\ givenUp' = givenUp \cup {r}
    /\ UNCHANGED <<committed, copied>>

\* The committed offsets advance over settled records.
Advance ==
    /\ \E next \in [Partitions -> 0 .. LogEnd] :
         /\ \A p \in Partitions :
              /\ committed[p] <= next[p]
              /\ \A o \in 0 .. next[p] - 1 : <<p, o>> \in copied \cup givenUp
         /\ committed' = next
    /\ UNCHANGED <<copied, givenUp>>

\* A new process consumes from the committed offsets.
Restart ==
    /\ givenUp' = {r \in givenUp : r[2] < committed[r[1]]}
    /\ UNCHANGED <<committed, copied>>

Next == Copy \/ Abandon \/ Advance \/ Restart

Spec == Init /\ [][Next]_mirrorVars
=============================================================================
