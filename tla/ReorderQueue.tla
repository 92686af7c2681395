----------------------------- MODULE ReorderQueue -----------------------------
(***************************************************************************)
(* What a banked reorder buffer promises, without slots, pointers or       *)
(* counters: a queue of micro-ops per bank, at most Capacity long.  A      *)
(* micro-op joins the back of a bank's queue, is marked done in any order, *)
(* and leaves only from the front, as soon as it and everything before it  *)
(* is done.                                                                *)
(***************************************************************************)
EXTENDS Integers, Sequences

CONSTANTS Banks, Capacity

VARIABLES
  queue,    \* per bank, the micro-ops in the buffer, oldest first
  issued    \* micro-ops issued since the buffer was last emptied

vars == <<queue, issued>>

Entry == [uop : Nat, done : BOOLEAN]

Empty ==
  /\ queue = [b \in Banks |-> <<>>]
  /\ issued = 0

Init == Empty

Reset ==
  /\ queue' = [b \in Banks |-> <<>>]
  /\ issued' = 0

Issue(b) ==
  /\ Len(queue[b]) < Capacity
  /\ queue' = [queue EXCEPT ![b] = Append(@, [uop |-> issued, done |-> FALSE])]
  /\ issued' = issued + 1

\* q without its longest prefix of done entries is q from position k + 1 on.
DonePrefix(q, k) ==
  /\ \A i \in 1 .. k : q[i].done
  /\ k < Len(q) => ~q[k + 1].done

Finish(b, i) ==
  /\ ~queue[b][i].done
  /\ LET q == [queue[b] EXCEPT ![i].done = TRUE]
     IN  \E k \in 0 .. Len(q) :
           /\ DonePrefix(q, k)
           /\ queue' = [queue EXCEPT ![b] = SubSeq(q, k + 1, Len(q))]
  /\ UNCHANGED issued

Next ==
  \/ Reset
  \/ \E b \in Banks : Issue(b)
  \/ \E b \in Banks : \E i \in 1 .. Len(queue[b]) : Finish(b, i)

Spec == Init /\ [][Next]_vars

===============================================================================
