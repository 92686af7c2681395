----------------------------- MODULE RobRefinement ----------------------------
(***************************************************************************)
(* The v7.1 distributor implements a bank of in-order queues: the queue of  *)
(* bank b is the window of count[b] slots that starts at its head.         *)
(***************************************************************************)
EXTENDS RobDistributor, Sequences, FiniteSetsExt

\* The slot at position i, counted from 1, of the window of bank b.
WindowSlot(b, i) == (head[b] + i - 1) % RobEntriesPerBank

WindowQueue(b) ==
  [i \in 1 .. count[b] |->
     [uop |-> uop[b][WindowSlot(b, i)],
      done |-> state[b][WindowSlot(b, i)] = RETIRED]]

Queues == INSTANCE ReorderQueue WITH
            Banks    <- Bank,
            Capacity <- RobEntriesPerBank,
            queue    <- [b \in Bank |-> WindowQueue(b)],
            issued   <- totalAllocations

\* Mutant of RobGetActiveCount: the sum starts at the second bank.
RobGetActiveCountShort ==
  IF ready THEN MapThenSumSet(LAMBDA b : count[b], Bank \ {0}) ELSE 0

\* What callers are told of the occupancy.
RobGetActiveCount == IF ready THEN MapThenSumSet(LAMBDA b : count[b], Bank) ELSE 0

\* Micro-ops in the queues.
Queued == {p \in Bank \X Slot : ready /\ state[p[1]][p[2]] # FREE}

\* Ring indices, wrap-around, the drain loop and the round-robin scan together
\* behave as in-order queues: nothing is lost, reordered, freed early or kept.
ImplementsQueues == Queues!Spec

\* The occupancy callers are told, summed from the banks' counters, is the
\* number of micro-ops in flight.
OccupancyReported == RobGetActiveCount = Cardinality(Queued)

===============================================================================
