----------------------------- MODULE CampLease -----------------------------
(***************************************************************************)
(* What the pool of camps promises (internal/camp): a table of slots, each *)
(* idle or leased to one task.  A lease is granted only on an idle slot    *)
(* and only to a task that holds none, and it ends by going back to idle.  *)
(***************************************************************************)
CONSTANTS Task,  \* task ids
          Slot,  \* the slots a pool may have
          None   \* the holder of an idle slot

VARIABLE owner   \* the task that leases each slot

Init == owner = [s \in Slot |-> None]

Grant(t, s) ==
    /\ owner[s] = None
    /\ \A x \in Slot : owner[x] # t
    /\ owner' = [owner EXCEPT ![s] = t]

Return(s) ==
    /\ owner[s] # None
    /\ owner' = [owner EXCEPT ![s] = None]

Next == \E s \in Slot : Return(s) \/ \E t \in Task : Grant(t, s)

Spec == Init /\ [][Next]_owner
=============================================================================
