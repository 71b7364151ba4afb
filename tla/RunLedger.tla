------------------------------ MODULE RunLedger ------------------------------
(***************************************************************************)
(* What the queue promises, without programs, files or workers: a ledger   *)
(* of requests.  A request is new, then pending, then done; one for a slot  *)
(* that is asked for already is merged into the earlier one.               *)
(***************************************************************************)
CONSTANTS Items, Key, NoKey

VARIABLE status

Twins(i, j) == i # j /\ Key[i] # NoKey /\ Key[i] = Key[j]

TypeOK == status \in [Items -> {"new", "pending", "done", "merged"}]

Init == status = [i \in Items |-> "new"]

\* A request is accepted.
Accept(i) ==
  /\ status[i] = "new"
  /\ status' = [status EXCEPT ![i] = "pending"]

\* A request gets its answer: run, refused or filed as a dead letter.
Settle(i) ==
  /\ status[i] = "pending"
  /\ status' = [status EXCEPT ![i] = "done"]

\* A request is dropped in favour of another one for the same slot.
Merge(i) ==
  /\ status[i] = "pending"
  /\ \E j \in Items : Twins(i, j) /\ status[j] # "new"
  /\ status' = [status EXCEPT ![i] = "merged"]

Next == \E i \in Items : Accept(i) \/ Settle(i) \/ Merge(i)

Spec == Init /\ [][Next]_status
=============================================================================
