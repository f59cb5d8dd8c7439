----------------------------- MODULE RunStatus -----------------------------
(***************************************************************************)
(* What runs.status promises to whoever lists or reads a run: it starts    *)
(* "queued", moves once to "running" and once to an outcome its pipeline   *)
(* has announced, and an outcome is final.  The gateway's create_run, the  *)
(* audit task and the worker's events together implement it.               *)
(***************************************************************************)
VARIABLES status,   \* runs.status, "absent" before the row exists
          announced \* the outcomes on the run's event stream

Outcomes == {"done", "failed", "cancelled"}

Init == status = "absent" /\ announced = {}

Create == status = "absent" /\ status' = "queued" /\ UNCHANGED announced

Start == status = "queued" /\ status' = "running" /\ UNCHANGED announced

Announce == \E o \in Outcomes : announced' = announced \cup {o}
                                /\ UNCHANGED status

Settle == /\ status \in {"queued", "running"}
          /\ status' \in announced
          /\ UNCHANGED announced

Next == Create \/ Start \/ Announce \/ Settle

Spec == Init /\ [][Next]_<<status, announced>>

=============================================================================
