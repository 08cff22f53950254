-------------------------- MODULE ActiveObjectSpec --------------------------
(***************************************************************************)
(* What a gears ActiveObject promises: its work starts with an activation, *)
(* stops after a deactivation, and the object counts as not active only    *)
(* when nothing of it runs any more.                                       *)
(***************************************************************************)

VARIABLES
  state,    \* ACTIVE_STATE
  running   \* something of the object runs

States == {"active", "deactivating", "not_active"}

Init == state = "not_active" /\ running = FALSE

Activate == /\ state = "not_active"
            /\ state' = "active"
            /\ running' \in BOOLEAN

Work == /\ state = "active"
        /\ running' \in BOOLEAN
        /\ UNCHANGED state

Deactivate == /\ state = "active"
              /\ state' = "deactivating"
              /\ UNCHANGED running

\* A deactivation that fails leaves the object active.
Resume == /\ state = "deactivating"
          /\ state' = "active"
          /\ UNCHANGED running

JobsEnd == /\ state = "deactivating" /\ running
           /\ running' = FALSE
           /\ UNCHANGED state

Finish == /\ state = "deactivating" /\ ~running
          /\ state' = "not_active"
          /\ UNCHANGED running

Next == Activate \/ Work \/ Deactivate \/ Resume \/ JobsEnd \/ Finish

Spec == Init /\ [][Next]_<<state, running>>
=============================================================================
