---------------------------- MODULE AtomicUnits ----------------------------
(***************************************************************************)
(* What a callback chain promises about its effects, with no chain in it:  *)
(* a unit (one run of the create, update or delete chain for an API call)  *)
(* executes write statements, none of which anybody else can see until all *)
(* of them are published in a single step, and a unit that fails or is cut *)
(* short publishes nothing.                                                *)
(***************************************************************************)



CONSTANT Unit       \* the units of work of all the callers

VARIABLES st,       \* st[u]: where unit u is
          hidden,   \* hidden[u]: u executed statements nobody else sees
          visible   \* visible[u]: others see a statement of u

vars == <<st, hidden, visible>>

Status == {"idle", "running", "ok", "skipped", "failed"}

Init == /\ st = [u \in Unit |-> "idle"]
        /\ hidden = [u \in Unit |-> FALSE]
        /\ visible = [u \in Unit |-> FALSE]

Start(u) == /\ st[u] = "idle"
            /\ st' = [st EXCEPT ![u] = "running"]
            /\ UNCHANGED <<hidden, visible>>

\* Once something is visible the unit is over: no statement follows it.
Write(u) == /\ st[u] = "running"
            /\ ~visible[u]
            /\ hidden' = [hidden EXCEPT ![u] = TRUE]
            /\ UNCHANGED <<st, visible>>

\* Everything at once: nothing of the unit stays hidden.
Publish(u) == /\ st[u] = "running"
              /\ hidden[u]
              /\ hidden' = [hidden EXCEPT ![u] = FALSE]
              /\ visible' = [visible EXCEPT ![u] = TRUE]
              /\ UNCHANGED st

Succeed(u) == /\ st[u] = "running"
              /\ ~hidden[u]
              /\ st' = [st EXCEPT ![u] = "ok"]
              /\ UNCHANGED <<hidden, visible>>

\* Reports an error ("failed"), or was cut short without one ("skipped").
GiveUp(u, how) == /\ st[u] = "running"
                  /\ ~visible[u]
                  /\ st' = [st EXCEPT ![u] = how]
                  /\ UNCHANGED <<hidden, visible>>

Next == \E u \in Unit : \/ Start(u) \/ Write(u) \/ Publish(u) \/ Succeed(u)
                       \/ \E how \in {"failed", "skipped"} : GiveUp(u, how)

Spec == Init /\ [][Next]_vars
=============================================================================
