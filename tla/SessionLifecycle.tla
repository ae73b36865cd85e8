-------------------------- MODULE SessionLifecycle --------------------------
(***************************************************************************)
(* What the control plane promises about a session, without saying how:    *)
(* a session has a public status, at most one lifecycle operation at a     *)
(* time has the claim on it, and its status changes only when the claimed  *)
(* operation completes.  SessionService.tla is shown to implement this     *)
(* module.                                                                 *)
(***************************************************************************)

CONSTANT Id                \* session identifiers

VARIABLES
    status,                \* status[i]: what GET /sessions/{i} reports
    claim                  \* claim[i]: the operation under way on i, if any

vars == <<status, claim>>

Init ==
    /\ status = [i \in Id |-> "absent"]
    /\ claim  = [i \in Id |-> "free"]

\* A session is born stopped, with nobody working on it.
Create(i) ==
    /\ status[i] = "absent"
    /\ status' = [status EXCEPT ![i] = "stopped"]
    /\ UNCHANGED claim

\* Start and restart claim the session as "starting", stop and remove as
\* "stopping".
Claim(i) ==
    /\ status[i] # "absent"
    /\ claim[i] = "free"
    /\ \E kind \in {"starting", "stopping"} :
          claim' = [claim EXCEPT ![i] = kind]
    /\ UNCHANGED status

\* The claimed operation completes: it succeeds, or it fails and says so.
Complete(i) ==
    /\ \/ /\ claim[i] = "starting"
          /\ \E s \in {"running", "error"} :
                status' = [status EXCEPT ![i] = s]
       \/ /\ claim[i] = "stopping"
          /\ \E s \in {"stopped", "absent", "error"} :
                status' = [status EXCEPT ![i] = s]
    /\ claim' = [claim EXCEPT ![i] = "free"]

Next == \E i \in Id : Create(i) \/ Claim(i) \/ Complete(i)

Fairness == \A i \in Id : WF_vars(Complete(i))

Spec == Init /\ [][Next]_vars /\ Fairness
=============================================================================
