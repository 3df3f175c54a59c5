-------------------------- MODULE DeliveryContract --------------------------
(***************************************************************************)
(* What authentication's durable delivery promises about each admitted     *)
(* execution, with no workers, leases or clocks (the contract documented   *)
(* by sdk/capabilities/work and by command.Engine): its message is fixed   *)
(* at most once, every provider call carries that message, and it ends at  *)
(* most once.  Delivery is at least once: a call may be repeated, and one  *)
(* already under way may land after the execution has ended.               *)
(***************************************************************************)
CONSTANTS Executions, Messages, NoMessage

VARIABLES
    phase,    \* the status LatestStatusByKey reports, with both active ones merged
    message,  \* the rendered message of each execution, NoMessage before it is fixed
    calls     \* the provider calls made: pairs of execution and message

cvars == <<phase, message, calls>>

Ends == {"completed", "dead_letter", "canceled", "superseded"}

CInit ==
    /\ phase = [e \in Executions |-> "unknown"]
    /\ message = [e \in Executions |-> NoMessage]
    /\ calls = {}

\* A new execution is admitted, alone or in place of older ones (Replace).
Admit(e, retired) ==
    /\ phase[e] = "unknown"
    /\ \A r \in retired : phase[r] = "active"
    /\ phase' = [x \in Executions |->
                    IF x = e THEN "active" ELSE IF x \in retired THEN "superseded" ELSE phase[x]]
    /\ UNCHANGED <<message, calls>>

Fix(e, m) ==
    /\ phase[e] = "active"
    /\ message[e] = NoMessage
    /\ message' = [message EXCEPT ![e] = m]
    /\ UNCHANGED <<phase, calls>>

Call(e) ==
    /\ message[e] # NoMessage
    /\ calls' = calls \cup {<<e, message[e]>>}
    /\ UNCHANGED <<phase, message>>

End(e, how) ==
    /\ phase[e] = "active"
    /\ phase' = [phase EXCEPT ![e] = how]
    /\ UNCHANGED <<message, calls>>

CNext ==
    \E e \in Executions :
        \/ \E retired \in SUBSET Executions : Admit(e, retired)
        \/ \E m \in Messages : Fix(e, m)
        \/ Call(e)
        \/ \E how \in Ends : End(e, how)

CSpec == CInit /\ [][CNext]_cvars
=============================================================================
