------------------------------ MODULE Finalizer ------------------------------
(***************************************************************************)
(* The Secret finalizer: for every Secret that is being deleted, the       *)
(* service user it names is deleted in Aiven and then the finalizer is     *)
(* taken off the Secret. The run never looks at the deletion timestamp: it *)
(* relies on the event filter for having been queued.                      *)
(***************************************************************************)
EXTENDS Cluster

VARIABLE fin   (* fin[p][s]: the finalizer's run for s in process p *)

FinRun == [pc : {"idle", "cleanup", "update"}, read : SecretObject]

NoFinRun == [pc |-> "idle", read |-> NoSecret]

\* The failed run is tried again after a delay.
failRetry(p, s) ==
  /\ fin' = [fin EXCEPT ![p][s] = NoFinRun]
  /\ finQ' = [finQ EXCEPT ![p][s] = AddAfter(@)]

\* A Secret that is gone from the cache is left alone; any other is finalized.
\* A failed read is tried again.
FinStart(p, s) ==
  /\ fin[p][s].pc = "idle"
  /\ finQ[p][s] = "ready"
  /\ \/ /\ finQ' = [finQ EXCEPT ![p][s] = "none"]
        /\ fin' = IF Present(cache[p][s])
                  THEN [fin EXCEPT ![p][s] = [pc |-> "cleanup", read |-> cache[p][s]]]
                  ELSE fin
        /\ UNCHANGED budgets
     \/ /\ Fault("kube")
        /\ finQ' = [finQ EXCEPT ![p][s] = "delayed"]
        /\ fin' = fin
  /\ UNCHANGED <<objects, caches, appQ>>

\* When Aiven fails, Kafka and OpenSearch report it and the run is tried again;
\* Valkey only logs it and goes on.
Swallowed(s) == Service[s] = "valkey"

\* The handlers delete the user the annotations name. A failed call may have
\* had its effect.
Cleanup(p, s) ==
  LET u == UserOf(s, fin[p][s].read.gen) IN
  /\ fin[p][s].pc = "cleanup"
  /\ \/ /\ users' = DeleteServiceUser(u)
        /\ fin' = [fin EXCEPT ![p][s].pc = "update"]
        /\ UNCHANGED <<finQ, budgets>>
     \/ /\ Fault("aiven")
        /\ users' \in {users, DeleteServiceUser(u)}
        /\ IF Swallowed(s)
           THEN /\ fin' = [fin EXCEPT ![p][s].pc = "update"]
                /\ UNCHANGED finQ
           ELSE failRetry(p, s)
  /\ UNCHANGED <<app, expired, secret, caches, appQ>>

\* The finalizer is taken off the Secret at the version that was read; a
\* conflict, or a failure of which the effect is unknown, is tried again.
RemoveFinalizer(p, s) ==
  LET accepted == Fresh(fin[p][s].read, secret[s])
      written  == [secret EXCEPT ![s] = Unfinalized(@)]
  IN
  /\ fin[p][s].pc = "update"
  /\ \/ /\ accepted
        /\ secret' = written
        /\ fin' = [fin EXCEPT ![p][s] = NoFinRun]
        /\ UNCHANGED <<finQ, budgets>>
     \/ /\ ~ accepted
        /\ secret' = secret
        /\ failRetry(p, s)
        /\ UNCHANGED budgets
     \/ /\ Fault("kube")
        /\ secret' \in {secret, IF accepted THEN written ELSE secret}
        /\ failRetry(p, s)
  /\ UNCHANGED <<app, expired, users, caches, appQ>>

-----------------------------------------------------------------------------
FinInit == fin = [p \in Processes |-> [s \in Secrets |-> NoFinRun]]

FinStep(p, s) == FinStart(p, s) \/ Cleanup(p, s) \/ RemoveFinalizer(p, s)

FinTypeOK == fin \in [Processes -> [Secrets -> FinRun]]
=============================================================================
