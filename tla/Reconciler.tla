----------------------------- MODULE Reconciler -----------------------------
(***************************************************************************)
(* The AivenApplication reconciler. One run for the application's key is   *)
(* in progress in a process at a time; between its calls to Kubernetes and *)
(* to Aiven anything else may happen. The step after the application is    *)
(* read waits until the janitor has taken the application off the channel  *)
(* appChanges (module Janitor); here it may take any time.                 *)
(***************************************************************************)
EXTENDS Cluster

VARIABLE rec   (* rec[p]: the run of the reconciler in process p *)

(***************************************************************************)
(* A run: where it is, the application as it was read, the position in the *)
(* list of requested Secrets, and what will be made of it in the end.      *)
(***************************************************************************)
Run ==
  [pc : {"idle", "check", "create", "save", "status"}, app : AppObject,
   next : Nat,
   outcome : {"none", "unchanged", "synced", "failed", "failed for good"}]

NoRun == [pc |-> "idle", app |-> NewApp, next |-> 1, outcome |-> "none"]

Hash(o)   == History[o.gen]
Wanted(r) == Wants[Hash(r.app)]

\* On to a Secret of the list, or to the status update.
At(r, pc, next)   == [pc |-> pc, app |-> r.app, next |-> next, outcome |-> "none"]
Ended(r, outcome) == [pc |-> "status", app |-> r.app, next |-> 1, outcome |-> outcome]

\* A slip: an error is logged and the run goes on to report success.
Failed_Ignored(r, outcome) == Ended(r, "synced")

Failed(r, outcome) == Ended(r, outcome)

\* One Secret is done: on to the next, or from building all of them to saving
\* all of them, or from saving to success.
Advance_First(r) ==   \* a slip: only the first Secret is worked on
  IF r.pc = "create" THEN At(r, "save", 1) ELSE Ended(r, "synced")

Advance(r) ==
  IF r.next < Len(Wanted(r)) THEN At(r, r.pc, r.next + 1)
  ELSE IF r.pc = "create"    THEN At(r, "save", 1)
  ELSE Ended(r, "synced")

-----------------------------------------------------------------------------
\* An application that is gone already counts as deleted.
DeleteApplication ==
  app' = IF app.exists THEN [app EXCEPT !.rv = @ + 1, !.exists = FALSE] ELSE app

\* The run reads the application. One that is gone is left alone; one that
\* has expired is deleted, protected or not, and its status is not written. A
\* failed read or delete is tried again.
Start(p) ==
  /\ rec[p].pc = "idle"
  /\ appQ[p] = "ready"
  /\ \/ /\ ~ seen[p].exists
        /\ appQ' = [appQ EXCEPT ![p] = "none"]
        /\ UNCHANGED <<app, rec, budgets>>
     \/ /\ seen[p].exists
        /\ expired
        /\ appQ' = [appQ EXCEPT ![p] = "none"]
        /\ DeleteApplication
        /\ UNCHANGED <<rec, budgets>>
     \/ /\ Fault("kube")
        /\ appQ' = [appQ EXCEPT ![p] = "delayed"]
        /\ UNCHANGED <<app, rec>>
     \/ /\ seen[p].exists
        /\ ~ expired
        /\ appQ' = [appQ EXCEPT ![p] = "none"]
        /\ rec' = [rec EXCEPT ![p] =
                     [pc |-> "check", app |-> seen[p], next |-> 1, outcome |-> "none"]]
        /\ UNCHANGED <<app, budgets>>
  /\ UNCHANGED <<expired, secret, users, caches, finQ>>

MissingSecret(p, r) ==
  \E i \in 1 .. Len(Wanted(r)) : ~ Present(cache[p][Wanted(r)[i]])

NeedsSynchronization(p, r) ==
  \/ r.app.hash # Hash(r.app)
  \/ MissingSecret(p, r)

\* Does anything have to be done? The hash tells, and then the informer cache,
\* where a Secret that is being deleted still counts as there.
CheckSync(p) ==
  LET r == rec[p] IN
  /\ r.pc = "check"
  /\ \/ /\ rec' = [rec EXCEPT ![p] =
              IF ~ NeedsSynchronization(p, r)
                THEN Ended(r, "unchanged")
              ELSE IF Wanted(r) = <<>>
                THEN Ended(r, "synced")
              ELSE At(r, "create", 1)]
        /\ UNCHANGED budgets
     \/ /\ Fault("kube")
        /\ rec' = [rec EXCEPT ![p] = Failed(r, "failed")]
  /\ UNCHANGED <<objects, caches, queues>>

\* The handler of the next Secret makes sure of the service user: it reuses
\* the one of that name or creates it. A failed call may have had its effect.
\* Kafka deletes the user again when its keystores cannot be made, also when
\* the user was there before.
CreateSecret(p) ==
  LET r == rec[p]
      s == Wanted(r)[r.next]
      u == UserOf(s, r.app.gen)
  IN
  /\ r.pc = "create"
  /\ \/ /\ users' = provideServiceUser(u)
        /\ rec' = [rec EXCEPT ![p] = Advance(r)]
        /\ UNCHANGED budgets
     \/ /\ Fault("aiven")
        /\ users' \in {users, provideServiceUser(u)}
        /\ rec' = [rec EXCEPT ![p] = Failed(r, "failed")]
     \/ /\ Fault("unrecoverable")
        /\ users' \in {users, provideServiceUser(u)}
        /\ rec' = [rec EXCEPT ![p] = Failed(r, "failed for good")]
     \/ /\ Service[s] = "kafka"
        /\ Fault("credstore")
        /\ users' = DeleteServiceUser(u)
        /\ rec' = [rec EXCEPT ![p] = Failed(r, "failed")]
  /\ UNCHANGED <<app, expired, secret, caches, queues>>

\* A Secret the cache does not hold is created, any other one is replaced at
\* the version the cache holds.
WriteAccepted(old, current) ==
  IF Present(old) THEN Fresh(old, current) ELSE ~ Present(current)

SaveSecret(p) ==
  LET r == rec[p]
      s == Wanted(r)[r.next]
      accepted == WriteAccepted(cache[p][s], secret[s])
      written  == [secret EXCEPT ![s] = Saved(@, r.app.gen)]
  IN
  /\ r.pc = "save"
  /\ \/ /\ accepted
        /\ secret' = written
        /\ rec' = [rec EXCEPT ![p] = Advance(r)]
        /\ UNCHANGED budgets
     \/ /\ ~ accepted
        /\ secret' = secret
        /\ rec' = [rec EXCEPT ![p] = Failed(r, "failed")]
        /\ UNCHANGED budgets
     \/ /\ Fault("kube")
        /\ secret' \in {secret, IF accepted THEN written ELSE secret}
        /\ rec' = [rec EXCEPT ![p] = Failed(r, "failed")]
  /\ UNCHANGED <<app, expired, users, caches, queues>>

-----------------------------------------------------------------------------
(***************************************************************************)
(* The deferred status update. When it fails nothing is tried again; only  *)
(* what the run itself came to decides whether the key is requeued.        *)
(***************************************************************************)
Status(hash, state, syncGen) == [hash |-> hash, state |-> state, syncGen |-> syncGen]

\* A slip: the generation that comes next is recorded as synchronized.
success_OffByOne(o) == Status(Hash(o), "RolloutComplete", o.gen + 1)

success(o) == Status(Hash(o), "RolloutComplete", o.gen)

\* A slip: the hash is stored although the run has failed.
NewStatus_HashFirst(r) ==
  CASE r.outcome = "synced"    -> success(r.app)
    [] r.outcome = "unchanged" -> Status(r.app.hash, r.app.state, r.app.syncGen)
    [] OTHER -> Status(Hash(r.app), "RolloutFailed", r.app.syncGen)

NewStatus(r) ==
  CASE r.outcome = "synced"    -> success(r.app)
    [] r.outcome = "unchanged" -> Status(r.app.hash, r.app.state, r.app.syncGen)
    [] OTHER -> Status(r.app.hash, "RolloutFailed", r.app.syncGen)

\* The status is written at the version the run has read. (A slip: at any.)
StatusAccepted_Patch(r) == app.exists

StatusAccepted(r) == app.exists /\ app.rv = r.app.rv

WithStatus(o, status) ==
  [rv |-> o.rv + 1, exists |-> o.exists, gen |-> o.gen, nudges |-> o.nudges,
   hash |-> status.hash, state |-> status.state, syncGen |-> status.syncGen]

\* What may pass is tried again, after ten or a hundred seconds. (A slip:
\* nothing is.)
Requeued_Never(r) == FALSE

Requeued(r) == r.outcome = "failed"

UpdateStatus(p) ==
  LET r == rec[p] IN
  /\ r.pc = "status"
  /\ \/ /\ app' = IF StatusAccepted(r)
                  THEN WithStatus(app, NewStatus(r)) ELSE app
        /\ UNCHANGED budgets
     \/ /\ Fault("status")
        /\ app' = app
  /\ rec' = [rec EXCEPT ![p] = NoRun]
  /\ appQ' = IF Requeued(r)
             THEN [appQ EXCEPT ![p] = AddAfter(@)] ELSE appQ
  /\ UNCHANGED <<expired, secret, users, caches, finQ>>

-----------------------------------------------------------------------------
RecInit == rec = [p \in Processes |-> NoRun]

RecStep(p) ==
  Start(p) \/ CheckSync(p) \/ CreateSecret(p) \/ SaveSecret(p) \/ UpdateStatus(p)

RecTypeOK == rec \in [Processes -> Run]
=============================================================================
