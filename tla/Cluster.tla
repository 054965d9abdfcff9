------------------------------ MODULE Cluster ------------------------------
(***************************************************************************)
(* The world Aivenator runs in, as far as its controllers can tell: one    *)
(* AivenApplication and the Secrets it may ask for in the Kubernetes API   *)
(* server, the service users in Aiven, and for each running Aivenator      *)
(* process the informer cache and the work queues of its two controllers.  *)
(* The controllers themselves are in Reconciler and Finalizer.             *)
(*                                                                         *)
(* Every write to an object raises its resource version, also the write    *)
(* that removes it, so that a re-created object never has an old version.  *)
(***************************************************************************)
EXTENDS Naturals, Sequences

CONSTANTS
  Processes,   (* running Aivenator processes                              *)
  Secrets,     (* names of the Secrets, all in the application's namespace *)
  History,     (* the specs users apply, in order: generation g has        *)
               (* History[g]. A repeated entry is a spec that was reverted *)
  Wants,       (* Wants[spec]: the Secrets a spec asks for, in the order   *)
               (* in which the service handlers build them                 *)
  Service,     (* Service[s]: the Aiven service Secret s is for            *)
  Expiring,    (* whether the application has an ExpiresAt                 *)
  Changes,     (* the kinds of outside change that may happen ...          *)
  MaxChanges,  (* ... and how often in all                                 *)
  Faults,      (* the kinds of fault that may happen ...                   *)
  MaxFaults    (* ... and how often in all                                 *)

Specs       == {History[g] : g \in 1 .. Len(History)}
Services    == {"kafka", "opensearch", "valkey"}
ChangeKinds == {"touch", "clear hash", "delete secret", "delete app"}
FaultKinds  == {"aiven", "unrecoverable", "credstore", "kube", "status",
                "crash", "lag"}

NoHash == ""
Hashes == Specs \cup {NoHash}
States == {"", "RolloutComplete", "RolloutFailed"}

ASSUME HistoryAssumption ==
  /\ History \in Seq(Specs)
  /\ Len(History) >= 1
  /\ NoHash \notin Specs

ASSUME WantsAssumption ==
  /\ Wants \in [Specs -> Seq(Secrets)]
  /\ Service \in [Secrets -> Services]

ASSUME BoundsAssumption ==
  /\ Expiring \in BOOLEAN
  /\ Changes \subseteq ChangeKinds
  /\ Faults \subseteq FaultKinds
  /\ MaxChanges \in Nat
  /\ MaxFaults \in Nat

VARIABLES
  app,      (* the AivenApplication in the API server                      *)
  expired,  (* whether its ExpiresAt has passed                            *)
  secret,   (* the Secrets in the API server                               *)
  users,    (* the service users that exist in Aiven                       *)
  seen,     (* seen[p]: the application in the informer cache of p         *)
  cache,    (* cache[p]: the Secrets in the informer cache of p            *)
  appQ,     (* appQ[p]: the application's place in the reconciler's queue  *)
  finQ,     (* finQ[p][s]: the place of s in the finalizer's queue         *)
  changes,  (* outside changes so far                                      *)
  faults    (* faults so far                                               *)

objects  == <<app, expired, secret, users>>
caches   == <<seen, cache>>
queues   == <<appQ, finQ>>
budgets  == <<changes, faults>>

-----------------------------------------------------------------------------
(***************************************************************************)
(* Objects.                                                                *)
(***************************************************************************)

\* What the program tells apart of an AivenApplication. "nudges" counts the
\* updates that the reconciler's event filter lets through although they leave
\* the generation alone.
AppObject ==
  [rv : Nat, exists : BOOLEAN, gen : 1 .. Len(History), nudges : Nat,
   hash : Hashes, state : States, syncGen : 0 .. Len(History)]

\* A Secret: its annotations name the service user that was provided for
\* generation "gen" of the application.
SecretObject ==
  [rv : Nat, phase : {"absent", "live", "terminating"},
   gen : 0 .. Len(History), finalizer : BOOLEAN]

NewApp ==
  [rv |-> 1, exists |-> TRUE, gen |-> 1, nudges |-> 0,
   hash |-> NoHash, state |-> "", syncGen |-> 0]

NoSecret == [rv |-> 0, phase |-> "absent", gen |-> 0, finalizer |-> FALSE]

Present(o) == o.phase # "absent"

\* The service user of a Secret: the handlers derive its name from the
\* application and a suffix of the generation, in the service of the Secret.
UserOf(s, g) == <<s, g>>

\* The users once u is provided, which reuses a user of that name, and once u is
\* deleted, where a user that is not found is fine.
provideServiceUser(u) == users \cup {u}
DeleteServiceUser(u)  == users \ {u}

\* The writes the API server knows. Updating an object that is being deleted
\* does not revive it; deleting one that has a finalizer only marks it; taking
\* the last finalizer off a marked object removes it.
Written(o, phase, gen, finalizer) ==
  [rv |-> o.rv + 1, phase |-> phase, gen |-> gen, finalizer |-> finalizer]

Removed(o) == Written(o, "absent", 0, FALSE)

Saved(o, g) == Written(o, IF Present(o) THEN o.phase ELSE "live", g, TRUE)

Deleted(o) ==
  IF o.finalizer THEN Written(o, "terminating", o.gen, TRUE) ELSE Removed(o)

Unfinalized(o) ==
  IF o.phase = "terminating" THEN Removed(o)
  ELSE IF o.finalizer THEN Written(o, o.phase, o.gen, FALSE)
  ELSE o

\* Optimistic concurrency: a write that carries the version of the object as
\* it was read is accepted only while the object still has that version.
\* A slip: the write carries no version.
Fresh_Unversioned(read, current) == Present(current)

Fresh(read, current) == Present(current) /\ read.rv = current.rv

-----------------------------------------------------------------------------
(***************************************************************************)
(* Work queues. A key has one entry; an entry is ready or waits for its    *)
(* delay, and an immediate add makes a waiting entry ready.                *)
(***************************************************************************)

QueueEntry == {"none", "delayed", "ready"}

AddAfter(entry) == IF entry = "ready" THEN "ready" ELSE "delayed"

Change(kind) ==
  /\ kind \in Changes
  /\ changes < MaxChanges
  /\ changes' = changes + 1
  /\ UNCHANGED faults

Fault(kind) ==
  /\ kind \in Faults
  /\ faults < MaxFaults
  /\ faults' = faults + 1
  /\ UNCHANGED changes

-----------------------------------------------------------------------------
(***************************************************************************)
(* Events. A delivery brings a cache to the server's current state: the    *)
(* versions in between are delivered in the same step.                     *)
(***************************************************************************)

\* The predicates of the reconciler: generation, annotations or labels
\* changed, the hash was emptied, or the object came or went. A resync, which
\* repeats what the cache holds, passes none of them.
AppEventPasses(old, new) ==
  \/ new.exists # old.exists
  \/ new.gen # old.gen
  \/ new.nudges # old.nudges

\* The filter of the finalizer: only updates of Secrets that are being deleted
\* and carry the finalizer. (A slip: that have no deletion timestamp.)
SecretEventPasses_Zero(new) == new.phase = "live" /\ new.finalizer

SecretEventPasses(new) == new.phase = "terminating" /\ new.finalizer

DeliverApp(p) ==
  /\ seen[p] # app
  /\ seen' = [seen EXCEPT ![p] = app]
  /\ appQ' = IF AppEventPasses(seen[p], app)
             THEN [appQ EXCEPT ![p] = "ready"] ELSE appQ
  /\ UNCHANGED <<objects, cache, finQ, budgets>>

DeliverSecret(p, s) ==
  /\ cache[p][s] # secret[s]
  /\ cache' = [cache EXCEPT ![p][s] = secret[s]]
  /\ finQ' = IF SecretEventPasses(secret[s])
             THEN [finQ EXCEPT ![p][s] = "ready"] ELSE finQ
  /\ UNCHANGED <<objects, seen, appQ, budgets>>

\* The periodic resync replays every cached object as an update of itself.
Resync(p) ==
  /\ finQ' = [finQ EXCEPT ![p] =
                [s \in Secrets |-> IF SecretEventPasses(cache[p][s])
                                   THEN "ready" ELSE finQ[p][s]]]
  /\ UNCHANGED <<objects, caches, appQ, budgets>>

\* A requeue delay of ten seconds or more runs out. The informer has caught up
\* by then; a watch that is further behind is a fault.
AppDelayEnds(p) ==
  /\ appQ[p] = "delayed"
  /\ appQ' = [appQ EXCEPT ![p] = "ready"]
  /\ \/ seen[p] = app /\ cache[p] = secret /\ UNCHANGED budgets
     \/ Fault("lag")
  /\ UNCHANGED <<objects, caches, finQ>>

SecretDelayEnds(p, s) ==
  /\ finQ[p][s] = "delayed"
  /\ finQ' = [finQ EXCEPT ![p][s] = "ready"]
  /\ \/ cache[p][s] = secret[s] /\ UNCHANGED budgets
     \/ Fault("lag")
  /\ UNCHANGED <<objects, caches, appQ>>

-----------------------------------------------------------------------------
(***************************************************************************)
(* What users, operators, naiserator and the janitor do to the objects.    *)
(***************************************************************************)

EditSpec ==
  /\ app.exists
  /\ app.gen < Len(History)
  /\ app' = [app EXCEPT !.rv = @ + 1, !.gen = @ + 1]
  /\ UNCHANGED <<expired, secret, users, caches, queues, budgets>>

\* A new deployment correlation id or another annotation or label.
TouchApp ==
  /\ app.exists
  /\ Change("touch")
  /\ app' = [app EXCEPT !.rv = @ + 1, !.nudges = @ + 1]
  /\ UNCHANGED <<expired, secret, users, caches, queues>>

\* The redeploy script empties status.synchronizationHash.
ClearHash ==
  /\ app.exists
  /\ app.hash # NoHash
  /\ Change("clear hash")
  /\ app' = [app EXCEPT !.rv = @ + 1, !.nudges = @ + 1, !.hash = NoHash]
  /\ UNCHANGED <<expired, secret, users, caches, queues>>

DeleteApp ==
  /\ app.exists
  /\ Change("delete app")
  /\ app' = [app EXCEPT !.rv = @ + 1, !.exists = FALSE]
  /\ UNCHANGED <<expired, secret, users, caches, queues>>

\* The janitor, or a user, deletes a Secret.
DeleteSecret(s) ==
  /\ secret[s].phase = "live"
  /\ Change("delete secret")
  /\ secret' = [secret EXCEPT ![s] = Deleted(@)]
  /\ UNCHANGED <<app, expired, users, caches, queues>>

ExpiryPasses ==
  /\ Expiring
  /\ ~expired
  /\ expired' = TRUE
  /\ UNCHANGED <<app, secret, users, caches, queues, budgets>>

-----------------------------------------------------------------------------
\* A process that starts lists the objects: the application's create event
\* reaches the reconciler's queue, the Secrets' create events are filtered out.
ClusterInit ==
  /\ app = NewApp
  /\ expired = FALSE
  /\ secret = [s \in Secrets |-> NoSecret]
  /\ users = {}
  /\ seen = [p \in Processes |-> app]
  /\ cache = [p \in Processes |-> secret]
  /\ appQ = [p \in Processes |-> "ready"]
  /\ finQ = [p \in Processes |-> [s \in Secrets |-> "none"]]
  /\ changes = 0
  /\ faults = 0

ProcessStarts(p) ==
  /\ seen' = [seen EXCEPT ![p] = app]
  /\ cache' = [cache EXCEPT ![p] = secret]
  /\ appQ' = [appQ EXCEPT ![p] = IF app.exists THEN "ready" ELSE "none"]
  /\ finQ' = [finQ EXCEPT ![p] = [s \in Secrets |-> "none"]]

ClusterTypeOK ==
  /\ app \in AppObject
  /\ expired \in BOOLEAN
  /\ secret \in [Secrets -> SecretObject]
  /\ users \subseteq Secrets \X (1 .. Len(History))
  /\ seen \in [Processes -> AppObject]
  /\ cache \in [Processes -> [Secrets -> SecretObject]]
  /\ appQ \in [Processes -> QueueEntry]
  /\ finQ \in [Processes -> [Secrets -> QueueEntry]]
  /\ changes \in Nat
  /\ faults \in Nat
=============================================================================
