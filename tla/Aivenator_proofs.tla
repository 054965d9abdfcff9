-------------------------- MODULE Aivenator_proofs --------------------------
(***************************************************************************)
(* What holds of Aivenator for any number of processes, Secrets and spec   *)
(* changes, and for any faults: the types of its state, and that the       *)
(* resource versions protect what the finalizer removes.                   *)
(***************************************************************************)
EXTENDS Aivenator, TLAPS

-----------------------------------------------------------------------------
(***************************************************************************)
(* Types. A run that works on Secrets is at one the application asks for.  *)
(***************************************************************************)
AtSecret(r) == r.pc \in {"create", "save"} => r.next \in 1 .. Len(Wanted(r))

InRange == \A p \in Processes : AtSecret(rec[p])

TypeInv == TypeOK /\ InRange

\* The hash of an application is one of the specs, and what a spec asks for is
\* a sequence of Secrets.
LEMMA HashType ==
  ASSUME NEW o \in AppObject
  PROVE  Hash(o) \in Specs
BY HistoryAssumption DEF Hash, AppObject, Specs

LEMMA WantedType ==
  ASSUME NEW r \in Run
  PROVE  Wanted(r) \in Seq(Secrets) /\ Len(Wanted(r)) \in Nat
<1>1. r.app \in AppObject
  BY DEF Run
<1>2. Wanted(r) \in Seq(Secrets)
  BY <1>1, HashType, WantsAssumption DEF Wanted
<1> QED
  BY <1>2

\* A write to a Secret raises its version by one and leaves a Secret.
LEMMA WrittenType ==
  ASSUME NEW o \in SecretObject, NEW phase \in {"absent", "live", "terminating"},
         NEW g \in 0 .. Len(History), NEW f \in BOOLEAN
  PROVE  /\ Written(o, phase, g, f) \in SecretObject
         /\ Written(o, phase, g, f).rv = o.rv + 1
<1>1. o.rv + 1 \in Nat
  BY DEF SecretObject
<1> QED
  BY <1>1 DEF Written, SecretObject

LEMMA RemovedType ==
  ASSUME NEW o \in SecretObject
  PROVE  Removed(o) \in SecretObject /\ Removed(o).rv = o.rv + 1
<1>1. 0 \in 0 .. Len(History)
  BY HistoryAssumption
<1> QED
  BY <1>1, WrittenType DEF Removed

LEMMA SavedType ==
  ASSUME NEW o \in SecretObject, NEW g \in 1 .. Len(History)
  PROVE  Saved(o, g) \in SecretObject /\ Saved(o, g).rv = o.rv + 1
<1>1. g \in 0 .. Len(History)
  BY HistoryAssumption
<1>2. (IF Present(o) THEN o.phase ELSE "live") \in {"absent", "live", "terminating"}
  BY DEF SecretObject
<1> QED
  BY <1>1, <1>2, WrittenType DEF Saved

LEMMA DeletedType ==
  ASSUME NEW o \in SecretObject
  PROVE  Deleted(o) \in SecretObject /\ Deleted(o).rv = o.rv + 1
<1>1. o.gen \in 0 .. Len(History)
  BY DEF SecretObject
<1>2. CASE o.finalizer
  BY <1>1, <1>2, WrittenType DEF Deleted
<1>3. CASE ~ o.finalizer
  BY <1>3, RemovedType DEF Deleted
<1> QED
  BY <1>2, <1>3

LEMMA UnfinalizedType ==
  ASSUME NEW o \in SecretObject
  PROVE  /\ Unfinalized(o) \in SecretObject
         /\ Unfinalized(o) = o \/ Unfinalized(o).rv = o.rv + 1
<1>1. o.gen \in 0 .. Len(History) /\ o.phase \in {"absent", "live", "terminating"}
  BY DEF SecretObject
<1>2. CASE o.phase = "terminating"
  BY <1>2, RemovedType DEF Unfinalized
<1>3. CASE o.phase # "terminating" /\ o.finalizer
  BY <1>1, <1>3, WrittenType DEF Unfinalized
<1>4. CASE o.phase # "terminating" /\ ~ o.finalizer
  BY <1>4 DEF Unfinalized
<1> QED
  BY <1>2, <1>3, <1>4

LEMMA InitialObjects ==
  /\ NewApp \in AppObject
  /\ NoSecret \in SecretObject
  /\ NoRun \in Run /\ AtSecret(NoRun)
  /\ NoFinRun \in FinRun
<1>1. Len(History) \in Nat /\ Len(History) >= 1
  BY HistoryAssumption
<1>2. NewApp \in AppObject
  BY <1>1 DEF NewApp, AppObject, Hashes, States
<1>3. NoSecret \in SecretObject
  BY <1>1 DEF NoSecret, SecretObject
<1> QED
  BY <1>2, <1>3 DEF NoRun, Run, NoFinRun, FinRun, AtSecret

LEMMA AtType ==
  ASSUME NEW r \in Run, NEW pc \in {"check", "create", "save"}, NEW n \in Nat
  PROVE  At(r, pc, n) \in Run /\ Wanted(At(r, pc, n)) = Wanted(r)
BY DEF At, Run, Wanted

LEMMA EndedType ==
  ASSUME NEW r \in Run,
         NEW outcome \in {"unchanged", "synced", "failed", "failed for good"}
  PROVE  Ended(r, outcome) \in Run /\ AtSecret(Ended(r, outcome))
BY DEF Ended, Run, AtSecret

LEMMA AdvanceType ==
  ASSUME NEW r \in Run, AtSecret(r), r.pc \in {"create", "save"}
  PROVE  Advance(r) \in Run /\ AtSecret(Advance(r))
<1>1. Len(Wanted(r)) \in Nat /\ r.next \in 1 .. Len(Wanted(r))
  BY WantedType DEF AtSecret
<1>2. CASE r.next < Len(Wanted(r))
  <2>1. r.next + 1 \in Nat /\ r.next + 1 \in 1 .. Len(Wanted(r))
    BY <1>1, <1>2
  <2>2. Advance(r) = At(r, r.pc, r.next + 1)
    BY <1>2 DEF Advance
  <2>3. At(r, r.pc, r.next + 1).next = r.next + 1
    BY DEF At
  <2>4. /\ At(r, r.pc, r.next + 1) \in Run
        /\ Wanted(At(r, r.pc, r.next + 1)) = Wanted(r)
    BY <2>1, AtType
  <2> QED
    BY <2>1, <2>2, <2>3, <2>4, Zenon DEF AtSecret
<1>3. CASE ~ (r.next < Len(Wanted(r))) /\ r.pc = "create"
  <2>1. Advance(r) = At(r, "save", 1)
    BY <1>3 DEF Advance
  <2>2. At(r, "save", 1).next = 1 /\ 1 \in 1 .. Len(Wanted(r))
    BY <1>1 DEF At
  <2>3. At(r, "save", 1) \in Run /\ Wanted(At(r, "save", 1)) = Wanted(r)
    BY AtType
  <2> QED
    BY <2>1, <2>2, <2>3, Zenon DEF AtSecret
<1>4. CASE ~ (r.next < Len(Wanted(r))) /\ r.pc # "create"
  <2>1. Advance(r) = Ended(r, "synced")
    BY <1>4 DEF Advance
  <2> QED
    BY <2>1, EndedType
<1> QED
  BY <1>2, <1>3, <1>4

\* What a status update leaves of an application is an application again.
StatusSet ==
  [hash : Hashes, state : States, syncGen : 0 .. Len(History)]

LEMMA NewStatusType ==
  ASSUME NEW r \in Run
  PROVE  NewStatus(r) \in StatusSet
<1>1. r.app \in AppObject
  BY DEF Run
<1>2. r.app.hash \in Hashes /\ Hash(r.app) \in Hashes
  BY <1>1, HashType DEF AppObject, Hashes
<1>3. /\ r.app.state \in States
      /\ "RolloutComplete" \in States
      /\ "RolloutFailed" \in States
  BY <1>1 DEF AppObject, States
<1>4. r.app.syncGen \in 0 .. Len(History) /\ r.app.gen \in 1 .. Len(History)
  BY <1>1 DEF AppObject
<1>5. r.app.gen \in 0 .. Len(History)
  BY <1>4, HistoryAssumption
<1>6. CASE r.outcome = "synced"
  BY <1>2, <1>3, <1>5, <1>6 DEF NewStatus, success, Status, StatusSet
<1>7. CASE r.outcome = "unchanged"
  BY <1>2, <1>3, <1>4, <1>7 DEF NewStatus, Status, StatusSet
<1>8. CASE r.outcome \notin {"synced", "unchanged"}
  BY <1>2, <1>3, <1>4, <1>8 DEF NewStatus, Status, StatusSet
<1> QED
  BY <1>6, <1>7, <1>8

LEMMA WithStatusType ==
  ASSUME NEW o \in AppObject, NEW status \in StatusSet
  PROVE  WithStatus(o, status) \in AppObject
BY DEF WithStatus, AppObject, StatusSet
-----------------------------------------------------------------------------
(***************************************************************************)
(* Every action keeps the types, one lemma for each group of actions.      *)
(***************************************************************************)
\* The parts of the types that a step leaves alone, by what it leaves alone.
LEMMA RunsKept ==
  ASSUME TypeInv, UNCHANGED <<rec, fin>>
  PROVE  RecTypeOK' /\ InRange' /\ FinTypeOK'
BY DEF TypeInv, TypeOK, RecTypeOK, FinTypeOK, InRange, AtSecret, Wanted, Hash

\* A run of the reconciler is replaced by a run.
LEMMA RunReplaced ==
  ASSUME TypeInv, NEW p \in Processes, NEW r \in Run, AtSecret(r),
         rec' = [rec EXCEPT ![p] = r]
  PROVE  RecTypeOK' /\ InRange'
<1>1. rec \in [Processes -> Run]
  BY DEF TypeInv, TypeOK, RecTypeOK
<1>2. rec' \in [Processes -> Run]
  BY <1>1
<1>3. \A q \in Processes : rec'[q] = r \/ rec'[q] = rec[q]
  BY <1>1
<1>4. \A q \in Processes : AtSecret(rec'[q])
  BY <1>3 DEF TypeInv, InRange
<1> QED
  BY <1>2, <1>4 DEF RecTypeOK, InRange, AtSecret, Wanted, Hash

LEMMA CountsType ==
  ASSUME ClusterTypeOK, NEW kind, Change(kind) \/ Fault(kind) \/ UNCHANGED budgets
  PROVE  changes' \in Nat /\ faults' \in Nat
BY DEF ClusterTypeOK, Change, Fault, budgets

\* What users and the redeploy script make of an application is one again.
LEMMA ChangedAppType ==
  ASSUME app \in AppObject
  PROVE  /\ app.gen < Len(History) =>
              [app EXCEPT !.rv = @ + 1, !.gen = @ + 1] \in AppObject
         /\ [app EXCEPT !.rv = @ + 1, !.nudges = @ + 1] \in AppObject
         /\ [app EXCEPT !.rv = @ + 1, !.nudges = @ + 1, !.hash = NoHash] \in AppObject
         /\ [app EXCEPT !.rv = @ + 1, !.exists = FALSE] \in AppObject
<1>1. /\ app.rv + 1 \in Nat /\ app.nudges + 1 \in Nat /\ NoHash \in Hashes
      /\ app.gen < Len(History) => app.gen + 1 \in 1 .. Len(History)
  BY HistoryAssumption DEF AppObject, Hashes
<1>2. ASSUME NEW n \in Nat, NEW k \in Nat, NEW g \in 1 .. Len(History),
             NEW h \in Hashes
      PROVE  /\ [app EXCEPT !.rv = n, !.gen = g] \in AppObject
             /\ [app EXCEPT !.rv = n, !.nudges = k] \in AppObject
             /\ [app EXCEPT !.rv = n, !.nudges = k, !.hash = h] \in AppObject
             /\ [app EXCEPT !.rv = n, !.exists = FALSE] \in AppObject
  <2>1. [app EXCEPT !.rv = n, !.gen = g] \in AppObject
    BY DEF AppObject
  <2>2. [app EXCEPT !.rv = n, !.nudges = k] \in AppObject
    BY DEF AppObject
  <2>3. [app EXCEPT !.rv = n, !.nudges = k, !.hash = h] \in AppObject
    BY DEF AppObject
  <2>4. [app EXCEPT !.rv = n, !.exists = FALSE] \in AppObject
    BY DEF AppObject
  <2> QED
    BY <2>1, <2>2, <2>3, <2>4
<1>3. app.gen \in 1 .. Len(History)
  BY DEF AppObject
<1> QED
  BY <1>1, <1>2, <1>3, Zenon

LEMMA EnvironmentTypes ==
  ASSUME TypeInv, Environment
  PROVE  TypeInv'
<1>1. ClusterTypeOK
  BY DEF TypeInv, TypeOK
<1>2. RecTypeOK' /\ InRange' /\ FinTypeOK'
  BY RunsKept DEF Environment
<1>3. ClusterTypeOK'
  <2>1. CASE EditSpec
    <3>1. app' \in AppObject
      BY <1>1, <2>1, ChangedAppType, Zenon DEF EditSpec, ClusterTypeOK
    <3>2. UNCHANGED <<expired, secret, users, seen, cache, appQ, finQ, changes, faults>>
      BY <2>1, Zenon DEF EditSpec, caches, queues, budgets
    <3> QED
      BY <1>1, <3>1, <3>2 DEF ClusterTypeOK
  <2>2. CASE TouchApp
    <3>1. app' \in AppObject
      BY <1>1, <2>2, ChangedAppType, Zenon DEF TouchApp, ClusterTypeOK
    <3>2. UNCHANGED <<expired, secret, users, seen, cache, appQ, finQ>>
      BY <2>2, Zenon DEF TouchApp, caches, queues
    <3>3. changes' \in Nat /\ faults' \in Nat
      BY <1>1, <2>2, CountsType, Zenon DEF TouchApp
    <3> QED
      BY <1>1, <3>1, <3>2, <3>3 DEF ClusterTypeOK
  <2>3. CASE ClearHash
    <3>1. app' \in AppObject
      BY <1>1, <2>3, ChangedAppType, Zenon DEF ClearHash, ClusterTypeOK
    <3>2. UNCHANGED <<expired, secret, users, seen, cache, appQ, finQ>>
      BY <2>3, Zenon DEF ClearHash, caches, queues
    <3>3. changes' \in Nat /\ faults' \in Nat
      BY <1>1, <2>3, CountsType, Zenon DEF ClearHash
    <3> QED
      BY <1>1, <3>1, <3>2, <3>3 DEF ClusterTypeOK
  <2>4. CASE DeleteApp
    <3>1. app' \in AppObject
      BY <1>1, <2>4, ChangedAppType, Zenon DEF DeleteApp, ClusterTypeOK
    <3>2. UNCHANGED <<expired, secret, users, seen, cache, appQ, finQ>>
      BY <2>4, Zenon DEF DeleteApp, caches, queues
    <3>3. changes' \in Nat /\ faults' \in Nat
      BY <1>1, <2>4, CountsType, Zenon DEF DeleteApp
    <3> QED
      BY <1>1, <3>1, <3>2, <3>3 DEF ClusterTypeOK
  <2>5. CASE ExpiryPasses
    <3>1. expired' \in BOOLEAN
      BY <2>5, Zenon DEF ExpiryPasses
    <3>2. UNCHANGED <<app, secret, users, seen, cache, appQ, finQ, changes, faults>>
      BY <2>5, Zenon DEF ExpiryPasses, caches, queues, budgets
    <3> QED
      BY <1>1, <3>1, <3>2, Zenon DEF ClusterTypeOK
  <2>6. ASSUME NEW s \in Secrets, DeleteSecret(s)
        PROVE  ClusterTypeOK'
    <3>1. secret' \in [Secrets -> SecretObject]
      BY <1>1, <2>6, DeletedType DEF DeleteSecret, ClusterTypeOK
    <3>2. UNCHANGED <<app, expired, users, seen, cache, appQ, finQ>>
      BY <2>6, Zenon DEF DeleteSecret, caches, queues
    <3>3. changes' \in Nat /\ faults' \in Nat
      BY <1>1, <2>6, CountsType, Zenon DEF DeleteSecret
    <3> QED
      BY <1>1, <3>1, <3>2, <3>3 DEF ClusterTypeOK
  <2> QED
    BY <2>1, <2>2, <2>3, <2>4, <2>5, <2>6 DEF Environment
<1> QED
  BY <1>2, <1>3 DEF TypeInv, TypeOK

LEMMA DeliveryTypes ==
  ASSUME TypeInv, NEW p \in Processes, Delivery(p)
  PROVE  TypeInv'
<1>1. ClusterTypeOK
  BY DEF TypeInv, TypeOK
<1>2. RecTypeOK' /\ InRange' /\ FinTypeOK'
  BY RunsKept DEF Delivery
<1>3. ClusterTypeOK'
  <2>1. CASE DeliverApp(p)
    BY <1>1, <2>1 DEF DeliverApp, ClusterTypeOK, QueueEntry, objects, budgets
  <2>2. CASE AppDelayEnds(p)
    BY <1>1, <2>2 DEF AppDelayEnds, Fault, ClusterTypeOK, QueueEntry, objects,
         caches, budgets
  <2>3. CASE Resync(p)
    BY <1>1, <2>3 DEF Resync, ClusterTypeOK, QueueEntry, objects, caches, budgets
  <2>4. ASSUME NEW s \in Secrets, DeliverSecret(p, s)
        PROVE  ClusterTypeOK'
    BY <1>1, <2>4 DEF DeliverSecret, ClusterTypeOK, QueueEntry, objects, budgets
  <2>5. ASSUME NEW s \in Secrets, SecretDelayEnds(p, s)
        PROVE  ClusterTypeOK'
    BY <1>1, <2>5 DEF SecretDelayEnds, Fault, ClusterTypeOK, QueueEntry, objects,
         caches, budgets
  <2> QED
    BY <2>1, <2>2, <2>3, <2>4, <2>5 DEF Delivery
<1> QED
  BY <1>2, <1>3 DEF TypeInv, TypeOK
LEMMA StartTypes ==
  ASSUME TypeInv, NEW p \in Processes, Start(p), UNCHANGED fin
  PROVE  TypeInv'
<1>1. ClusterTypeOK /\ seen[p] \in AppObject
  BY DEF TypeInv, TypeOK, ClusterTypeOK
<1>2. FinTypeOK'
  BY DEF TypeInv, TypeOK, FinTypeOK
<1>3. app' \in AppObject
  BY <1>1, ChangedAppType, Zenon DEF Start, DeleteApplication, ClusterTypeOK
<1>4. RecTypeOK' /\ InRange'
  <2> DEFINE r == [pc |-> "check", app |-> seen[p], next |-> 1, outcome |-> "none"]
  <2>1. r \in Run /\ AtSecret(r)
    BY <1>1 DEF Run, AtSecret
  <2>2. rec' = rec \/ rec' = [rec EXCEPT ![p] = r]
    BY Zenon DEF Start
  <2>3. CASE rec' = rec
    BY <2>3, RunsKept
  <2>4. CASE rec' = [rec EXCEPT ![p] = r]
    BY <2>1, <2>4, RunReplaced
  <2> QED
    BY <2>2, <2>3, <2>4
<1>5. appQ' \in [Processes -> QueueEntry]
  <2>1. appQ' = [appQ EXCEPT ![p] = "none"] \/ appQ' = [appQ EXCEPT ![p] = "delayed"]
    BY Zenon DEF Start
  <2> QED
    BY <1>1, <2>1 DEF ClusterTypeOK, QueueEntry
<1>6. changes' \in Nat /\ faults' \in Nat
  BY <1>1, CountsType, Zenon DEF Start
<1>7. UNCHANGED <<expired, secret, users, seen, cache, finQ>>
  BY Zenon DEF Start, caches
<1> QED
  BY <1>1, <1>2, <1>3, <1>4, <1>5, <1>6, <1>7 DEF TypeInv, TypeOK, ClusterTypeOK

LEMMA CheckSyncTypes ==
  ASSUME TypeInv, NEW p \in Processes, CheckSync(p), UNCHANGED fin
  PROVE  TypeInv'
<1> DEFINE r == rec[p]
<1>1. ClusterTypeOK /\ r \in Run
  BY DEF TypeInv, TypeOK, RecTypeOK
<1>2. FinTypeOK'
  BY DEF TypeInv, TypeOK, FinTypeOK
<1>3. RecTypeOK' /\ InRange'
  <2>1. \/ \E outcome \in {"unchanged", "synced", "failed"} :
             rec' = [rec EXCEPT ![p] = Ended(r, outcome)]
        \/ Wanted(r) # <<>> /\ rec' = [rec EXCEPT ![p] = At(r, "create", 1)]
    BY Zenon DEF CheckSync, Failed
  <2>2. ASSUME NEW outcome \in {"unchanged", "synced", "failed"},
               rec' = [rec EXCEPT ![p] = Ended(r, outcome)]
        PROVE  RecTypeOK' /\ InRange'
    BY <1>1, <2>2, EndedType, RunReplaced
  <2>3. CASE Wanted(r) # <<>> /\ rec' = [rec EXCEPT ![p] = At(r, "create", 1)]
    <3>1. Len(Wanted(r)) \in Nat /\ Len(Wanted(r)) # 0
      BY <1>1, <2>3, WantedType
    <3>2. 1 \in 1 .. Len(Wanted(r)) /\ At(r, "create", 1).next = 1
      BY <3>1 DEF At
    <3>3. At(r, "create", 1) \in Run /\ AtSecret(At(r, "create", 1))
      BY <1>1, <3>2, AtType DEF AtSecret
    <3> QED
      BY <2>3, <3>3, RunReplaced
  <2> QED
    BY <2>1, <2>2, <2>3
<1>4. changes' \in Nat /\ faults' \in Nat
  BY <1>1, CountsType, Zenon DEF CheckSync
<1>5. UNCHANGED <<app, expired, secret, users, seen, cache, appQ, finQ>>
  BY Zenon DEF CheckSync, objects, caches, queues
<1> QED
  BY <1>1, <1>2, <1>3, <1>4, <1>5 DEF TypeInv, TypeOK, ClusterTypeOK

\* The Secret a run is at is one of the Secrets.
LEMMA SecretAt ==
  ASSUME TypeInv, NEW p \in Processes, rec[p].pc \in {"create", "save"}
  PROVE  /\ rec[p] \in Run /\ AtSecret(rec[p])
         /\ Wanted(rec[p])[rec[p].next] \in Secrets
         /\ rec[p].app.gen \in 1 .. Len(History)
<1>1. rec[p] \in Run /\ AtSecret(rec[p])
  BY DEF TypeInv, TypeOK, RecTypeOK, InRange
<1>2. Wanted(rec[p]) \in Seq(Secrets)
  BY <1>1, WantedType
<1>3. rec[p].next \in 1 .. Len(Wanted(rec[p]))
  BY <1>1 DEF AtSecret
<1>4. rec[p].app \in AppObject
  BY <1>1 DEF Run
<1>5. rec[p].app.gen \in 1 .. Len(History)
  BY <1>4 DEF AppObject
<1> QED
  BY <1>1, <1>2, <1>3, <1>5

LEMMA CreateSecretTypes ==
  ASSUME TypeInv, NEW p \in Processes, CreateSecret(p), UNCHANGED fin
  PROVE  TypeInv'
<1> DEFINE r == rec[p]
           s == Wanted(r)[r.next]
           u == UserOf(s, r.app.gen)
<1>1. ClusterTypeOK /\ r.pc = "create"
  BY Zenon DEF TypeInv, TypeOK, CreateSecret
<1>2. r \in Run /\ AtSecret(r) /\ s \in Secrets /\ r.app.gen \in 1 .. Len(History)
  BY <1>1, SecretAt
<1>3. FinTypeOK'
  BY DEF TypeInv, TypeOK, FinTypeOK
<1>4. u \in Secrets \X (1 .. Len(History))
  BY <1>2 DEF UserOf
<1>5. users' \subseteq Secrets \X (1 .. Len(History))
  <2>1. users' = users \/ users' = users \cup {u} \/ users' = users \ {u}
    BY Zenon DEF CreateSecret, provideServiceUser, DeleteServiceUser
  <2>2. users \subseteq Secrets \X (1 .. Len(History))
    BY <1>1, Zenon DEF ClusterTypeOK
  <2> HIDE DEF u
  <2> QED
    BY <1>4, <2>1, <2>2, Zenon
<1>6. RecTypeOK' /\ InRange'
  <2>1. \/ rec' = [rec EXCEPT ![p] = Advance(r)]
        \/ rec' = [rec EXCEPT ![p] = Ended(r, "failed")]
        \/ rec' = [rec EXCEPT ![p] = Ended(r, "failed for good")]
    BY Zenon DEF CreateSecret, Failed
  <2>2. Advance(r) \in Run /\ AtSecret(Advance(r))
    BY <1>1, <1>2, AdvanceType
  <2>3. /\ Ended(r, "failed") \in Run /\ AtSecret(Ended(r, "failed"))
        /\ Ended(r, "failed for good") \in Run
        /\ AtSecret(Ended(r, "failed for good"))
    BY <1>2, EndedType
  <2> QED
    BY <2>1, <2>2, <2>3, RunReplaced
<1>7. changes' \in Nat /\ faults' \in Nat
  BY <1>1, CountsType, Zenon DEF CreateSecret
<1>8. UNCHANGED <<app, expired, secret, seen, cache, appQ, finQ>>
  BY Zenon DEF CreateSecret, caches, queues
<1> QED
  BY <1>1, <1>3, <1>5, <1>6, <1>7, <1>8 DEF TypeInv, TypeOK, ClusterTypeOK

LEMMA SaveSecretTypes ==
  ASSUME TypeInv, NEW p \in Processes, SaveSecret(p), UNCHANGED fin
  PROVE  TypeInv'
<1> DEFINE r == rec[p]
           s == Wanted(r)[r.next]
           written == [secret EXCEPT ![s] = Saved(secret[s], r.app.gen)]
<1>1. ClusterTypeOK /\ r.pc = "save"
  BY Zenon DEF TypeInv, TypeOK, SaveSecret
<1>2. r \in Run /\ AtSecret(r) /\ s \in Secrets /\ r.app.gen \in 1 .. Len(History)
  BY <1>1, SecretAt
<1>3. FinTypeOK'
  BY DEF TypeInv, TypeOK, FinTypeOK
<1>4. secret' \in [Secrets -> SecretObject]
  <2>1. secret' = secret \/ secret' = written
    BY Zenon DEF SaveSecret
  <2>2. secret \in [Secrets -> SecretObject]
    BY <1>1, Zenon DEF ClusterTypeOK
  <2>3. Saved(secret[s], r.app.gen) \in SecretObject
    BY <1>2, <2>2, SavedType
  <2> HIDE DEF s
  <2> QED
    BY <2>1, <2>2, <2>3
<1>5. RecTypeOK' /\ InRange'
  <2>1. \/ rec' = [rec EXCEPT ![p] = Advance(r)]
        \/ rec' = [rec EXCEPT ![p] = Ended(r, "failed")]
    BY Zenon DEF SaveSecret, Failed
  <2>2. Advance(r) \in Run /\ AtSecret(Advance(r))
    BY <1>1, <1>2, AdvanceType
  <2>3. Ended(r, "failed") \in Run /\ AtSecret(Ended(r, "failed"))
    BY <1>2, EndedType
  <2> QED
    BY <2>1, <2>2, <2>3, RunReplaced
<1>6. changes' \in Nat /\ faults' \in Nat
  BY <1>1, CountsType, Zenon DEF SaveSecret
<1>7. UNCHANGED <<app, expired, users, seen, cache, appQ, finQ>>
  BY Zenon DEF SaveSecret, caches, queues
<1> QED
  BY <1>1, <1>3, <1>4, <1>5, <1>6, <1>7 DEF TypeInv, TypeOK, ClusterTypeOK

LEMMA UpdateStatusTypes ==
  ASSUME TypeInv, NEW p \in Processes, UpdateStatus(p), UNCHANGED fin
  PROVE  TypeInv'
<1> DEFINE r == rec[p]
<1>1. ClusterTypeOK /\ r \in Run /\ app \in AppObject
  BY DEF TypeInv, TypeOK, ClusterTypeOK, RecTypeOK
<1>2. FinTypeOK'
  BY DEF TypeInv, TypeOK, FinTypeOK
<1>3. app' \in AppObject
  <2>1. app' = app \/ app' = WithStatus(app, NewStatus(r))
    BY Zenon DEF UpdateStatus
  <2>2. WithStatus(app, NewStatus(r)) \in AppObject
    BY <1>1, NewStatusType, WithStatusType
  <2> QED
    BY <1>1, <2>1, <2>2, Zenon
<1>4. RecTypeOK' /\ InRange'
  <2>1. rec' = [rec EXCEPT ![p] = NoRun]
    BY Zenon DEF UpdateStatus
  <2> QED
    BY <2>1, InitialObjects, RunReplaced
<1>5. appQ' \in [Processes -> QueueEntry]
  <2>1. appQ' = appQ \/ appQ' = [appQ EXCEPT ![p] = AddAfter(@)]
    BY Zenon DEF UpdateStatus
  <2>2. AddAfter(appQ[p]) \in QueueEntry
    BY DEF AddAfter, QueueEntry
  <2> QED
    BY <1>1, <2>1, <2>2 DEF ClusterTypeOK
<1>6. changes' \in Nat /\ faults' \in Nat
  BY <1>1, CountsType, Zenon DEF UpdateStatus
<1>7. UNCHANGED <<expired, secret, users, seen, cache, finQ>>
  BY Zenon DEF UpdateStatus, caches
<1> QED
  BY <1>1, <1>2, <1>3, <1>4, <1>5, <1>6, <1>7 DEF TypeInv, TypeOK, ClusterTypeOK

\* A run of the finalizer is replaced by a run, or the queue by one.
LEMMA FinRunReplaced ==
  ASSUME TypeInv, NEW p \in Processes, NEW s \in Secrets, NEW f \in FinRun,
         fin' = [fin EXCEPT ![p][s] = f]
  PROVE  FinTypeOK'
BY DEF TypeInv, TypeOK, FinTypeOK

LEMMA FinEntryReplaced ==
  ASSUME ClusterTypeOK, NEW p \in Processes, NEW s \in Secrets, NEW e \in QueueEntry,
         finQ' = [finQ EXCEPT ![p][s] = e]
  PROVE  finQ' \in [Processes -> [Secrets -> QueueEntry]]
BY DEF ClusterTypeOK

LEMMA FailRetryTypes ==
  ASSUME TypeInv, NEW p \in Processes, NEW s \in Secrets, failRetry(p, s)
  PROVE  FinTypeOK' /\ finQ' \in [Processes -> [Secrets -> QueueEntry]]
<1>1. /\ fin' = [fin EXCEPT ![p][s] = NoFinRun]
      /\ finQ' = [finQ EXCEPT ![p][s] = AddAfter(@)]
  BY Zenon DEF failRetry
<1>2. AddAfter(finQ[p][s]) \in QueueEntry
  BY DEF AddAfter, QueueEntry
<1> QED
  BY <1>1, <1>2, InitialObjects, FinRunReplaced, FinEntryReplaced DEF TypeInv, TypeOK

LEMMA FinStepTypes ==
  ASSUME TypeInv, NEW p \in Processes, NEW s \in Secrets, FinStep(p, s),
         UNCHANGED rec
  PROVE  TypeInv'
<1>1. ClusterTypeOK /\ fin \in [Processes -> [Secrets -> FinRun]]
  BY DEF TypeInv, TypeOK, FinTypeOK
<1>2. RecTypeOK' /\ InRange'
  BY DEF TypeInv, TypeOK, RecTypeOK, InRange, AtSecret, Wanted, Hash
<1>3. fin[p][s] \in FinRun
  BY <1>1
<1>4. CASE FinStart(p, s)
  <2> DEFINE f == [pc |-> "cleanup", read |-> cache[p][s]]
  <2>1. f \in FinRun
    BY <1>1 DEF ClusterTypeOK, FinRun
  <2>2. fin' = fin \/ fin' = [fin EXCEPT ![p][s] = f]
    BY <1>4, Zenon DEF FinStart
  <2>3. FinTypeOK'
    <3>1. CASE fin' = fin
      BY <1>1, <3>1 DEF FinTypeOK
    <3>2. CASE fin' = [fin EXCEPT ![p][s] = f]
      BY <2>1, <3>2, FinRunReplaced
    <3> QED
      BY <2>2, <3>1, <3>2
  <2>4. finQ' \in [Processes -> [Secrets -> QueueEntry]]
    <3>1. \/ finQ' = [finQ EXCEPT ![p][s] = "none"]
          \/ finQ' = [finQ EXCEPT ![p][s] = "delayed"]
      BY <1>4, Zenon DEF FinStart
    <3>2. {"none", "delayed"} \subseteq QueueEntry
      BY DEF QueueEntry
    <3> QED
      BY <1>1, <3>1, <3>2, FinEntryReplaced
  <2>5. changes' \in Nat /\ faults' \in Nat
    BY <1>1, <1>4, CountsType, Zenon DEF FinStart
  <2>6. UNCHANGED <<app, expired, secret, users, seen, cache, appQ>>
    BY <1>4, Zenon DEF FinStart, objects, caches
  <2> QED
    BY <1>1, <1>2, <2>3, <2>4, <2>5, <2>6 DEF TypeInv, TypeOK, ClusterTypeOK
<1>5. CASE Cleanup(p, s)
  <2> DEFINE u == UserOf(s, fin[p][s].read.gen)
             f == [pc |-> "update", read |-> fin[p][s].read]
  <2>1. users' \subseteq Secrets \X (1 .. Len(History))
    <3>1. users' = users \/ users' = users \ {u}
      BY <1>5, Zenon DEF Cleanup, DeleteServiceUser
    <3>2. users \subseteq Secrets \X (1 .. Len(History))
      BY <1>1, Zenon DEF ClusterTypeOK
    <3> QED
      BY <3>1, <3>2, Zenon
  <2>2. \/ fin' = [fin EXCEPT ![p][s].pc = "update"] /\ finQ' = finQ
        \/ failRetry(p, s)
    BY <1>5, Zenon DEF Cleanup
  <2>3. FinTypeOK' /\ finQ' \in [Processes -> [Secrets -> QueueEntry]]
    <3>1. CASE fin' = [fin EXCEPT ![p][s].pc = "update"] /\ finQ' = finQ
      <4>1. fin' \in [Processes -> [Secrets -> FinRun]]
        BY <1>1, <3>1 DEF FinRun
      <4> QED
        BY <1>1, <3>1, <4>1 DEF FinTypeOK, ClusterTypeOK
    <3>2. CASE failRetry(p, s)
      BY <3>2, FailRetryTypes
    <3> QED
      BY <2>2, <3>1, <3>2
  <2>4. changes' \in Nat /\ faults' \in Nat
    BY <1>1, <1>5, CountsType, Zenon DEF Cleanup
  <2>5. UNCHANGED <<app, expired, secret, seen, cache, appQ>>
    BY <1>5, Zenon DEF Cleanup, caches
  <2> QED
    BY <1>1, <1>2, <2>1, <2>3, <2>4, <2>5 DEF TypeInv, TypeOK, ClusterTypeOK
<1>6. CASE RemoveFinalizer(p, s)
  <2>1. secret' \in [Secrets -> SecretObject]
    <3>1. secret' = secret \/ secret' = [secret EXCEPT ![s] = Unfinalized(@)]
      BY <1>6, Zenon DEF RemoveFinalizer
    <3>2. secret \in [Secrets -> SecretObject]
      BY <1>1, Zenon DEF ClusterTypeOK
    <3>3. Unfinalized(secret[s]) \in SecretObject
      BY <3>2, UnfinalizedType
    <3> QED
      BY <3>1, <3>2, <3>3
  <2>2. FinTypeOK' /\ finQ' \in [Processes -> [Secrets -> QueueEntry]]
    <3>1. CASE failRetry(p, s)
      BY <3>1, FailRetryTypes
    <3>2. CASE fin' = [fin EXCEPT ![p][s] = NoFinRun] /\ UNCHANGED finQ
      BY <1>1, <3>2, InitialObjects, FinRunReplaced DEF ClusterTypeOK
    <3> QED
      BY <1>6, <3>1, <3>2, Zenon DEF RemoveFinalizer
  <2>3. changes' \in Nat /\ faults' \in Nat
    BY <1>1, <1>6, CountsType, Zenon DEF RemoveFinalizer
  <2>4. UNCHANGED <<app, expired, users, seen, cache, appQ>>
    BY <1>6, Zenon DEF RemoveFinalizer, caches
  <2> QED
    BY <1>1, <1>2, <2>1, <2>2, <2>3, <2>4 DEF TypeInv, TypeOK, ClusterTypeOK
<1> QED
  BY <1>4, <1>5, <1>6 DEF FinStep

LEMMA RestartTypes ==
  ASSUME TypeInv, NEW p \in Processes, Restart(p)
  PROVE  TypeInv'
<1>1. ClusterTypeOK
  BY DEF TypeInv, TypeOK
<1>2. RecTypeOK' /\ InRange'
  BY InitialObjects, RunReplaced DEF Restart
<1>3. FinTypeOK'
  BY InitialObjects DEF Restart, TypeInv, TypeOK, FinTypeOK
<1>4. /\ seen' \in [Processes -> AppObject]
      /\ cache' \in [Processes -> [Secrets -> SecretObject]]
      /\ appQ' \in [Processes -> QueueEntry]
      /\ finQ' \in [Processes -> [Secrets -> QueueEntry]]
  BY <1>1 DEF Restart, ProcessStarts, ClusterTypeOK, QueueEntry
<1>5. changes' \in Nat /\ faults' \in Nat
  BY <1>1, CountsType, Zenon DEF Restart
<1>6. UNCHANGED <<app, expired, secret, users>>
  BY Zenon DEF Restart, objects
<1> QED
  BY <1>1, <1>2, <1>3, <1>4, <1>5, <1>6 DEF TypeInv, TypeOK, ClusterTypeOK

LEMMA StutterTypes ==
  ASSUME TypeInv, UNCHANGED vars
  PROVE  TypeInv'
BY DEF TypeInv, TypeOK, ClusterTypeOK, RecTypeOK, FinTypeOK, InRange, AtSecret,
   Wanted, Hash, vars, objects, caches, queues, budgets

LEMMA InitTypes == Init => TypeInv
<1> SUFFICES ASSUME Init PROVE TypeInv
  OBVIOUS
<1>1. ClusterTypeOK
  <2>1. /\ app \in AppObject /\ expired \in BOOLEAN /\ users = {}
        /\ changes \in Nat /\ faults \in Nat
    BY InitialObjects DEF Init, ClusterInit
  <2>2. secret \in [Secrets -> SecretObject]
    BY InitialObjects DEF Init, ClusterInit
  <2>3. /\ seen \in [Processes -> AppObject]
        /\ cache \in [Processes -> [Secrets -> SecretObject]]
    BY <2>1, <2>2 DEF Init, ClusterInit
  <2>4. /\ appQ \in [Processes -> QueueEntry]
        /\ finQ \in [Processes -> [Secrets -> QueueEntry]]
    BY DEF Init, ClusterInit, QueueEntry
  <2> QED
    BY <2>1, <2>2, <2>3, <2>4 DEF ClusterTypeOK
<1>2. RecTypeOK /\ InRange /\ FinTypeOK
  BY InitialObjects DEF Init, RecInit, FinInit, RecTypeOK, FinTypeOK, InRange
<1> QED
  BY <1>1, <1>2 DEF TypeInv, TypeOK

LEMMA NextTypes == TypeInv /\ [Next]_vars => TypeInv'
<1> SUFFICES ASSUME TypeInv, [Next]_vars PROVE TypeInv'
  OBVIOUS
<1>1. CASE Environment
  BY <1>1, EnvironmentTypes
<1>2. ASSUME NEW p \in Processes, Delivery(p) PROVE TypeInv'
  BY <1>2, DeliveryTypes
<1>3. ASSUME NEW p \in Processes, RecStep(p), UNCHANGED fin PROVE TypeInv'
  BY <1>3, StartTypes, CheckSyncTypes, CreateSecretTypes, SaveSecretTypes,
     UpdateStatusTypes DEF RecStep
<1>4. ASSUME NEW p \in Processes, NEW s \in Secrets, FinStep(p, s), UNCHANGED rec
      PROVE  TypeInv'
  BY <1>4, FinStepTypes
<1>5. ASSUME NEW p \in Processes, Restart(p) PROVE TypeInv'
  BY <1>5, RestartTypes
<1>6. CASE UNCHANGED vars
  BY <1>6, StutterTypes
<1> QED
  BY <1>1, <1>2, <1>3, <1>4, <1>5, <1>6 DEF Next

\* Every variable keeps its type, for any number of processes, Secrets and
\* generations: no status and no Secret ever names a generation that was not
\* applied. This needs InRange, that a run never steps past the end of the list
\* of Secrets its application asks for.
THEOREM TypesHold == Spec => []TypeOK
<1>1. Spec => []TypeInv
  BY InitTypes, NextTypes, PTL DEF Spec
<1>2. TypeInv => TypeOK
  BY DEF TypeInv
<1> QED
  BY <1>1, <1>2, PTL

-----------------------------------------------------------------------------
(***************************************************************************)
(* Resource versions. A copy of a Secret is never ahead of the Secret, and *)
(* equal to it while it has the same version.                              *)
(***************************************************************************)
TrueCopy(copy, o) == copy.rv <= o.rv /\ (copy.rv = o.rv => copy = o)

TrueCopies ==
  \A p \in Processes, s \in Secrets :
    /\ TrueCopy(cache[p][s], secret[s])
    /\ fin[p][s].pc # "idle" => TrueCopy(fin[p][s].read, secret[s])

VersionInv == TypeInv /\ TrueCopies

\* What a step can do to a Secret, to a cached copy and to the copy a run of the
\* finalizer works on.
SecretMoves ==
  \A s \in Secrets : secret'[s] = secret[s] \/ secret'[s].rv = secret[s].rv + 1

CacheMoves ==
  \A p \in Processes, s \in Secrets :
    \/ cache'[p][s] = cache[p][s]
    \/ cache'[p][s] = secret[s] /\ secret'[s] = secret[s]

ReadMoves ==
  \A p \in Processes, s \in Secrets :
    fin'[p][s].pc # "idle" =>
      \/ fin[p][s].pc # "idle" /\ fin'[p][s].read = fin[p][s].read
      \/ fin'[p][s].read = cache[p][s] /\ secret'[s] = secret[s]

Moves == SecretMoves /\ CacheMoves /\ ReadMoves

\* A step that replaces one Secret, by a write that raises its version.
LEMMA OneSecretMoves ==
  ASSUME TypeInv, NEW s \in Secrets, NEW o,
         o = secret[s] \/ o.rv = secret[s].rv + 1,
         secret' = [secret EXCEPT ![s] = o]
  PROVE  SecretMoves
BY DEF TypeInv, TypeOK, ClusterTypeOK, SecretMoves

LEMMA EnvironmentMoves ==
  ASSUME TypeInv, Environment
  PROVE  Moves
<1>1. ReadMoves
  BY DEF Environment, ReadMoves
<1>2. cache' = cache
  BY Zenon DEF Environment, EditSpec, TouchApp, ClearHash, DeleteApp, ExpiryPasses,
     DeleteSecret, caches
<1>3. SecretMoves
  <2>1. CASE secret' = secret
    BY <2>1 DEF SecretMoves
  <2>2. ASSUME NEW s \in Secrets, DeleteSecret(s)
        PROVE  SecretMoves
    <3>1. Deleted(secret[s]).rv = secret[s].rv + 1
      BY DeletedType DEF TypeInv, TypeOK, ClusterTypeOK
    <3>2. secret' = [secret EXCEPT ![s] = Deleted(secret[s])]
      BY <2>2, Zenon DEF DeleteSecret
    <3> QED
      BY <3>1, <3>2, OneSecretMoves
  <2> QED
    BY <2>1, <2>2, Zenon DEF Environment, EditSpec, TouchApp, ClearHash, DeleteApp,
       ExpiryPasses
<1> QED
  BY <1>1, <1>2, <1>3 DEF Moves, CacheMoves

LEMMA DeliveryMoves ==
  ASSUME TypeInv, NEW p \in Processes, Delivery(p)
  PROVE  Moves
<1>1. ReadMoves
  BY DEF Delivery, ReadMoves
<1>2. secret' = secret
  BY Zenon DEF Delivery, DeliverApp, DeliverSecret, AppDelayEnds, SecretDelayEnds,
     Resync, objects
<1>3. CacheMoves
  <2>1. CASE cache' = cache
    BY <2>1 DEF CacheMoves
  <2>2. ASSUME NEW s \in Secrets, DeliverSecret(p, s)
        PROVE  CacheMoves
    <3>1. cache' = [cache EXCEPT ![p][s] = secret[s]]
      BY <2>2, Zenon DEF DeliverSecret
    <3> QED
      BY <1>2, <3>1 DEF TypeInv, TypeOK, ClusterTypeOK, CacheMoves
  <2> QED
    BY <2>1, <2>2, Zenon DEF Delivery, DeliverApp, AppDelayEnds, SecretDelayEnds,
       Resync, caches
<1> QED
  BY <1>1, <1>2, <1>3 DEF Moves, SecretMoves

LEMMA RecStepMoves ==
  ASSUME TypeInv, NEW p \in Processes, RecStep(p), UNCHANGED fin
  PROVE  Moves
<1>1. ReadMoves
  BY DEF ReadMoves
<1>2. cache' = cache
  BY Zenon DEF RecStep, Start, CheckSync, CreateSecret, SaveSecret, UpdateStatus,
     caches
<1>3. SecretMoves
  <2>1. CASE secret' = secret
    BY <2>1 DEF SecretMoves
  <2>2. CASE SaveSecret(p)
    <3> DEFINE s == Wanted(rec[p])[rec[p].next]
               o == Saved(secret[s], rec[p].app.gen)
    <3>1. s \in Secrets /\ rec[p].app.gen \in 1 .. Len(History)
      BY <2>2, SecretAt DEF SaveSecret
    <3>2. o.rv = secret[s].rv + 1
      BY <3>1, SavedType DEF TypeInv, TypeOK, ClusterTypeOK
    <3>3. secret' = secret \/ secret' = [secret EXCEPT ![s] = o]
      BY <2>2, Zenon DEF SaveSecret
    <3> HIDE DEF s, o
    <3> QED
      BY <2>1, <3>1, <3>2, <3>3, OneSecretMoves
  <2> QED
    BY <2>1, <2>2, Zenon DEF RecStep, Start, CheckSync, CreateSecret, UpdateStatus,
       objects
<1> QED
  BY <1>1, <1>2, <1>3 DEF Moves, CacheMoves

LEMMA FinStepMoves ==
  ASSUME TypeInv, NEW p \in Processes, NEW s \in Secrets, FinStep(p, s),
         UNCHANGED rec
  PROVE  Moves
<1>1. fin \in [Processes -> [Secrets -> FinRun]]
  BY DEF TypeInv, TypeOK, FinTypeOK
<1>2. cache' = cache
  BY Zenon DEF FinStep, FinStart, Cleanup, RemoveFinalizer, caches
<1>3. SecretMoves
  <2>1. CASE secret' = secret
    BY <2>1 DEF SecretMoves
  <2>2. CASE RemoveFinalizer(p, s)
    <3> DEFINE o == Unfinalized(secret[s])
    <3>1. o = secret[s] \/ o.rv = secret[s].rv + 1
      BY UnfinalizedType DEF TypeInv, TypeOK, ClusterTypeOK
    <3>2. secret' = secret \/ secret' = [secret EXCEPT ![s] = o]
      BY <2>2, Zenon DEF RemoveFinalizer
    <3> HIDE DEF o
    <3> QED
      BY <2>1, <3>1, <3>2, OneSecretMoves
  <2> QED
    BY <2>1, <2>2, Zenon DEF FinStep, FinStart, Cleanup, objects
<1>4. ReadMoves
  <2>1. CASE fin' = fin
    BY <2>1 DEF ReadMoves
  <2>2. CASE fin' = [fin EXCEPT ![p][s] = NoFinRun]
    BY <1>1, <2>2 DEF ReadMoves, NoFinRun
  <2>3. CASE FinStart(p, s) /\ fin' # fin
    <3>1. /\ fin' = [fin EXCEPT ![p][s] = [pc |-> "cleanup", read |-> cache[p][s]]]
          /\ secret' = secret
      BY <2>3, Zenon DEF FinStart, objects
    <3> QED
      BY <1>1, <3>1 DEF ReadMoves
  <2>4. CASE Cleanup(p, s) /\ fin' = [fin EXCEPT ![p][s].pc = "update"]
    <3>1. fin[p][s].pc = "cleanup" /\ fin[p][s] \in FinRun
      BY <1>1, <2>4, Zenon DEF Cleanup
    <3>2. fin'[p][s].read = fin[p][s].read
      BY <1>1, <2>4 DEF FinRun
    <3>3. \A q \in Processes, t \in Secrets :
             <<q, t>> # <<p, s>> => fin'[q][t] = fin[q][t]
      BY <1>1, <2>4
    <3> QED
      BY <3>1, <3>2, <3>3 DEF ReadMoves
  <2> QED
    BY <2>1, <2>2, <2>3, <2>4, Zenon DEF FinStep, Cleanup, RemoveFinalizer, failRetry
<1> QED
  BY <1>2, <1>3, <1>4 DEF Moves, CacheMoves

LEMMA RestartMoves ==
  ASSUME TypeInv, NEW p \in Processes, Restart(p)
  PROVE  Moves
<1>1. secret' = secret
  BY Zenon DEF Restart, objects
<1>2. CacheMoves
  <2>1. cache' = [cache EXCEPT ![p] = secret]
    BY Zenon DEF Restart, ProcessStarts
  <2> QED
    BY <1>1, <2>1 DEF TypeInv, TypeOK, ClusterTypeOK, CacheMoves
<1>3. ReadMoves
  <2>1. fin' = [fin EXCEPT ![p] = [s \in Secrets |-> NoFinRun]]
    BY Zenon DEF Restart
  <2> QED
    BY <2>1 DEF TypeInv, TypeOK, FinTypeOK, ReadMoves, NoFinRun
<1> QED
  BY <1>1, <1>2, <1>3 DEF Moves, SecretMoves

LEMMA NextMoves == TypeInv /\ [Next]_vars => Moves
<1> SUFFICES ASSUME TypeInv, [Next]_vars PROVE Moves
  OBVIOUS
<1>1. CASE Environment
  BY <1>1, EnvironmentMoves
<1>2. ASSUME NEW p \in Processes, Delivery(p) PROVE Moves
  BY <1>2, DeliveryMoves
<1>3. ASSUME NEW p \in Processes, RecStep(p), UNCHANGED fin PROVE Moves
  BY <1>3, RecStepMoves
<1>4. ASSUME NEW p \in Processes, NEW s \in Secrets, FinStep(p, s), UNCHANGED rec
      PROVE  Moves
  BY <1>4, FinStepMoves
<1>5. ASSUME NEW p \in Processes, Restart(p) PROVE Moves
  BY <1>5, RestartMoves
<1>6. CASE UNCHANGED vars
  BY <1>6 DEF vars, objects, caches, Moves, SecretMoves, CacheMoves, ReadMoves
<1> QED
  BY <1>1, <1>2, <1>3, <1>4, <1>5, <1>6 DEF Next

\* A copy stays true: the Secret it was made of only moves on to new versions.
LEMMA TrueCopyKept ==
  ASSUME NEW c \in SecretObject, NEW o \in SecretObject, NEW o2 \in SecretObject,
         TrueCopy(c, o), o2 = o \/ o2.rv = o.rv + 1
  PROVE  TrueCopy(c, o2)
<1>1. c.rv \in Nat /\ o.rv \in Nat /\ o2.rv \in Nat
  BY DEF SecretObject
<1>2. CASE o2 = o
  BY <1>2
<1>3. CASE o2.rv = o.rv + 1
  <2>1. c.rv <= o.rv
    BY DEF TrueCopy
  <2>2. c.rv <= o2.rv /\ c.rv # o2.rv
    BY <1>1, <1>3, <2>1
  <2> QED
    BY <2>2 DEF TrueCopy
<1> QED
  BY <1>2, <1>3

LEMMA OwnCopy ==
  ASSUME NEW o \in SecretObject
  PROVE  TrueCopy(o, o)
<1>1. o.rv \in Nat
  BY DEF SecretObject
<1> QED
  BY <1>1 DEF TrueCopy

LEMMA InitVersions == Init => VersionInv
<1> SUFFICES ASSUME Init PROVE VersionInv
  OBVIOUS
<1>1. TypeInv
  BY InitTypes
<1>2. ASSUME NEW p \in Processes, NEW s \in Secrets
      PROVE  cache[p][s] = secret[s] /\ secret[s] \in SecretObject /\ fin[p][s].pc = "idle"
  BY <1>1 DEF Init, ClusterInit, FinInit, NoFinRun, TypeInv, TypeOK, ClusterTypeOK
<1> QED
  BY <1>1, <1>2, OwnCopy DEF VersionInv, TrueCopies

LEMMA NextVersions == VersionInv /\ [Next]_vars => VersionInv'
<1> SUFFICES ASSUME VersionInv, [Next]_vars PROVE VersionInv'
  OBVIOUS
<1>1. TypeInv /\ TypeInv' /\ TrueCopies /\ Moves
  BY NextTypes, NextMoves DEF VersionInv
<1>2. ASSUME NEW p \in Processes, NEW s \in Secrets
      PROVE  /\ TrueCopy(cache[p][s], secret[s])'
             /\ fin'[p][s].pc # "idle" => TrueCopy(fin[p][s].read, secret[s])'
  <2>1. /\ secret[s] \in SecretObject /\ secret'[s] \in SecretObject
        /\ cache[p][s] \in SecretObject
        /\ fin[p][s] \in FinRun
    BY <1>1 DEF TypeInv, TypeOK, ClusterTypeOK, FinTypeOK
  <2>2. fin[p][s].read \in SecretObject
    BY <2>1 DEF FinRun
  <2>3. secret'[s] = secret[s] \/ secret'[s].rv = secret[s].rv + 1
    BY <1>1 DEF Moves, SecretMoves
  <2>4. TrueCopy(cache[p][s], secret'[s])
    BY <1>1, <2>1, <2>3, TrueCopyKept DEF TrueCopies
  <2>5. TrueCopy(cache'[p][s], secret'[s])
    <3>1. CASE cache'[p][s] = cache[p][s]
      BY <2>4, <3>1
    <3>2. CASE cache'[p][s] = secret[s] /\ secret'[s] = secret[s]
      BY <2>1, <3>2, OwnCopy
    <3> QED
      BY <1>1, <3>1, <3>2 DEF Moves, CacheMoves
  <2>6. ASSUME fin'[p][s].pc # "idle"
        PROVE  TrueCopy(fin'[p][s].read, secret'[s])
    <3>1. CASE fin[p][s].pc # "idle" /\ fin'[p][s].read = fin[p][s].read
      <4>1. TrueCopy(fin[p][s].read, secret[s])
        BY <1>1, <3>1 DEF TrueCopies
      <4> QED
        BY <2>1, <2>2, <2>3, <3>1, <4>1, TrueCopyKept
    <3>2. CASE fin'[p][s].read = cache[p][s] /\ secret'[s] = secret[s]
      BY <2>4, <3>2
    <3> QED
      BY <1>1, <2>6, <3>1, <3>2 DEF Moves, ReadMoves
  <2> QED
    BY <2>5, <2>6
<1> QED
  BY <1>1, <1>2 DEF VersionInv, TrueCopies

LEMMA VersionsHold == Spec => []VersionInv
BY InitVersions, NextVersions, PTL DEF Spec

-----------------------------------------------------------------------------
(***************************************************************************)
(* Removal. Only the finalizer takes a Secret under deletion away, at the  *)
(* version it has read, and so with the generation it has cleaned up for.  *)
(***************************************************************************)
Removal(s) == secret[s].phase = "terminating" /\ secret'[s].phase = "absent"

\* A Secret that is being deleted stays under deletion when it is written.
LEMMA SavedStaysTerminating ==
  ASSUME NEW o \in SecretObject, NEW g, o.phase = "terminating"
  PROVE  Saved(o, g).phase = "terminating"
BY DEF Saved, Written, Present

LEMMA RemovalStep ==
  ASSUME VersionInv, [Next]_vars, NEW s \in Secrets, Removal(s)
  PROVE  \E p \in Processes : RemoveFinalizer(p, s) /\ secret'[s] # secret[s]
<1>1. secret'[s] # secret[s] /\ secret \in [Secrets -> SecretObject]
  BY DEF Removal, VersionInv, TypeInv, TypeOK, ClusterTypeOK
<1>2. ASSUME secret' = secret PROVE FALSE
  BY <1>1, <1>2
<1>3. CASE Environment
  <2>1. ASSUME NEW t \in Secrets, DeleteSecret(t) PROVE FALSE
    <3>1. secret[t].phase = "live" /\ secret' = [secret EXCEPT ![t] = Deleted(@)]
      BY <2>1, Zenon DEF DeleteSecret
    <3>2. t # s
      BY <3>1 DEF Removal
    <3> QED
      BY <1>1, <3>1, <3>2
  <2> QED
    BY <1>2, <1>3, <2>1, Zenon DEF Environment, EditSpec, TouchApp, ClearHash,
       DeleteApp, ExpiryPasses
<1>4. ASSUME NEW p \in Processes, Delivery(p) PROVE FALSE
  BY <1>2, <1>4, Zenon DEF Delivery, DeliverApp, DeliverSecret, AppDelayEnds,
     SecretDelayEnds, Resync, objects
<1>5. ASSUME NEW p \in Processes, RecStep(p) PROVE FALSE
  <2>1. ASSUME SaveSecret(p) PROVE FALSE
    <3> DEFINE t == Wanted(rec[p])[rec[p].next]
               g == rec[p].app.gen
    <3>1. secret' = [secret EXCEPT ![t] = Saved(secret[t], g)]
      BY <1>2, <2>1, Zenon DEF SaveSecret
    <3> HIDE DEF t, g
    <3>2. t = s /\ secret'[s] = Saved(secret[s], g)
      BY <1>1, <3>1
    <3>3. secret[s] \in SecretObject /\ secret[s].phase = "terminating"
      BY <1>1 DEF Removal
    <3>4. Saved(secret[s], g).phase = "terminating"
      BY <3>3, SavedStaysTerminating
    <3> QED
      BY <3>2, <3>4 DEF Removal
  <2> QED
    BY <1>2, <1>5, <2>1, Zenon DEF RecStep, Start, CheckSync, CreateSecret,
       UpdateStatus, objects
<1>6. ASSUME NEW p \in Processes, NEW t \in Secrets, FinStep(p, t)
      PROVE  t = s /\ RemoveFinalizer(p, s)
  <2>1. RemoveFinalizer(p, t)
    BY <1>2, <1>6, Zenon DEF FinStep, FinStart, Cleanup, objects
  <2>2. secret' = [secret EXCEPT ![t] = Unfinalized(@)]
    BY <1>2, <2>1, Zenon DEF RemoveFinalizer
  <2>3. t = s
    BY <1>1, <2>2
  <2> QED
    BY <2>1, <2>3
<1>7. ASSUME NEW p \in Processes, Restart(p) PROVE FALSE
  BY <1>2, <1>7, Zenon DEF Restart, objects
<1>8. CASE UNCHANGED vars
  BY <1>2, <1>8, Zenon DEF vars, objects
<1> QED
  BY <1>1, <1>3, <1>4, <1>5, <1>6, <1>7, <1>8, Zenon DEF Next

LEMMA RemovalIsClean ==
  ASSUME VersionInv, [Next]_vars, NEW s \in Secrets, Removal(s)
  PROVE  \E p \in Processes :
           fin[p][s].pc = "update" /\ fin[p][s].read.gen = secret[s].gen
<1>1. PICK p \in Processes : RemoveFinalizer(p, s) /\ secret'[s] # secret[s]
  BY RemovalStep
<1>2. secret' # secret
  BY <1>1
<1>3. fin[p][s].pc = "update" /\ Fresh(fin[p][s].read, secret[s])
  BY <1>1, <1>2, Zenon DEF RemoveFinalizer
<1>4. fin[p][s].read = secret[s]
  BY <1>3 DEF Fresh, VersionInv, TrueCopies, TrueCopy
<1> QED
  BY <1>3, <1>4

\* Whenever a Secret under deletion goes away, some run of the finalizer has
\* cleaned up for exactly the credentials the Secret held: those of an update
\* the reconciler made in the meantime are not dropped with it.
THEOREM RemovalsAreClean == Spec => CleanedBeforeRemoved
<1>1. VersionInv /\ [Next]_vars =>
        [\A s \in Secrets :
           secret[s].phase = "terminating" /\ secret'[s].phase = "absent"
             => \E p \in Processes :
                  /\ fin[p][s].pc = "update"
                  /\ fin[p][s].read.gen = secret[s].gen]_vars
  BY RemovalIsClean DEF Removal
<1> QED
  BY <1>1, VersionsHold, PTL DEF Spec, CleanedBeforeRemoved
=============================================================================
