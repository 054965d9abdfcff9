----------------------------- MODULE Sync_proofs -----------------------------
(***************************************************************************)
(* What the status of the application is worth. The resource version of    *)
(* the application protects the status an operator has emptied, for any    *)
(* number of processes. What a status claims of the Secrets also needs     *)
(* that one process runs, as the Helm chart has it (OneProcess): with two, *)
(* TLC finds an older run that overwrites what a newer one has saved. And  *)
(* what the stored hash says of their content needs that no earlier spec   *)
(* is applied again (NoSpecComesBack), where TLC finds another             *)
(* counterexample.                                                         *)
(***************************************************************************)
EXTENDS Aivenator_proofs

OneProcess == \A p, q \in Processes : p = q

NoSpecComesBack ==
  \A g, h \in 1 .. Len(History) : History[g] = History[h] => g = h

-----------------------------------------------------------------------------
(***************************************************************************)
(* The inductive invariant, in its parts. A copy of the application is     *)
(* never ahead of it; one that has its version is the application.         *)
(***************************************************************************)
AppCopy(copy, o) == TrueCopy(copy, o) /\ copy.gen <= o.gen

AppCopies ==
  \A p \in Processes :
    /\ AppCopy(seen[p], app)
    /\ rec[p].pc # "idle" => AppCopy(rec[p].app, seen[p])

\* The hash is stored together with the generation it was computed of.
HashIsRecorded ==
  app.hash # NoHash => app.syncGen > 0 /\ app.hash = History[app.syncGen]

\* No Secret holds, and no status names, a generation later than the one that
\* a process has in its cache, or that its run works for: a run never stores
\* older credentials than there are.
NoNewer(g) ==
  /\ app.syncGen <= g
  /\ \A s \in Secrets : Present(secret[s]) => secret[s].gen <= g

NothingNewer ==
  /\ NoNewer(app.gen)
  /\ \A p \in Processes :
       /\ NoNewer(seen[p].gen)
       /\ rec[p].pc # "idle" => NoNewer(rec[p].app.gen)

\* What a run has saved so far has been saved, and is not older if it is there.
SavedFor(s, g) == secret[s].rv > 0 /\ (Present(secret[s]) => secret[s].gen >= g)

Done(r) ==
  CASE r.pc = "save" -> 1 .. (r.next - 1)
    [] r.pc = "status" /\ r.outcome = "synced" -> 1 .. Len(Wanted(r))
    [] OTHER -> {}

DoneIsSaved ==
  \A p \in Processes : \A i \in Done(rec[p]) :
    SavedFor(Wanted(rec[p])[i], rec[p].app.gen)

CopyInv == VersionInv /\ AppCopies /\ HashIsRecorded

SyncInv == CopyInv /\ NothingNewer /\ DoneIsSaved /\ SynchronizedMeansSaved

-----------------------------------------------------------------------------
(***************************************************************************)
(* What a step can do to the application, its copies, the Secrets and the  *)
(* runs, whichever action takes it.                                        *)
(***************************************************************************)
\* A write that is not a status update: the status is left alone or its hash is
\* emptied.
AppEdited ==
  /\ app'.rv = app.rv + 1
  /\ app'.gen >= app.gen
  /\ app'.syncGen = app.syncGen
  /\ app'.hash \in {app.hash, NoHash}

StatusWritten(p) ==
  /\ rec[p].pc = "status"
  /\ StatusAccepted(rec[p])
  /\ app' = WithStatus(app, NewStatus(rec[p]))
  /\ rec' = [rec EXCEPT ![p] = NoRun]

AppMoves ==
  \/ app' = app
  \/ /\ AppEdited \/ \E p \in Processes : StatusWritten(p)
     /\ UNCHANGED <<secret, seen>>

SeenMoves ==
  \A p \in Processes : seen'[p] = seen[p] \/ (seen'[p] = app /\ app' = app)

\* Apart from the run that saves a Secret, nobody changes what one holds.
SavedBy(p) ==
  LET r == rec[p]
      s == Wanted(r)[r.next]
  IN  r.pc = "save" /\ secret' = [secret EXCEPT ![s] = Saved(secret[s], r.app.gen)]

ContentKept ==
  \A s \in Secrets :
    /\ secret'[s].rv >= secret[s].rv
    /\ Present(secret'[s]) => Present(secret[s]) /\ secret'[s].gen = secret[s].gen

ContentMoves ==
  ContentKept \/ \E p \in Processes : SavedBy(p) /\ UNCHANGED <<app, seen>>

\* A run stays with the application it has read, and what it has done is what it
\* had done before and the Secret it saves in this step.
RunMove(p, r) ==
  \/ r.pc = "idle"
  \/ r.app = seen[p] /\ Done(r) = {} /\ UNCHANGED <<app, seen>>
  \/ /\ rec[p].pc # "idle"
     /\ r.app = rec[p].app
     /\ \A i \in Done(r) : i \in Done(rec[p]) \/ (i = rec[p].next /\ SavedBy(p))

RunMoves == \A p \in Processes : RunMove(p, rec'[p])

SyncMoves == AppMoves /\ SeenMoves /\ ContentMoves /\ RunMoves

LEMMA SameRuns ==
  ASSUME rec' = rec
  PROVE  RunMoves
<1> SUFFICES ASSUME NEW p \in Processes PROVE RunMove(p, rec[p])
  BY DEF RunMoves
<1> QED
  BY DEF RunMove

LEMMA OneRunMoves ==
  ASSUME TypeInv, NEW p \in Processes, NEW r, RunMove(p, r),
         rec' = [rec EXCEPT ![p] = r]
  PROVE  RunMoves
<1> SUFFICES ASSUME NEW q \in Processes PROVE RunMove(q, rec'[q])
  BY DEF RunMoves
<1>1. rec \in [Processes -> Run]
  BY DEF TypeInv, TypeOK, RecTypeOK
<1>2. CASE q = p
  BY <1>1, <1>2
<1>3. CASE q # p
  <2>1. rec'[q] = rec[q]
    BY <1>1, <1>3
  <2> QED
    BY <2>1 DEF RunMove
<1> QED
  BY <1>2, <1>3

LEMMA SameContent ==
  ASSUME TypeInv, secret' = secret
  PROVE  ContentKept
<1>1. \A s \in Secrets : secret[s].rv \in Nat
  BY DEF TypeInv, TypeOK, ClusterTypeOK, SecretObject
<1> QED
  BY <1>1 DEF ContentKept

\* A Secret that is replaced by one with the same content, or taken away.
LEMMA OneContentKept ==
  ASSUME TypeInv, NEW s \in Secrets, NEW o \in SecretObject,
         o = secret[s] \/ o.rv = secret[s].rv + 1,
         Present(o) => Present(secret[s]) /\ o.gen = secret[s].gen,
         secret' = [secret EXCEPT ![s] = o]
  PROVE  ContentKept
<1> SUFFICES ASSUME NEW t \in Secrets
             PROVE  /\ secret'[t].rv >= secret[t].rv
                    /\ Present(secret'[t])
                         => Present(secret[t]) /\ secret'[t].gen = secret[t].gen
  BY DEF ContentKept
<1>1. secret \in [Secrets -> SecretObject] /\ secret[t].rv \in Nat
  BY DEF TypeInv, TypeOK, ClusterTypeOK, SecretObject
<1>2. CASE t = s
  <2>1. secret'[t] = o
    BY <1>1, <1>2
  <2>2. o.rv >= secret[t].rv
    BY <1>1, <1>2
  <2> QED
    BY <1>2, <2>1, <2>2
<1>3. CASE t # s
  BY <1>1, <1>3
<1> QED
  BY <1>2, <1>3

LEMMA DeletedContent ==
  ASSUME NEW o \in SecretObject
  PROVE  Present(Deleted(o)) => o.finalizer /\ Deleted(o).gen = o.gen
BY DEF Deleted, Removed, Written, Present

LEMMA UnfinalizedContent ==
  ASSUME NEW o \in SecretObject
  PROVE  Present(Unfinalized(o)) => Present(o) /\ Unfinalized(o).gen = o.gen
BY DEF Unfinalized, Removed, Written, Present

LEMMA ChangedAppEdited ==
  ASSUME app \in AppObject,
         \/ app' = [app EXCEPT !.rv = @ + 1, !.gen = @ + 1]
         \/ app' = [app EXCEPT !.rv = @ + 1, !.nudges = @ + 1]
         \/ app' = [app EXCEPT !.rv = @ + 1, !.nudges = @ + 1, !.hash = NoHash]
         \/ app' = [app EXCEPT !.rv = @ + 1, !.exists = FALSE]
  PROVE  AppEdited
<1>1. app.gen \in Nat /\ app.rv \in Nat
  BY DEF AppObject
<1>2. CASE app' = [app EXCEPT !.rv = @ + 1, !.gen = @ + 1]
  BY <1>1, <1>2 DEF AppObject, AppEdited
<1>3. CASE app' = [app EXCEPT !.rv = @ + 1, !.nudges = @ + 1]
  BY <1>1, <1>3 DEF AppObject, AppEdited
<1>4. CASE app' = [app EXCEPT !.rv = @ + 1, !.nudges = @ + 1, !.hash = NoHash]
  BY <1>1, <1>4 DEF AppObject, AppEdited
<1>5. CASE app' = [app EXCEPT !.rv = @ + 1, !.exists = FALSE]
  BY <1>1, <1>5 DEF AppObject, AppEdited
<1> QED
  BY <1>2, <1>3, <1>4, <1>5

\* A step that leaves the Secrets and the cached applications alone.
LEMMA AppOnly ==
  ASSUME TypeInv, app' = app \/ AppEdited, secret' = secret, seen' = seen, RunMoves
  PROVE  SyncMoves
<1>1. ContentMoves
  BY SameContent DEF ContentMoves
<1>2. SeenMoves
  BY DEF SeenMoves
<1>3. AppMoves
  BY Zenon DEF AppMoves
<1> QED
  BY <1>1, <1>2, <1>3 DEF SyncMoves

LEMMA EnvironmentSync ==
  ASSUME TypeInv, Environment
  PROVE  SyncMoves
<1>1. app \in AppObject
  BY DEF TypeInv, TypeOK, ClusterTypeOK
<1>2. RunMoves
  BY SameRuns DEF Environment
<1>3. seen' = seen
  BY Zenon DEF Environment, EditSpec, TouchApp, ClearHash, DeleteApp, ExpiryPasses,
     DeleteSecret, caches
<1>4. CASE EditSpec \/ TouchApp \/ ClearHash \/ DeleteApp \/ ExpiryPasses
  <2>1. /\ secret' = secret
        /\ \/ app' = app
           \/ app' = [app EXCEPT !.rv = @ + 1, !.gen = @ + 1]
           \/ app' = [app EXCEPT !.rv = @ + 1, !.nudges = @ + 1]
           \/ app' = [app EXCEPT !.rv = @ + 1, !.nudges = @ + 1, !.hash = NoHash]
           \/ app' = [app EXCEPT !.rv = @ + 1, !.exists = FALSE]
    BY <1>4, Zenon DEF EditSpec, TouchApp, ClearHash, DeleteApp, ExpiryPasses
  <2>2. app' = app \/ AppEdited
    BY <1>1, <2>1, ChangedAppEdited
  <2> QED
    BY <1>2, <1>3, <2>1, <2>2, AppOnly
<1>5. ASSUME NEW s \in Secrets, DeleteSecret(s)
      PROVE  SyncMoves
  <2>1. /\ app' = app /\ secret[s].phase = "live"
        /\ secret' = [secret EXCEPT ![s] = Deleted(secret[s])]
    BY <1>5, Zenon DEF DeleteSecret
  <2>2. secret[s] \in SecretObject
    BY DEF TypeInv, TypeOK, ClusterTypeOK
  <2>3. /\ Deleted(secret[s]) \in SecretObject
        /\ Deleted(secret[s]).rv = secret[s].rv + 1
    BY <2>2, DeletedType
  <2>4. Present(Deleted(secret[s])) =>
          Present(secret[s]) /\ Deleted(secret[s]).gen = secret[s].gen
    BY <2>1, <2>2, DeletedContent DEF Present
  <2>5. ContentKept
    BY <2>1, <2>3, <2>4, OneContentKept, Zenon
  <2> QED
    BY <1>2, <1>3, <2>1, <2>5 DEF SyncMoves, AppMoves, SeenMoves, ContentMoves
<1> QED
  BY <1>4, <1>5 DEF Environment

LEMMA DeliverySync ==
  ASSUME TypeInv, NEW p \in Processes, Delivery(p)
  PROVE  SyncMoves
<1>1. RunMoves
  BY SameRuns DEF Delivery
<1>2. app' = app /\ secret' = secret
  BY Zenon DEF Delivery, DeliverApp, DeliverSecret, AppDelayEnds, SecretDelayEnds,
     Resync, objects
<1>3. seen' = seen \/ seen' = [seen EXCEPT ![p] = app]
  BY Zenon DEF Delivery, DeliverApp, DeliverSecret, AppDelayEnds, SecretDelayEnds,
     Resync, caches
<1>4. SeenMoves
  BY <1>2, <1>3 DEF SeenMoves, TypeInv, TypeOK, ClusterTypeOK
<1> QED
  BY <1>1, <1>2, <1>4, SameContent DEF SyncMoves, AppMoves, ContentMoves

LEMMA StartSync ==
  ASSUME TypeInv, NEW p \in Processes, Start(p)
  PROVE  SyncMoves
<1>1. secret' = secret /\ seen' = seen
  BY Zenon DEF Start, caches
<1>2. app' = app \/ AppEdited
  <2>1. app' = app \/ app' = [app EXCEPT !.rv = @ + 1, !.exists = FALSE]
    BY Zenon DEF Start, DeleteApplication
  <2> QED
    BY <2>1, ChangedAppEdited DEF TypeInv, TypeOK, ClusterTypeOK
<1>3. RunMoves
  <2> DEFINE r == [pc |-> "check", app |-> seen[p], next |-> 1, outcome |-> "none"]
  <2>1. rec' = rec \/ (rec' = [rec EXCEPT ![p] = r] /\ app' = app)
    BY Zenon DEF Start
  <2>2. r.app = seen[p] /\ Done(r) = {}
    BY DEF Done
  <2>3. CASE rec' = [rec EXCEPT ![p] = r] /\ app' = app
    <3>1. RunMove(p, r)
      BY <1>1, <2>2, <2>3, Zenon DEF RunMove
    <3> QED
      BY <2>3, <3>1, OneRunMoves, Zenon
  <2> QED
    BY <2>1, <2>3, SameRuns
<1> QED
  BY <1>1, <1>2, <1>3, AppOnly

\* A run that goes on, or ends: what it has done by its shape.
LEMMA RunSteps ==
  ASSUME NEW r, NEW pc, NEW n, NEW outcome
  PROVE  /\ At(r, pc, n).app = r.app /\ Ended(r, outcome).app = r.app
         /\ pc = "create" => Done(At(r, pc, n)) = {}
         /\ outcome # "synced" => Done(Ended(r, outcome)) = {}
BY DEF At, Ended, Done

LEMMA AdvanceDone ==
  ASSUME NEW r \in Run, AtSecret(r), r.pc \in {"create", "save"}
  PROVE  /\ Advance(r).app = r.app
         /\ \A i \in Done(Advance(r)) :
              r.pc = "save" /\ (i \in Done(r) \/ i = r.next)
<1>1. Len(Wanted(r)) \in Nat /\ r.next \in 1 .. Len(Wanted(r))
  BY WantedType DEF AtSecret
<1>2. CASE r.next < Len(Wanted(r))
  <2>1. Advance(r) = At(r, r.pc, r.next + 1)
    BY <1>2 DEF Advance
  <2>2. CASE r.pc = "create"
    BY <2>1, <2>2, RunSteps
  <2>3. CASE r.pc = "save"
    <3>1. Done(At(r, r.pc, r.next + 1)) = 1 .. r.next
      BY <1>1, <2>3 DEF Done, At
    <3>2. Done(r) = 1 .. (r.next - 1)
      BY <2>3 DEF Done
    <3>3. \A i \in 1 .. r.next : i \in 1 .. (r.next - 1) \/ i = r.next
      BY <1>1
    <3> QED
      BY <2>1, <2>3, <3>1, <3>2, <3>3, RunSteps
  <2> QED
    BY <2>2, <2>3
<1>3. CASE ~ (r.next < Len(Wanted(r))) /\ r.pc = "create"
  <2>1. Advance(r) = At(r, "save", 1)
    BY <1>3 DEF Advance
  <2>2. Done(At(r, "save", 1)) = {}
    BY DEF Done, At
  <2> QED
    BY <2>1, <2>2, RunSteps
<1>4. CASE ~ (r.next < Len(Wanted(r))) /\ r.pc = "save"
  <2>1. Advance(r) = Ended(r, "synced") /\ r.next = Len(Wanted(r))
    BY <1>1, <1>4 DEF Advance
  <2>2. Done(Ended(r, "synced")) = 1 .. r.next
    BY <2>1 DEF Done, Ended, Wanted
  <2>3. Done(r) = 1 .. (r.next - 1)
    BY <1>4 DEF Done
  <2> QED
    BY <1>1, <1>4, <2>1, <2>2, <2>3, RunSteps
<1> QED
  BY <1>2, <1>3, <1>4

\* A step of a run from one call to the next that leaves the objects alone.
LEMMA RunOnly ==
  ASSUME TypeInv, NEW p \in Processes, NEW r, rec' = [rec EXCEPT ![p] = r],
         rec[p].pc # "idle", r.app = rec[p].app, Done(r) = {},
         app' = app, secret' = secret, seen' = seen
  PROVE  SyncMoves
<1>1. RunMove(p, r)
  BY DEF RunMove
<1>2. RunMoves
  BY <1>1, OneRunMoves
<1> QED
  BY <1>2, AppOnly

LEMMA CheckSyncSync ==
  ASSUME TypeInv, NEW p \in Processes, CheckSync(p)
  PROVE  SyncMoves
<1> DEFINE r == rec[p]
<1>1. app' = app /\ secret' = secret /\ seen' = seen
  BY Zenon DEF CheckSync, objects, caches
<1>2. rec[p].pc # "idle"
  BY DEF CheckSync
<1>3. \/ rec' = [rec EXCEPT ![p] = Ended(r, "unchanged")]
      \/ rec' = [rec EXCEPT ![p] = Ended(r, "failed")]
      \/ rec' = [rec EXCEPT ![p] = At(r, "create", 1)]
      \/ Wanted(r) = <<>> /\ rec' = [rec EXCEPT ![p] = Ended(r, "synced")]
  BY Zenon DEF CheckSync, Failed
<1>4. /\ Ended(r, "unchanged").app = r.app /\ Done(Ended(r, "unchanged")) = {}
      /\ Ended(r, "failed").app = r.app /\ Done(Ended(r, "failed")) = {}
      /\ At(r, "create", 1).app = r.app /\ Done(At(r, "create", 1)) = {}
  BY RunSteps
<1>5. ASSUME Wanted(r) = <<>>
      PROVE  Ended(r, "synced").app = r.app /\ Done(Ended(r, "synced")) = {}
  <2>1. Wanted(Ended(r, "synced")) = <<>>
    BY <1>5 DEF Ended, Wanted
  <2>2. Done(Ended(r, "synced")) = 1 .. 0
    BY <2>1 DEF Done, Ended
  <2> QED
    BY <2>2, RunSteps
<1> QED
  BY <1>1, <1>2, <1>3, <1>4, <1>5, RunOnly

LEMMA CreateSecretSync ==
  ASSUME TypeInv, NEW p \in Processes, CreateSecret(p)
  PROVE  SyncMoves
<1> DEFINE r == rec[p]
<1>1. app' = app /\ secret' = secret /\ seen' = seen
  BY Zenon DEF CreateSecret, caches
<1>2. rec[p].pc = "create"
  BY Zenon DEF CreateSecret
<1>3. \/ rec' = [rec EXCEPT ![p] = Advance(r)]
      \/ rec' = [rec EXCEPT ![p] = Ended(r, "failed")]
      \/ rec' = [rec EXCEPT ![p] = Ended(r, "failed for good")]
  BY Zenon DEF CreateSecret, Failed
<1>4. /\ Ended(r, "failed").app = r.app /\ Done(Ended(r, "failed")) = {}
      /\ Ended(r, "failed for good").app = r.app
      /\ Done(Ended(r, "failed for good")) = {}
  BY RunSteps
<1>5. Advance(r).app = r.app /\ Done(Advance(r)) = {}
  <2>1. r \in Run /\ AtSecret(r)
    BY <1>2, SecretAt
  <2> QED
    BY <1>2, <2>1, AdvanceDone
<1> QED
  BY <1>1, <1>2, <1>3, <1>4, <1>5, RunOnly

LEMMA SaveSecretSync ==
  ASSUME TypeInv, NEW p \in Processes, SaveSecret(p)
  PROVE  SyncMoves
<1> DEFINE r == rec[p]
<1>1. app' = app /\ seen' = seen
  BY Zenon DEF SaveSecret, caches
<1>2. rec[p].pc = "save"
  BY Zenon DEF SaveSecret
<1>3. /\ secret' = secret \/ SavedBy(p)
      /\ \/ SavedBy(p) /\ rec' = [rec EXCEPT ![p] = Advance(r)]
         \/ rec' = [rec EXCEPT ![p] = Ended(r, "failed")]
  BY Zenon DEF SaveSecret, SavedBy, Failed
<1>4. RunMoves
  <2>1. CASE SavedBy(p) /\ rec' = [rec EXCEPT ![p] = Advance(r)]
    <3>1. r \in Run /\ AtSecret(r)
      BY <1>2, SecretAt
    <3>2. /\ Advance(r).app = r.app
          /\ \A i \in Done(Advance(r)) : i \in Done(r) \/ i = r.next
      BY <1>2, <3>1, AdvanceDone
    <3>3. RunMove(p, Advance(r))
      BY <1>2, <2>1, <3>2 DEF RunMove
    <3> QED
      BY <2>1, <3>3, OneRunMoves
  <2>2. CASE rec' = [rec EXCEPT ![p] = Ended(r, "failed")]
    <3>1. Ended(r, "failed").app = r.app /\ Done(Ended(r, "failed")) = {}
      BY RunSteps
    <3>2. RunMove(p, Ended(r, "failed"))
      BY <1>2, <3>1 DEF RunMove
    <3> QED
      BY <2>2, <3>2, OneRunMoves
  <2> QED
    BY <1>3, <2>1, <2>2
<1>5. ContentMoves
  BY <1>1, <1>3, SameContent DEF ContentMoves
<1>6. SeenMoves /\ AppMoves
  BY <1>1, Zenon DEF SeenMoves, AppMoves
<1> QED
  BY <1>4, <1>5, <1>6 DEF SyncMoves

LEMMA UpdateStatusSync ==
  ASSUME TypeInv, NEW p \in Processes, UpdateStatus(p)
  PROVE  SyncMoves
<1>1. secret' = secret /\ seen' = seen
  BY Zenon DEF UpdateStatus, caches
<1>2. /\ rec[p].pc = "status"
      /\ rec' = [rec EXCEPT ![p] = NoRun]
      /\ \/ app' = app
         \/ StatusAccepted(rec[p]) /\ app' = WithStatus(app, NewStatus(rec[p]))
  BY Zenon DEF UpdateStatus
<1>3. AppMoves
  BY <1>1, <1>2, Zenon DEF AppMoves, StatusWritten
<1>4. RunMoves
  <2>1. RunMove(p, NoRun)
    BY DEF RunMove, NoRun
  <2> QED
    BY <1>2, <2>1, OneRunMoves
<1>5. SeenMoves
  BY <1>1, Zenon DEF SeenMoves
<1> QED
  BY <1>1, <1>3, <1>4, <1>5, SameContent DEF SyncMoves, ContentMoves

LEMMA FinStepSync ==
  ASSUME TypeInv, NEW p \in Processes, NEW s \in Secrets, FinStep(p, s),
         UNCHANGED rec
  PROVE  SyncMoves
<1>1. app' = app /\ seen' = seen
  BY Zenon DEF FinStep, FinStart, Cleanup, RemoveFinalizer, objects, caches
<1>2. RunMoves
  BY SameRuns
<1>3. CASE secret' = secret
  BY <1>1, <1>2, <1>3, AppOnly
<1>4. CASE secret' = [secret EXCEPT ![s] = Unfinalized(secret[s])]
  <2>1. secret[s] \in SecretObject
    BY DEF TypeInv, TypeOK, ClusterTypeOK
  <2>2. ContentKept
    BY <1>4, <2>1, UnfinalizedType, UnfinalizedContent, OneContentKept
  <2>3. SeenMoves /\ AppMoves
    BY <1>1, Zenon DEF SeenMoves, AppMoves
  <2> QED
    BY <1>2, <2>2, <2>3 DEF SyncMoves, ContentMoves
<1> QED
  BY <1>3, <1>4, Zenon DEF FinStep, FinStart, Cleanup, RemoveFinalizer, objects

LEMMA RestartSync ==
  ASSUME TypeInv, NEW p \in Processes, Restart(p)
  PROVE  SyncMoves
<1>1. /\ app' = app /\ secret' = secret
      /\ seen' = [seen EXCEPT ![p] = app]
      /\ rec' = [rec EXCEPT ![p] = NoRun]
  BY Zenon DEF Restart, ProcessStarts, objects
<1>2. SeenMoves
  BY <1>1 DEF SeenMoves, TypeInv, TypeOK, ClusterTypeOK
<1>3. RunMoves
  <2>1. RunMove(p, NoRun)
    BY DEF RunMove, NoRun
  <2> QED
    BY <1>1, <2>1, OneRunMoves
<1> QED
  BY <1>1, <1>2, <1>3, SameContent DEF SyncMoves, AppMoves, ContentMoves

LEMMA NextSync == TypeInv /\ [Next]_vars => SyncMoves
<1> SUFFICES ASSUME TypeInv, [Next]_vars PROVE SyncMoves
  OBVIOUS
<1>1. CASE Environment
  BY <1>1, EnvironmentSync
<1>2. ASSUME NEW p \in Processes, Delivery(p) PROVE SyncMoves
  BY <1>2, DeliverySync
<1>3. ASSUME NEW p \in Processes, RecStep(p) PROVE SyncMoves
  BY <1>3, StartSync, CheckSyncSync, CreateSecretSync, SaveSecretSync,
     UpdateStatusSync DEF RecStep
<1>4. ASSUME NEW p \in Processes, NEW s \in Secrets, FinStep(p, s), UNCHANGED rec
      PROVE  SyncMoves
  BY <1>4, FinStepSync
<1>5. ASSUME NEW p \in Processes, Restart(p) PROVE SyncMoves
  BY <1>5, RestartSync
<1>6. CASE UNCHANGED vars
  <2>1. app' = app /\ secret' = secret /\ seen' = seen /\ rec' = rec
    BY <1>6, Zenon DEF vars, objects, caches
  <2> QED
    BY <2>1, SameRuns, AppOnly
<1> QED
  BY <1>1, <1>2, <1>3, <1>4, <1>5, <1>6 DEF Next

-----------------------------------------------------------------------------
(***************************************************************************)
(* Copies of the application, for any number of processes.                 *)
(***************************************************************************)
LEMMA AppCopyTrans ==
  ASSUME NEW a \in AppObject, NEW b \in AppObject, NEW c \in AppObject,
         AppCopy(a, b), AppCopy(b, c)
  PROVE  AppCopy(a, c)
<1>1. /\ a.rv \in Nat /\ b.rv \in Nat /\ c.rv \in Nat
      /\ a.gen \in Nat /\ b.gen \in Nat /\ c.gen \in Nat
  BY DEF AppObject
<1> QED
  BY <1>1 DEF AppCopy, TrueCopy

LEMMA OwnAppCopy ==
  ASSUME NEW a \in AppObject
  PROVE  AppCopy(a, a)
<1>1. a.rv \in Nat /\ a.gen \in Nat
  BY DEF AppObject
<1> QED
  BY <1>1 DEF AppCopy, TrueCopy

\* What an accepted status update stores.
LEMMA StatusShape ==
  ASSUME NEW r, NEW o
  PROVE  LET new == WithStatus(o, NewStatus(r)) IN
         /\ new.rv = o.rv + 1 /\ new.gen = o.gen
         /\ r.outcome = "synced"
              => new.hash = Hash(r.app) /\ new.syncGen = r.app.gen
         /\ r.outcome # "synced"
              => new.hash = r.app.hash /\ new.syncGen = r.app.syncGen
BY DEF WithStatus, NewStatus, success, Status

LEMMA AppGrows ==
  ASSUME TypeInv, TypeInv', AppMoves
  PROVE  AppCopy(app, app') /\ app \in AppObject /\ app' \in AppObject
<1>1. app \in AppObject /\ app' \in AppObject
  BY DEF TypeInv, TypeOK, ClusterTypeOK
<1>2. app.rv \in Nat /\ app.gen \in Nat
  BY <1>1 DEF AppObject
<1>3. CASE app' = app
  BY <1>1, <1>3, OwnAppCopy
<1>4. ASSUME app'.rv = app.rv + 1, app'.gen >= app.gen
      PROVE  AppCopy(app, app')
  <2>1. app.rv <= app'.rv /\ app.rv # app'.rv
    BY <1>2, <1>4
  <2>2. app.gen <= app'.gen
    BY <1>4
  <2> QED
    BY <2>1, <2>2 DEF AppCopy, TrueCopy
<1>5. CASE AppEdited
  BY <1>1, <1>4, <1>5 DEF AppEdited
<1>6. ASSUME NEW p \in Processes, StatusWritten(p)
      PROVE  AppCopy(app, app')
  <2>1. app'.rv = app.rv + 1 /\ app'.gen = app.gen
    BY <1>6, StatusShape DEF StatusWritten
  <2> QED
    BY <1>2, <1>4, <2>1
<1> QED
  BY <1>1, <1>3, <1>5, <1>6 DEF AppMoves

LEMMA CopyTypes ==
  ASSUME TypeInv, NEW p \in Processes
  PROVE  /\ seen[p] \in AppObject /\ rec[p] \in Run /\ rec[p].app \in AppObject
         /\ app \in AppObject
BY DEF TypeInv, TypeOK, ClusterTypeOK, RecTypeOK, Run

LEMMA GenIsNat ==
  ASSUME NEW o \in AppObject
  PROVE  o.gen \in Nat
BY DEF AppObject

LEMMA NextAppCopies ==
  ASSUME TypeInv, TypeInv', AppCopies, SyncMoves
  PROVE  AppCopies'
<1> SUFFICES ASSUME NEW p \in Processes
             PROVE  /\ AppCopy(seen'[p], app')
                    /\ rec'[p].pc # "idle" => AppCopy(rec'[p].app, seen'[p])
  BY DEF AppCopies
<1>1. /\ seen[p] \in AppObject /\ app \in AppObject /\ rec[p].app \in AppObject
      /\ seen'[p] \in AppObject /\ app' \in AppObject
  BY CopyTypes, AppGrows DEF SyncMoves, TypeInv, TypeOK, ClusterTypeOK
<1>2. AppCopy(seen[p], app) /\ AppCopy(app, app')
  BY AppGrows DEF AppCopies, SyncMoves
<1>3. seen'[p] = seen[p] \/ (seen'[p] = app /\ app' = app)
  BY DEF SyncMoves, SeenMoves
<1>4. AppCopy(seen'[p], app')
  <2>1. CASE seen'[p] = seen[p]
    BY <1>1, <1>2, <2>1, AppCopyTrans
  <2>2. CASE seen'[p] = app /\ app' = app
    BY <1>2, <2>2
  <2> QED
    BY <1>3, <2>1, <2>2
<1>5. AppCopy(seen[p], seen'[p])
  <2>1. CASE seen'[p] = seen[p]
    BY <1>1, <2>1, OwnAppCopy
  <2>2. CASE seen'[p] = app /\ app' = app
    BY <1>2, <2>2
  <2> QED
    BY <1>3, <2>1, <2>2
<1>6. ASSUME rec'[p].pc # "idle"
      PROVE  AppCopy(rec'[p].app, seen'[p])
  <2>1. CASE rec'[p].app = seen[p]
    BY <1>5, <2>1
  <2>2. CASE rec[p].pc # "idle" /\ rec'[p].app = rec[p].app
    <3>1. AppCopy(rec[p].app, seen[p])
      BY <2>2 DEF AppCopies
    <3>2. AppCopy(rec[p].app, seen'[p])
      BY <1>1, <1>5, <3>1, AppCopyTrans
    <3> QED
      BY <2>2, <3>2
  <2> QED
    BY <1>6, <2>1, <2>2 DEF SyncMoves, RunMoves, RunMove
<1> QED
  BY <1>4, <1>6

\* A status update is accepted only when the run has read the application as it
\* is.
LEMMA AcceptedIsFresh ==
  ASSUME TypeInv, AppCopies, NEW p \in Processes, StatusWritten(p)
  PROVE  rec[p].app = app
<1>1. seen[p] \in AppObject /\ app \in AppObject /\ rec[p].app \in AppObject
  BY CopyTypes
<1>2. rec[p].pc # "idle" /\ app.rv = rec[p].app.rv
  BY DEF StatusWritten, StatusAccepted
<1>3. AppCopy(rec[p].app, app)
  BY <1>1, <1>2, AppCopyTrans DEF AppCopies
<1> QED
  BY <1>2, <1>3 DEF AppCopy, TrueCopy

LEMMA NextHash ==
  ASSUME TypeInv, AppCopies, HashIsRecorded, AppMoves
  PROVE  HashIsRecorded'
<1>1. CASE app' = app
  BY <1>1 DEF HashIsRecorded
<1>2. CASE AppEdited
  BY <1>2 DEF AppEdited, HashIsRecorded
<1>3. ASSUME NEW p \in Processes, StatusWritten(p)
      PROVE  HashIsRecorded'
  <2>1. rec[p].app = app /\ app' = WithStatus(app, NewStatus(rec[p]))
    BY <1>3, AcceptedIsFresh DEF StatusWritten
  <2>2. CASE rec[p].outcome = "synced"
    <3>1. app'.hash = History[app'.syncGen] /\ app'.syncGen = app.gen
      BY <2>1, <2>2, StatusShape DEF Hash
    <3>2. app.gen > 0
      BY DEF TypeInv, TypeOK, ClusterTypeOK, AppObject
    <3> QED
      BY <3>1, <3>2 DEF HashIsRecorded
  <2>3. CASE rec[p].outcome # "synced"
    <3>1. app'.hash = app.hash /\ app'.syncGen = app.syncGen
      BY <2>1, <2>3, StatusShape
    <3> QED
      BY <3>1 DEF HashIsRecorded
  <2> QED
    BY <2>2, <2>3
<1> QED
  BY <1>1, <1>2, <1>3 DEF AppMoves

LEMMA InitCopies == Init => CopyInv
<1> SUFFICES ASSUME Init PROVE CopyInv
  OBVIOUS
<1>1. VersionInv /\ TypeInv
  BY InitVersions, InitTypes
<1>2. AppCopies
  <2>1. \A p \in Processes : seen[p] = app /\ rec[p].pc = "idle"
    BY DEF Init, ClusterInit, RecInit, NoRun
  <2>2. AppCopy(app, app)
    BY <1>1, OwnAppCopy DEF TypeInv, TypeOK, ClusterTypeOK
  <2> QED
    BY <2>1, <2>2 DEF AppCopies
<1>3. HashIsRecorded
  BY DEF Init, ClusterInit, NewApp, HashIsRecorded
<1> QED
  BY <1>1, <1>2, <1>3 DEF CopyInv

LEMMA NextCopies == CopyInv /\ [Next]_vars => CopyInv'
<1> SUFFICES ASSUME CopyInv, [Next]_vars PROVE CopyInv'
  OBVIOUS
<1>1. VersionInv' /\ TypeInv /\ TypeInv' /\ SyncMoves
  BY NextVersions, NextTypes, NextSync DEF CopyInv, VersionInv
<1>2. AppCopies'
  BY <1>1, NextAppCopies DEF CopyInv
<1>3. HashIsRecorded'
  BY <1>1, NextHash DEF CopyInv, SyncMoves
<1> QED
  BY <1>1, <1>2, <1>3 DEF CopyInv

LEMMA CopiesHold == Spec => []CopyInv
BY InitCopies, NextCopies, PTL DEF Spec

\* An operator who empties the hash of an application gets a synchronization,
\* however many processes there are and whatever they had read before: a status
\* that brings a hash back is that of a run which has read the application just
\* as it is, since the true copies of AppCopies make its resource version tell.
THEOREM RedeploysAreKept == Spec => RedeployIsNotLost
<1>1. CopyInv /\ [Next]_vars =>
        [app.hash = NoHash /\ app'.hash # NoHash
           => \E p \in Processes :
                /\ rec[p].pc = "status" /\ rec'[p].pc = "idle"
                /\ rec[p].outcome = "synced"
                /\ rec[p].app = app]_vars
  <2> SUFFICES ASSUME CopyInv, [Next]_vars, app.hash = NoHash, app'.hash # NoHash
               PROVE  \E p \in Processes :
                        /\ rec[p].pc = "status" /\ rec'[p].pc = "idle"
                        /\ rec[p].outcome = "synced"
                        /\ rec[p].app = app
    OBVIOUS
  <2>1. TypeInv /\ AppMoves
    BY NextSync DEF CopyInv, VersionInv, SyncMoves
  <2>2. app' # app /\ ~ AppEdited
    BY DEF AppEdited
  <2>3. PICK p \in Processes : StatusWritten(p)
    BY <2>1, <2>2 DEF AppMoves
  <2>4. rec[p].app = app /\ app' = WithStatus(app, NewStatus(rec[p]))
    BY <2>1, <2>3, AcceptedIsFresh DEF CopyInv, StatusWritten
  <2>5. rec[p].outcome # "synced" => app'.hash = NoHash
    BY <2>4, StatusShape
  <2>6. rec[p].pc = "status" /\ rec' = [rec EXCEPT ![p] = NoRun]
    BY <2>3 DEF StatusWritten
  <2>7. rec'[p].pc = "idle"
    BY <2>1, <2>6 DEF TypeInv, TypeOK, RecTypeOK, NoRun
  <2> QED
    BY <2>4, <2>5, <2>6, <2>7
<1> QED
  BY <1>1, CopiesHold, PTL DEF Spec, RedeployIsNotLost

-----------------------------------------------------------------------------
(***************************************************************************)
(* What has been saved, when one process runs.                             *)
(***************************************************************************)
\* Whoever runs works for no later generation than what it has read, and no
\* other process runs.
LEMMA RunsAreOlder ==
  ASSUME TypeInv, AppCopies, OneProcess, NEW p \in Processes, NEW q \in Processes,
         rec[q].pc # "idle"
  PROVE  rec[q].app.gen <= seen[p].gen /\ rec[q].app.gen <= app.gen
<1>1. p = q
  BY DEF OneProcess
<1>2. rec[p].app.gen <= seen[p].gen /\ seen[p].gen <= app.gen
  BY <1>1 DEF AppCopies, AppCopy
<1>3. rec[p].app.gen \in Nat /\ seen[p].gen \in Nat /\ app.gen \in Nat
  BY CopyTypes, GenIsNat
<1> QED
  BY <1>1, <1>2, <1>3

\* What a run saves.
LEMMA SavedContent ==
  ASSUME TypeInv, NEW p \in Processes, SavedBy(p)
  PROVE  LET s == Wanted(rec[p])[rec[p].next] IN
         /\ s \in Secrets
         /\ secret'[s] = Saved(secret[s], rec[p].app.gen)
         /\ secret'[s].rv = secret[s].rv + 1 /\ secret[s].rv \in Nat
         /\ secret'[s].gen = rec[p].app.gen
         /\ \A t \in Secrets \ {s} : secret'[t] = secret[t]
<1> DEFINE s == Wanted(rec[p])[rec[p].next]
<1>1. s \in Secrets
  BY SecretAt DEF SavedBy
<1>2. secret \in [Secrets -> SecretObject] /\ secret[s].rv \in Nat
  BY <1>1 DEF TypeInv, TypeOK, ClusterTypeOK, SecretObject
<1>3. secret' = [secret EXCEPT ![s] = Saved(secret[s], rec[p].app.gen)]
  BY DEF SavedBy
<1>4. /\ Saved(secret[s], rec[p].app.gen).gen = rec[p].app.gen
      /\ Saved(secret[s], rec[p].app.gen).rv = secret[s].rv + 1
  BY DEF Saved, Written
<1> HIDE DEF s
<1>5. /\ secret'[s] = Saved(secret[s], rec[p].app.gen)
      /\ \A t \in Secrets \ {s} : secret'[t] = secret[t]
  BY <1>1, <1>2, <1>3
<1> QED
  BY <1>1, <1>2, <1>4, <1>5 DEF s

\* A status names the generation it named, or that of the run that writes it.
LEMMA SyncGenMoves ==
  ASSUME TypeInv, AppCopies, AppMoves
  PROVE  \/ app'.syncGen = app.syncGen
         \/ \E p \in Processes :
              /\ StatusWritten(p)
              /\ rec[p].pc # "idle" /\ rec[p].outcome = "synced"
              /\ app'.syncGen = rec[p].app.gen
<1>1. ASSUME NEW p \in Processes, StatusWritten(p)
      PROVE  \/ app'.syncGen = app.syncGen
             \/ rec[p].outcome = "synced" /\ app'.syncGen = rec[p].app.gen
  <2>1. rec[p].app = app /\ app' = WithStatus(app, NewStatus(rec[p]))
    BY <1>1, AcceptedIsFresh DEF StatusWritten
  <2> QED
    BY <2>1, StatusShape
<1> QED
  BY <1>1 DEF AppMoves, AppEdited, StatusWritten

LEMMA NoNewerKept ==
  ASSUME TypeInv, AppCopies, SyncMoves, NEW g \in Nat, NoNewer(g),
         \A q \in Processes : rec[q].pc # "idle" => rec[q].app.gen <= g
  PROVE  /\ app'.syncGen <= g
         /\ \A s \in Secrets : Present(secret'[s]) => secret'[s].gen <= g
<1>1. app'.syncGen <= g
  BY SyncGenMoves DEF SyncMoves, NoNewer
<1>2. ASSUME NEW s \in Secrets, Present(secret'[s])
      PROVE  secret'[s].gen <= g
  <2>1. CASE ContentKept
    BY <1>2, <2>1 DEF ContentKept, NoNewer
  <2>2. ASSUME NEW p \in Processes, SavedBy(p)
        PROVE  secret'[s].gen <= g
    <3>1. rec[p].pc # "idle"
      BY <2>2 DEF SavedBy
    <3>2. \/ secret'[s].gen = rec[p].app.gen
          \/ secret'[s] = secret[s]
      BY <2>2, SavedContent
    <3> QED
      BY <1>2, <3>1, <3>2 DEF NoNewer
  <2> QED
    BY <2>1, <2>2 DEF SyncMoves, ContentMoves
<1> QED
  BY <1>1, <1>2

LEMMA NextNothingNewer ==
  ASSUME TypeInv, TypeInv', AppCopies, NothingNewer, OneProcess, SyncMoves
  PROVE  NothingNewer'
<1>1. app.gen \in Nat /\ app'.gen \in Nat /\ app.gen <= app'.gen
  <2>1. AppCopy(app, app') /\ app \in AppObject /\ app' \in AppObject
    BY AppGrows DEF SyncMoves
  <2> QED
    BY <2>1 DEF AppCopy, AppObject
<1>2. NoNewer(app.gen)'
  <2>1. \A q \in Processes : rec[q].pc # "idle" => rec[q].app.gen <= app.gen
    BY RunsAreOlder
  <2>2. /\ app'.syncGen <= app.gen
        /\ \A s \in Secrets : Present(secret'[s]) => secret'[s].gen <= app.gen
    BY <1>1, <2>1, NoNewerKept DEF NothingNewer
  <2>3. /\ app'.syncGen \in Nat
        /\ \A s \in Secrets : secret'[s].gen \in Nat
    BY DEF TypeInv, TypeOK, ClusterTypeOK, AppObject, SecretObject
  <2> QED
    BY <1>1, <2>2, <2>3 DEF NoNewer
<1>3. ASSUME NEW p \in Processes
      PROVE  /\ NoNewer(seen[p].gen)'
             /\ rec'[p].pc # "idle" => NoNewer(rec[p].app.gen)'
  <2>1. seen[p].gen \in Nat /\ rec[p].app.gen \in Nat
    BY CopyTypes, GenIsNat
  <2>2. /\ app'.syncGen <= seen[p].gen
        /\ \A s \in Secrets : Present(secret'[s]) => secret'[s].gen <= seen[p].gen
    <3>1. \A q \in Processes : rec[q].pc # "idle" => rec[q].app.gen <= seen[p].gen
      BY RunsAreOlder
    <3> QED
      BY <2>1, <3>1, NoNewerKept DEF NothingNewer
  <2>3. NoNewer(seen[p].gen)'
    <3>1. CASE seen'[p] = seen[p]
      BY <2>2, <3>1 DEF NoNewer
    <3>2. CASE seen'[p] = app /\ app' = app
      BY <1>2, <3>2 DEF NoNewer
    <3> QED
      BY <3>1, <3>2 DEF SyncMoves, SeenMoves
  <2>4. ASSUME rec'[p].pc # "idle"
        PROVE  NoNewer(rec[p].app.gen)'
    <3>1. CASE rec'[p].app = seen[p]
      BY <2>2, <3>1 DEF NoNewer
    <3>2. CASE rec[p].pc # "idle" /\ rec'[p].app = rec[p].app
      <4>1. \A q \in Processes :
              rec[q].pc # "idle" => rec[q].app.gen <= rec[p].app.gen
        BY <2>1 DEF OneProcess
      <4>2. /\ app'.syncGen <= rec[p].app.gen
            /\ \A s \in Secrets :
                 Present(secret'[s]) => secret'[s].gen <= rec[p].app.gen
        BY <2>1, <3>2, <4>1, NoNewerKept DEF NothingNewer
      <4> QED
        BY <3>2, <4>2 DEF NoNewer
    <3> QED
      BY <2>4, <3>1, <3>2 DEF SyncMoves, RunMoves, RunMove
  <2> QED
    BY <2>3, <2>4
<1> QED
  BY <1>2, <1>3 DEF NothingNewer

\* What has been saved for a generation stays saved for it, unless a run that
\* works for an older generation saves something.
LEMMA SavedForKept ==
  ASSUME TypeInv, TypeInv', ContentMoves,
         NEW s \in Secrets, NEW g \in Nat, SavedFor(s, g),
         \A q \in Processes : rec[q].pc # "idle" => g <= rec[q].app.gen
  PROVE  secret'[s].rv > 0 /\ (Present(secret'[s]) => secret'[s].gen >= g)
<1>1. secret[s].rv \in Nat /\ secret'[s].rv \in Nat
  BY DEF TypeInv, TypeOK, ClusterTypeOK, SecretObject
<1>2. CASE ContentKept
  <2>1. secret'[s].rv >= secret[s].rv /\ secret[s].rv > 0
    BY <1>2 DEF ContentKept, SavedFor
  <2> QED
    BY <1>1, <1>2, <2>1 DEF ContentKept, SavedFor
<1>3. ASSUME NEW p \in Processes, SavedBy(p)
      PROVE  secret'[s].rv > 0 /\ (Present(secret'[s]) => secret'[s].gen >= g)
  <2>1. rec[p].pc # "idle"
    BY <1>3 DEF SavedBy
  <2>2. CASE s = Wanted(rec[p])[rec[p].next]
    <3>1. secret'[s].rv = secret[s].rv + 1 /\ secret'[s].gen = rec[p].app.gen
      BY <1>3, <2>2, SavedContent
    <3>2. g <= rec[p].app.gen /\ rec[p].app.gen \in Nat
      BY <2>1, CopyTypes DEF AppObject
    <3> QED
      BY <1>1, <3>1, <3>2
  <2>3. CASE s # Wanted(rec[p])[rec[p].next]
    <3>1. secret'[s] = secret[s]
      BY <1>3, <2>3, SavedContent
    <3> QED
      BY <3>1 DEF SavedFor
  <2> QED
    BY <2>2, <2>3
<1> QED
  BY <1>2, <1>3 DEF ContentMoves

LEMMA DoneInRange ==
  ASSUME TypeInv, NEW p \in Processes, NEW i \in Done(rec[p])
  PROVE  i \in 1 .. Len(Wanted(rec[p])) /\ Wanted(rec[p])[i] \in Secrets
<1>1. /\ Wanted(rec[p]) \in Seq(Secrets) /\ Len(Wanted(rec[p])) \in Nat
      /\ AtSecret(rec[p])
  BY CopyTypes, WantedType DEF TypeInv, InRange
<1>2. i \in 1 .. Len(Wanted(rec[p]))
  <2>1. CASE rec[p].pc = "save"
    <3>1. rec[p].next \in 1 .. Len(Wanted(rec[p]))
      BY <1>1, <2>1 DEF AtSecret
    <3>2. i \in 1 .. (rec[p].next - 1)
      BY <2>1 DEF Done
    <3> QED
      BY <1>1, <3>1, <3>2
  <2>2. CASE rec[p].pc # "save"
    BY <2>2 DEF Done
  <2> QED
    BY <2>1, <2>2
<1> QED
  BY <1>1, <1>2

LEMMA NextDone ==
  ASSUME TypeInv, TypeInv', OneProcess, DoneIsSaved, SyncMoves
  PROVE  DoneIsSaved'
<1> SUFFICES ASSUME NEW p \in Processes, NEW i \in Done(rec'[p])
             PROVE  LET s == Wanted(rec'[p])[i]
                        g == rec'[p].app.gen
                    IN  /\ secret'[s].rv > 0
                        /\ Present(secret'[s]) => secret'[s].gen >= g
  BY DEF DoneIsSaved, SavedFor
<1>1. /\ rec[p].pc # "idle" /\ rec'[p].app = rec[p].app
      /\ i \in Done(rec[p]) \/ (i = rec[p].next /\ SavedBy(p))
  BY DEF SyncMoves, RunMoves, RunMove, Done
<1>2. Wanted(rec'[p]) = Wanted(rec[p])
  BY <1>1 DEF Wanted
<1>3. rec[p].app.gen \in Nat
  BY CopyTypes, GenIsNat
<1>4. CASE i \in Done(rec[p])
  <2>1. SavedFor(Wanted(rec[p])[i], rec[p].app.gen) /\ Wanted(rec[p])[i] \in Secrets
    BY <1>4, DoneInRange DEF DoneIsSaved
  <2>2. \A q \in Processes : rec[q].pc # "idle" => rec[p].app.gen <= rec[q].app.gen
    BY <1>3 DEF OneProcess
  <2> QED
    BY <1>1, <1>2, <1>3, <2>1, <2>2, SavedForKept DEF SyncMoves
<1>5. CASE i = rec[p].next /\ SavedBy(p)
  <2> DEFINE s == Wanted(rec[p])[rec[p].next]
  <2>1. /\ secret'[s].rv = secret[s].rv + 1 /\ secret[s].rv \in Nat
        /\ secret'[s].gen = rec[p].app.gen
    BY <1>5, SavedContent
  <2>2. secret'[s].rv > 0 /\ secret'[s].gen >= rec[p].app.gen
    BY <1>3, <2>1
  <2> QED
    BY <1>1, <1>2, <1>5, <2>2
<1> QED
  BY <1>1, <1>4, <1>5

LEMMA NextSynchronized ==
  ASSUME TypeInv, TypeInv', AppCopies, NothingNewer, DoneIsSaved,
         SynchronizedMeansSaved, SyncMoves
  PROVE  SynchronizedMeansSaved'
<1> SUFFICES ASSUME app'.syncGen > 0, NEW i \in 1 .. Len(Wants[History[app'.syncGen]])
             PROVE  LET s == Wants[History[app'.syncGen]][i] IN
                    /\ secret'[s].rv > 0
                    /\ Present(secret'[s]) => secret'[s].gen >= app'.syncGen
  BY DEF SynchronizedMeansSaved
<1>1. CASE app'.syncGen = app.syncGen
  <2> DEFINE s == Wants[History[app.syncGen]][i]
  <2>1. app.syncGen \in 1 .. Len(History)
    BY <1>1 DEF TypeInv, TypeOK, ClusterTypeOK, AppObject
  <2>2. History[app.syncGen] \in Specs
    BY <2>1 DEF Specs
  <2>3. s \in Secrets
    BY <1>1, <2>2, WantsAssumption
  <2>4. SavedFor(s, app.syncGen)
    BY <1>1 DEF SynchronizedMeansSaved, SavedFor
  <2>5. \A q \in Processes : rec[q].pc # "idle" => app.syncGen <= rec[q].app.gen
    BY DEF NothingNewer, NoNewer
  <2>6. app.syncGen \in Nat
    BY <2>1
  <2> HIDE DEF s
  <2>7. secret'[s].rv > 0 /\ (Present(secret'[s]) => secret'[s].gen >= app.syncGen)
    BY <2>3, <2>4, <2>5, <2>6, SavedForKept DEF SyncMoves
  <2> QED
    BY <1>1, <2>7 DEF s
<1>2. ASSUME NEW p \in Processes, StatusWritten(p), rec[p].outcome = "synced",
             app'.syncGen = rec[p].app.gen, app' # app
      PROVE  LET s == Wants[History[app'.syncGen]][i] IN
             /\ secret'[s].rv > 0
             /\ Present(secret'[s]) => secret'[s].gen >= app'.syncGen
  <2>1. Done(rec[p]) = 1 .. Len(Wanted(rec[p]))
    BY <1>2 DEF Done, StatusWritten
  <2>2. Wants[History[app'.syncGen]] = Wanted(rec[p])
    BY <1>2 DEF Wanted, Hash
  <2>3. SavedFor(Wanted(rec[p])[i], rec[p].app.gen)
    BY <2>1, <2>2 DEF DoneIsSaved
  <2>4. secret' = secret
    BY <1>2 DEF SyncMoves, AppMoves
  <2> QED
    BY <1>2, <2>2, <2>3, <2>4 DEF SavedFor
<1> QED
  BY <1>1, <1>2, SyncGenMoves DEF SyncMoves

LEMMA InitSync == Init => SyncInv
<1> SUFFICES ASSUME Init PROVE SyncInv
  OBVIOUS
<1>1. CopyInv /\ TypeInv
  BY InitCopies, InitTypes
<1>2. /\ app.syncGen = 0 /\ app.gen = 1
      /\ \A s \in Secrets : ~ Present(secret[s])
      /\ \A p \in Processes : seen[p] = app /\ rec[p].pc = "idle"
  BY DEF Init, ClusterInit, RecInit, NewApp, NoSecret, NoRun, Present
<1>3. NothingNewer
  BY <1>2 DEF NothingNewer, NoNewer
<1>4. DoneIsSaved
  BY <1>2 DEF DoneIsSaved, Done
<1>5. SynchronizedMeansSaved
  BY <1>2 DEF SynchronizedMeansSaved
<1> QED
  BY <1>1, <1>3, <1>4, <1>5 DEF SyncInv

LEMMA NextSyncInv == OneProcess /\ SyncInv /\ [Next]_vars => SyncInv'
<1> SUFFICES ASSUME OneProcess, SyncInv, [Next]_vars PROVE SyncInv'
  OBVIOUS
<1>1. /\ CopyInv' /\ TypeInv /\ TypeInv' /\ AppCopies /\ SyncMoves
  BY NextCopies, NextTypes, NextSync DEF SyncInv, CopyInv, VersionInv
<1>2. NothingNewer'
  BY <1>1, NextNothingNewer DEF SyncInv
<1>3. DoneIsSaved'
  BY <1>1, NextDone DEF SyncInv
<1>4. SynchronizedMeansSaved'
  BY <1>1, NextSynchronized DEF SyncInv
<1> QED
  BY <1>1, <1>2, <1>3, <1>4 DEF SyncInv

LEMMA SyncHolds ==
  ASSUME OneProcess
  PROVE  Spec => []SyncInv
<1>1. SyncInv /\ [Next]_vars => SyncInv'
  BY NextSyncInv
<1> QED
  BY <1>1, InitSync, PTL DEF Spec

\* When one process runs, a status that names a generation as synchronized is
\* true of every Secret that generation asks for, at every moment afterwards and
\* for any number of Secrets and specs: failures, restarts, stale caches and
\* later runs never leave older credentials in one. The invariant adds what a
\* run has saved so far, and that no run works for an older generation than
\* anything that is stored.
THEOREM SynchronizedIsTrue == OneProcess => (Spec => []SynchronizedMeansSaved)
<1> SUFFICES ASSUME OneProcess PROVE Spec => []SynchronizedMeansSaved
  OBVIOUS
<1>1. SyncInv => SynchronizedMeansSaved
  BY DEF SyncInv
<1> QED
  BY <1>1, SyncHolds, PTL

LEMMA SyncedMatch ==
  ASSUME NoSpecComesBack, SyncInv
  PROVE  SyncedSecretsMatchSpec
<1> SUFFICES ASSUME app.exists, app.hash = Hash(app),
                    NEW i \in 1 .. Len(Wants[Hash(app)]),
                    Present(secret[Wants[Hash(app)][i]])
             PROVE  History[secret[Wants[Hash(app)][i]].gen] = Hash(app)
  BY DEF SyncedSecretsMatchSpec
<1> DEFINE s == Wants[Hash(app)][i]
<1>1. app \in AppObject /\ secret \in [Secrets -> SecretObject]
  BY DEF SyncInv, CopyInv, VersionInv, TypeInv, TypeOK, ClusterTypeOK
<1>2. app.gen \in 1 .. Len(History) /\ app.syncGen \in 0 .. Len(History)
  BY <1>1 DEF AppObject
<1>3. Hash(app) \in Specs /\ app.hash # NoHash
  BY <1>1, HashType, HistoryAssumption
<1>4. app.syncGen > 0 /\ History[app.syncGen] = History[app.gen]
  BY <1>3 DEF SyncInv, CopyInv, HashIsRecorded, Hash
<1>5. app.syncGen = app.gen
  BY <1>2, <1>4 DEF NoSpecComesBack
<1>6. s \in Secrets
  BY <1>3, WantsAssumption
<1>7. secret[s].gen \in Nat
  BY <1>1, <1>6 DEF SecretObject
<1>8. secret[s].gen <= app.gen
  BY <1>6 DEF SyncInv, NothingNewer, NoNewer
<1>9. secret[s].gen >= app.gen
  BY <1>4, <1>5 DEF SyncInv, SynchronizedMeansSaved, Hash
<1>10. secret[s].gen = app.gen
  BY <1>2, <1>7, <1>8, <1>9
<1> QED
  BY <1>10 DEF Hash

\* When one process runs and no spec is ever applied a second time, a stored
\* hash that matches the spec is the truth about the Secrets: those that exist
\* hold credentials made for just this spec. A run that skips the work because
\* the hash is unchanged skips nothing.
THEOREM SyncedIsTrue ==
  OneProcess /\ NoSpecComesBack => (Spec => []SyncedSecretsMatchSpec)
<1> SUFFICES ASSUME OneProcess, NoSpecComesBack
             PROVE  Spec => []SyncedSecretsMatchSpec
  OBVIOUS
<1>1. SyncInv => SyncedSecretsMatchSpec
  BY SyncedMatch
<1> QED
  BY <1>1, SyncHolds, PTL
=============================================================================
