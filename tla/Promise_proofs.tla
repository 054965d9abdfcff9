--------------------------- MODULE Promise_proofs ---------------------------
(***************************************************************************)
(* The controllers of one process implement what module Credentials        *)
(* promises: every step of theirs, and of everybody around them, is a step *)
(* of Credentials under the mapping of Aivenator!Promise.                  *)
(*                                                                         *)
(*   a Secret is saved              Store                                  *)
(*   a status update claims it all  Claim                                  *)
(*   the spec is edited             Request                                *)
(*   a Secret is deleted            Delete; Remove when it has no finalizer*)
(*   a service user is deleted      Clean, for the Secret as it is         *)
(*   the finalizer is taken off     Remove, when the Secret is going away  *)
(*   the process restarts, or the                                          *)
(*   answer of an update is lost    Forget                                 *)
(*   anything else                  Forget nothing                         *)
(***************************************************************************)
EXTENDS Sync_proofs

Phases  == [s \in Secrets |-> secret[s].phase]
Holds   == [s \in Secrets |-> secret[s].gen]
Stored  == [s \in Secrets |-> secret[s].rv > 0]
Cleaned == [s \in Secrets |-> CleanedUp(s)]

\* A Secret that exists has been written.
WrittenOnce == \A s \in Secrets : Present(secret[s]) => secret[s].rv > 0

PromiseInv == SyncInv /\ WrittenOnce

-----------------------------------------------------------------------------
\* A function on S that differs from another at one place, or nowhere.
LEMMA Replaced ==
  ASSUME NEW S, NEW f, NEW g, f = [x \in S |-> f[x]], g = [x \in S |-> g[x]],
         NEW s \in S, NEW e, g[s] = e, \A t \in S : t # s => g[t] = f[t]
  PROVE  g = [f EXCEPT ![s] = e]
OBVIOUS

\* The mapped variables are functions on the Secrets, before a step and after.
LEMMA MappedFunctions ==
  /\ \A s \in Secrets : /\ Phases[s] = secret[s].phase /\ Phases'[s] = secret'[s].phase
                        /\ Holds[s] = secret[s].gen /\ Holds'[s] = secret'[s].gen
                        /\ Stored[s] = (secret[s].rv > 0)
                        /\ Stored'[s] = (secret'[s].rv > 0)
                        /\ Cleaned[s] = CleanedUp(s) /\ Cleaned'[s] = CleanedUp(s)'
  /\ Phases = [s \in Secrets |-> Phases[s]] /\ Phases' = [s \in Secrets |-> Phases'[s]]
  /\ Holds = [s \in Secrets |-> Holds[s]] /\ Holds' = [s \in Secrets |-> Holds'[s]]
  /\ Stored = [s \in Secrets |-> Stored[s]] /\ Stored' = [s \in Secrets |-> Stored'[s]]
  /\ Cleaned = [s \in Secrets |-> Cleaned[s]]
  /\ Cleaned' = [s \in Secrets |-> Cleaned'[s]]
<1>1. /\ \A s \in Secrets : Phases[s] = secret[s].phase /\ Phases'[s] = secret'[s].phase
      /\ Phases = [s \in Secrets |-> Phases[s]]
      /\ Phases' = [s \in Secrets |-> Phases'[s]]
  BY DEF Phases
<1>2. /\ \A s \in Secrets : Holds[s] = secret[s].gen /\ Holds'[s] = secret'[s].gen
      /\ Holds = [s \in Secrets |-> Holds[s]]
      /\ Holds' = [s \in Secrets |-> Holds'[s]]
  BY DEF Holds
<1>3. /\ \A s \in Secrets : /\ Stored[s] = (secret[s].rv > 0)
                             /\ Stored'[s] = (secret'[s].rv > 0)
      /\ Stored = [s \in Secrets |-> Stored[s]]
      /\ Stored' = [s \in Secrets |-> Stored'[s]]
  BY DEF Stored
<1>4. /\ \A s \in Secrets : Cleaned[s] = CleanedUp(s) /\ Cleaned'[s] = CleanedUp(s)'
      /\ Cleaned = [s \in Secrets |-> Cleaned[s]]
      /\ Cleaned' = [s \in Secrets |-> Cleaned'[s]]
  BY DEF Cleaned
<1> QED
  BY <1>1, <1>2, <1>3, <1>4

\* A step after which less is cleaned up for, and nothing else has changed.
LEMMA ForgetStep ==
  ASSUME app'.gen = app.gen, app'.syncGen = app.syncGen,
         Phases' = Phases, Holds' = Holds, Stored' = Stored,
         \A s \in Secrets : CleanedUp(s)' => CleanedUp(s)
  PROVE  Promise!Next
<1> DEFINE S == {s \in Secrets : ~ CleanedUp(s)'}
<1>1. Cleaned' = [s \in Secrets |-> Cleaned[s] /\ s \notin S]
  BY Zenon DEF Cleaned, CleanedUp
<1>2. Promise!Forget(S)
  BY <1>1 DEF Promise!Forget, Phases, Holds, Stored, Cleaned
<1>3. S \in SUBSET Secrets
  OBVIOUS
<1> HIDE DEF S
<1> QED
  BY <1>2, <1>3, Zenon DEF Promise!Next

\* Runs of the finalizer that are about to take the finalizer off were so before.
FewerUpdates(s) ==
  \A p \in Processes :
    fin'[p][s].pc = "update" =>
      fin[p][s].pc = "update" /\ fin'[p][s].read = fin[p][s].read

\* A step that leaves the Secrets alone.
LEMMA SameSecrets ==
  ASSUME app'.gen = app.gen, app'.syncGen = app.syncGen, secret' = secret,
         \A s \in Secrets : FewerUpdates(s)
  PROVE  Promise!Next
<1>1. Phases' = Phases /\ Holds' = Holds /\ Stored' = Stored
  BY DEF Phases, Holds, Stored
<1>2. \A s \in Secrets : CleanedUp(s)' => CleanedUp(s)
  BY DEF CleanedUp, FewerUpdates
<1> QED
  BY <1>1, <1>2, ForgetStep

LEMMA SameRead ==
  ASSUME fin' = fin
  PROVE  \A s \in Secrets : FewerUpdates(s)
BY DEF FewerUpdates

\* A step that writes one Secret, and what it makes of the mapped variables: no
\* run of the finalizer has read the new version.
LEMMA OneSecretWritten ==
  ASSUME VersionInv, NEW s \in Secrets, NEW o \in SecretObject,
         o.rv = secret[s].rv + 1,
         secret' = [secret EXCEPT ![s] = o], FewerUpdates(s),
         \A p \in Processes, t \in Secrets : t # s => fin'[p][t] = fin[p][t]
  PROVE  /\ Phases' = [Phases EXCEPT ![s] = o.phase]
         /\ Holds' = [Holds EXCEPT ![s] = o.gen]
         /\ Stored' = [Stored EXCEPT ![s] = TRUE]
         /\ Cleaned' = [Cleaned EXCEPT ![s] = Present(o) /\ ~ o.finalizer]
<1>1. /\ secret \in [Secrets -> SecretObject] /\ secret[s].rv \in Nat
  BY DEF VersionInv, TypeInv, TypeOK, ClusterTypeOK, SecretObject
<1>2. secret'[s] = o /\ \A t \in Secrets : t # s => secret'[t] = secret[t]
  BY <1>1
<1>3. Phases' = [Phases EXCEPT ![s] = o.phase]
  <2>1. Phases'[s] = o.phase /\ \A t \in Secrets : t # s => Phases'[t] = Phases[t]
    BY <1>2, MappedFunctions
  <2> QED
    BY <2>1, MappedFunctions, Replaced
<1>4. Holds' = [Holds EXCEPT ![s] = o.gen]
  <2>1. Holds'[s] = o.gen /\ \A t \in Secrets : t # s => Holds'[t] = Holds[t]
    BY <1>2, MappedFunctions
  <2> QED
    BY <2>1, MappedFunctions, Replaced
<1>5. Stored' = [Stored EXCEPT ![s] = TRUE]
  <2>1. o.rv > 0
    BY <1>1
  <2>2. Stored'[s] = TRUE
    <3>1. secret'[s].rv > 0
      BY <1>2, <2>1
    <3>2. Stored'[s] = (secret'[s].rv > 0)
      BY DEF Stored
    <3>3. (secret'[s].rv > 0) = TRUE
      BY <3>1
    <3> QED
      BY <3>2, <3>3
  <2>3. \A t \in Secrets : t # s => Stored'[t] = Stored[t]
    BY <1>2 DEF Stored
  <2> QED
    BY <2>2, <2>3, MappedFunctions, Replaced
<1>6. Cleaned' = [Cleaned EXCEPT ![s] = Present(o) /\ ~ o.finalizer]
  <2>1. ASSUME NEW p \in Processes, fin'[p][s].pc = "update"
        PROVE  fin'[p][s].read.rv # o.rv
    <3>1. fin[p][s].pc = "update" /\ fin'[p][s].read = fin[p][s].read
      BY <2>1 DEF FewerUpdates
    <3>2. fin[p][s].read.rv <= secret[s].rv
      BY <3>1 DEF VersionInv, TrueCopies, TrueCopy
    <3>3. fin[p][s].read.rv \in Nat
      BY DEF VersionInv, TypeInv, TypeOK, FinTypeOK, FinRun, SecretObject
    <3> QED
      BY <1>1, <3>1, <3>2, <3>3
  <2>2. CleanedUp(s)' <=> Present(o) /\ ~ o.finalizer
    BY <1>2, <2>1 DEF CleanedUp
  <2>3. \A t \in Secrets : t # s => (CleanedUp(t)' <=> CleanedUp(t))
    BY <1>2 DEF CleanedUp
  <2>4. Cleaned'[s] = (Present(o) /\ ~ o.finalizer)
    BY <2>2, Zenon DEF Cleaned, CleanedUp
  <2>5. \A t \in Secrets : t # s => Cleaned'[t] = Cleaned[t]
    BY <2>3, Zenon DEF Cleaned, CleanedUp
  <2> QED
    BY <2>4, <2>5, MappedFunctions, Replaced
<1> QED
  BY <1>3, <1>4, <1>5, <1>6

-----------------------------------------------------------------------------
(***************************************************************************)
(* The steps that write a Secret.                                          *)
(***************************************************************************)
LEMMA StoreStep ==
  ASSUME PromiseInv, NEW p \in Processes, SavedBy(p), rec[p].pc # "idle",
         app' = app, fin' = fin
  PROVE  Promise!Next
<1>1. TypeInv /\ VersionInv /\ AppCopies /\ NothingNewer
  BY DEF PromiseInv, SyncInv, CopyInv, VersionInv
<1>2. rec[p].app.gen \in 1 .. Len(History)
  BY <1>1, CopyTypes DEF AppObject
<1>3. PICK s \in Secrets, g \in 1 .. Len(History) :
        s = Wanted(rec[p])[rec[p].next] /\ g = rec[p].app.gen
  BY <1>1, <1>2, SavedContent
<1> DEFINE o == Saved(secret[s], g)
<1>4. secret' = [secret EXCEPT ![s] = o]
  BY <1>3 DEF SavedBy
<1>5. secret[s] \in SecretObject
  BY <1>1 DEF TypeInv, TypeOK, ClusterTypeOK
<1>6. o \in SecretObject /\ o.rv = secret[s].rv + 1
  BY <1>5, SavedType
<1>7. /\ o.phase = (IF Present(secret[s]) THEN secret[s].phase ELSE "live")
      /\ o.gen = g /\ o.finalizer
  BY DEF Saved, Written
<1>8. g <= app.gen
  <2>1. rec[p].app \in AppObject /\ seen[p] \in AppObject /\ app \in AppObject
    BY <1>1, CopyTypes
  <2>2. AppCopy(rec[p].app, app)
    BY <1>1, <2>1, AppCopyTrans DEF AppCopies
  <2> QED
    BY <1>3, <2>2 DEF AppCopy
<1>9. Present(secret[s]) => g >= secret[s].gen
  <2>1. Present(secret[s]) => secret[s].gen <= g
    BY <1>1, <1>3 DEF NothingNewer, NoNewer
  <2>2. secret[s].gen \in Nat /\ g \in Nat
    BY <1>5 DEF SecretObject
  <2> QED
    BY <2>1, <2>2
<1> HIDE DEF o
<1>10. /\ Phases' = [Phases EXCEPT ![s] = o.phase]
       /\ Holds' = [Holds EXCEPT ![s] = o.gen]
       /\ Stored' = [Stored EXCEPT ![s] = TRUE]
       /\ Cleaned' = [Cleaned EXCEPT ![s] = Present(o) /\ ~ o.finalizer]
  BY <1>1, <1>4, <1>6, SameRead, OneSecretWritten
<1>11. (Present(o) /\ ~ o.finalizer) = FALSE
  BY <1>7
<1>12. Phases[s] = secret[s].phase /\ Holds[s] = secret[s].gen
  BY DEF Phases, Holds
<1>13. /\ (Phases[s] # "absent" => g >= Holds[s])
       /\ Phases' = [Phases EXCEPT ![s] = IF Phases[s] # "absent" THEN @ ELSE "live"]
       /\ Holds' = [Holds EXCEPT ![s] = g]
       /\ Cleaned' = [Cleaned EXCEPT ![s] = FALSE]
  BY <1>7, <1>9, <1>10, <1>11, <1>12 DEF Present
<1>14. Promise!Store(s, g)
  BY <1>8, <1>10, <1>13 DEF Promise!Store, Promise!There, Phases, Holds, Stored, Cleaned
<1> QED
  BY <1>14, Zenon DEF Promise!Next

\* A Secret that goes away has been cleaned up for.
LEMMA RemoveStep ==
  ASSUME PromiseInv, NEW s \in Secrets, CleanedUp(s),
         app' = app, secret' = [secret EXCEPT ![s] = Removed(secret[s])],
         FewerUpdates(s),
         \A p \in Processes, t \in Secrets : t # s => fin'[p][t] = fin[p][t]
  PROVE  Promise!Next
<1> DEFINE o == Removed(secret[s])
<1>1. TypeInv /\ VersionInv /\ WrittenOnce
  BY DEF PromiseInv, SyncInv, CopyInv, VersionInv
<1>2. secret[s] \in SecretObject
  BY <1>1 DEF TypeInv, TypeOK, ClusterTypeOK
<1>3. o \in SecretObject /\ o.rv = secret[s].rv + 1
  BY <1>2, RemovedType
<1>4. o.phase = "absent" /\ o.gen = 0 /\ ~ o.finalizer /\ ~ Present(o)
  BY DEF Removed, Written, Present
<1>5. Present(secret[s]) /\ secret[s].rv > 0
  BY <1>1 DEF CleanedUp, WrittenOnce
<1> HIDE DEF o
<1>6. /\ Phases' = [Phases EXCEPT ![s] = o.phase]
      /\ Holds' = [Holds EXCEPT ![s] = o.gen]
      /\ Stored' = [Stored EXCEPT ![s] = TRUE]
      /\ Cleaned' = [Cleaned EXCEPT ![s] = Present(o) /\ ~ o.finalizer]
  BY <1>1, <1>3, OneSecretWritten DEF o
<1>7. (Present(o) /\ ~ o.finalizer) = FALSE
  BY <1>4
<1>8. Stored' = Stored
  <2>1. Stored[s] = TRUE
    BY <1>5 DEF Stored
  <2> QED
    BY <1>6, <2>1 DEF Stored
<1>9. Phases[s] # "absent" /\ Cleaned[s]
  BY <1>5 DEF Phases, Cleaned, Present
<1>10. Promise!Remove(s)
  BY <1>4, <1>6, <1>7, <1>8, <1>9
     DEF Promise!Remove, Promise!There, Phases, Holds, Stored, Cleaned
<1> QED
  BY <1>10, Zenon DEF Promise!Next

\* Deleting a Secret marks it, or takes it away when it has no finalizer.
LEMMA DeleteStep ==
  ASSUME PromiseInv, NEW s \in Secrets, DeleteSecret(s), fin' = fin
  PROVE  Promise!Next
<1> DEFINE o == Deleted(secret[s])
<1>1. TypeInv /\ VersionInv /\ WrittenOnce
  BY DEF PromiseInv, SyncInv, CopyInv, VersionInv
<1>2. /\ app' = app /\ secret[s].phase = "live"
      /\ secret' = [secret EXCEPT ![s] = o]
  BY Zenon DEF DeleteSecret
<1>3. secret[s] \in SecretObject /\ Present(secret[s])
  BY <1>1, <1>2 DEF TypeInv, TypeOK, ClusterTypeOK, Present
<1>4. CASE ~ secret[s].finalizer
  <2>1. o = Removed(secret[s]) /\ CleanedUp(s)
    BY <1>3, <1>4 DEF Deleted, CleanedUp
  <2> QED
    BY <1>2, <2>1, SameRead, RemoveStep
<1>5. CASE secret[s].finalizer
  <2>1. o \in SecretObject /\ o.rv = secret[s].rv + 1
    BY <1>3, DeletedType
  <2>2. o.phase = "terminating" /\ o.gen = secret[s].gen /\ o.finalizer
    BY <1>5 DEF Deleted, Written
  <2>3. secret[s].rv > 0
    BY <1>1, <1>3 DEF WrittenOnce
  <2> HIDE DEF o
  <2>4. /\ Phases' = [Phases EXCEPT ![s] = o.phase]
        /\ Holds' = [Holds EXCEPT ![s] = o.gen]
        /\ Stored' = [Stored EXCEPT ![s] = TRUE]
        /\ Cleaned' = [Cleaned EXCEPT ![s] = Present(o) /\ ~ o.finalizer]
    BY <1>1, <1>2, <2>1, SameRead, OneSecretWritten
  <2>5. (Present(o) /\ ~ o.finalizer) = FALSE
    BY <2>2
  <2>6. Holds' = Holds /\ Stored' = Stored
    <3>1. Holds[s] = o.gen /\ Stored[s] = TRUE
      BY <2>2, <2>3 DEF Holds, Stored
    <3> QED
      BY <2>4, <3>1 DEF Holds, Stored
  <2>7. Phases[s] = "live"
    BY <1>2 DEF Phases
  <2>8. Promise!Delete(s)
    BY <1>2, <2>2, <2>4, <2>5, <2>6, <2>7
       DEF Promise!Delete, Phases, Holds, Stored, Cleaned
  <2> QED
    BY <2>8, Zenon DEF Promise!Next
<1> QED
  BY <1>4, <1>5

\* The finalizer is taken off a Secret: a run has cleaned up for what it holds.
\* One under deletion goes away, any other stays as it is.
LEMMA UnfinalizeStep ==
  ASSUME PromiseInv, NEW p \in Processes, NEW s \in Secrets, app' = app,
         fin[p][s].pc = "update", Fresh(fin[p][s].read, secret[s]),
         secret' = [secret EXCEPT ![s] = Unfinalized(secret[s])],
         fin' = [fin EXCEPT ![p][s] = NoFinRun]
  PROVE  Promise!Next
<1>1. TypeInv /\ VersionInv /\ WrittenOnce
  BY DEF PromiseInv, SyncInv, CopyInv, VersionInv
<1>2. secret \in [Secrets -> SecretObject] /\ fin \in [Processes -> [Secrets -> FinRun]]
  BY <1>1 DEF TypeInv, TypeOK, ClusterTypeOK, FinTypeOK
<1>3. CleanedUp(s) /\ Present(secret[s])
  BY DEF CleanedUp, Fresh
<1>4. /\ \A t \in Secrets : FewerUpdates(t)
      /\ \A q \in Processes, t \in Secrets : t # s => fin'[q][t] = fin[q][t]
  BY <1>2 DEF FewerUpdates, NoFinRun
<1>5. CASE secret[s].phase = "terminating"
  <2>1. secret' = [secret EXCEPT ![s] = Removed(secret[s])]
    BY <1>5 DEF Unfinalized
  <2> QED
    BY <1>3, <1>4, <2>1, RemoveStep
<1>6. CASE secret[s].phase # "terminating" /\ ~ secret[s].finalizer
  <2>1. secret' = secret
    BY <1>2, <1>6 DEF Unfinalized
  <2> QED
    BY <1>4, <2>1, SameSecrets
<1>7. CASE secret[s].phase # "terminating" /\ secret[s].finalizer
  <2> DEFINE o == Written(secret[s], secret[s].phase, secret[s].gen, FALSE)
  <2>1. secret' = [secret EXCEPT ![s] = o]
    BY <1>7 DEF Unfinalized
  <2>2. o \in SecretObject /\ o.rv = secret[s].rv + 1
    <3>1. /\ secret[s] \in SecretObject
          /\ secret[s].phase \in {"absent", "live", "terminating"}
          /\ secret[s].gen \in 0 .. Len(History)
      BY <1>2 DEF SecretObject
    <3> QED
      BY <3>1, WrittenType
  <2>3. /\ o.phase = secret[s].phase /\ o.gen = secret[s].gen
        /\ Present(o) /\ ~ o.finalizer
    BY <1>3 DEF Written, Present
  <2> HIDE DEF o
  <2>4. /\ Phases' = [Phases EXCEPT ![s] = o.phase]
        /\ Holds' = [Holds EXCEPT ![s] = o.gen]
        /\ Stored' = [Stored EXCEPT ![s] = TRUE]
        /\ Cleaned' = [Cleaned EXCEPT ![s] = Present(o) /\ ~ o.finalizer]
    BY <1>1, <1>4, <2>1, <2>2, OneSecretWritten
  <2>5. Phases' = Phases /\ Holds' = Holds
    <3>1. Phases[s] = o.phase /\ Holds[s] = o.gen
      BY <2>3 DEF Phases, Holds
    <3> QED
      BY <2>4, <3>1 DEF Phases, Holds
  <2>6. Stored' = Stored
    <3>1. Stored[s] = TRUE
      BY <1>1, <1>3 DEF WrittenOnce, Stored
    <3> QED
      BY <2>4, <3>1 DEF Stored
  <2>7. \A t \in Secrets : CleanedUp(t)' => CleanedUp(t)
    <3>1. \A t \in Secrets : t # s => secret'[t] = secret[t]
      BY <1>2, <2>1
    <3> QED
      BY <1>3, <1>4, <3>1 DEF CleanedUp, FewerUpdates
  <2> QED
    BY <2>5, <2>6, <2>7, ForgetStep
<1> QED
  BY <1>5, <1>6, <1>7

LEMMA CleanStep ==
  ASSUME PromiseInv, NEW p \in Processes, NEW s \in Secrets, app' = app,
         secret' = secret, fin[p][s].pc = "cleanup",
         fin' = [fin EXCEPT ![p][s].pc = "update"]
  PROVE  Promise!Next
<1>1. fin \in [Processes -> [Secrets -> FinRun]]
  BY DEF PromiseInv, SyncInv, CopyInv, VersionInv, TypeInv, TypeOK, FinTypeOK
<1>2. /\ fin'[p][s].pc = "update" /\ fin'[p][s].read = fin[p][s].read
      /\ \A q \in Processes, t \in Secrets :
           <<q, t>> # <<p, s>> => fin'[q][t] = fin[q][t]
  BY <1>1 DEF FinRun
<1>3. Phases' = Phases /\ Holds' = Holds /\ Stored' = Stored
  BY DEF Phases, Holds, Stored
<1>4. \A t \in Secrets : t # s => (CleanedUp(t)' <=> CleanedUp(t))
  BY <1>2 DEF CleanedUp
<1>5. CleanedUp(s) => CleanedUp(s)'
  BY <1>2 DEF CleanedUp
<1>6. CASE CleanedUp(s)'
  <2>1. Cleaned'[s] = TRUE
    BY <1>6, Zenon DEF Cleaned, CleanedUp
  <2>2. \A t \in Secrets : t # s => Cleaned'[t] = Cleaned[t]
    BY <1>4, Zenon DEF Cleaned, CleanedUp
  <2>3. Cleaned' = [Cleaned EXCEPT ![s] = TRUE]
    BY <2>1, <2>2, MappedFunctions, Replaced
  <2>4. Phases[s] # "absent"
    BY <1>6 DEF CleanedUp, Present, Phases
  <2>5. Promise!Clean(s)
    BY <1>3, <2>3, <2>4
       DEF Promise!Clean, Promise!There, Phases, Holds, Stored, Cleaned
  <2> QED
    BY <2>5, Zenon DEF Promise!Next
<1>7. CASE ~ CleanedUp(s)'
  <2>1. \A t \in Secrets : CleanedUp(t)' => CleanedUp(t)
    BY <1>4, <1>7
  <2> QED
    BY <1>3, <2>1, ForgetStep
<1> QED
  BY <1>6, <1>7

-----------------------------------------------------------------------------
(***************************************************************************)
(* The steps that write the application.                                   *)
(***************************************************************************)
LEMMA ClaimStep ==
  ASSUME PromiseInv, NEW p \in Processes, StatusWritten(p), secret' = secret,
         fin' = fin
  PROVE  Promise!Next
<1>1. TypeInv /\ AppCopies /\ DoneIsSaved
  BY DEF PromiseInv, SyncInv, CopyInv, VersionInv
<1>2. rec[p].app = app /\ app' = WithStatus(app, NewStatus(rec[p]))
  BY <1>1, AcceptedIsFresh DEF StatusWritten
<1>3. app'.gen = app.gen
  BY <1>2, StatusShape
<1>4. CASE rec[p].outcome # "synced"
  <2>1. app'.syncGen = app.syncGen
    BY <1>2, <1>4, StatusShape
  <2> QED
    BY <1>3, <2>1, SameRead, SameSecrets
<1>5. CASE rec[p].outcome = "synced"
  <2> DEFINE Asked  == Wants[History[app.gen]]
             Needed == {Asked[i] : i \in 1 .. Len(Asked)}
  <2>1. app'.syncGen = app.gen
    BY <1>2, <1>5, StatusShape
  <2>2. Done(rec[p]) = 1 .. Len(Wanted(rec[p])) /\ Wanted(rec[p]) = Asked
    BY <1>2, <1>5 DEF Done, Wanted, Hash, StatusWritten
  <2>3. ASSUME NEW s \in Needed
        PROVE  Stored[s] /\ (Phases[s] # "absent" => Holds[s] >= app.gen)
    <3>1. PICK i \in Done(rec[p]) : s = Wanted(rec[p])[i]
      BY <2>2
    <3>2. SavedFor(s, app.gen) /\ s \in Secrets
      BY <1>1, <1>2, <3>1, DoneInRange DEF DoneIsSaved
    <3> QED
      BY <3>2 DEF SavedFor, Stored, Phases, Holds, Present
  <2>4. app.gen \in 1 .. Len(History)
    BY <1>1 DEF TypeInv, TypeOK, ClusterTypeOK, AppObject
  <2>5. [g \in 1 .. Len(History) |->
           {Wants[History[g]][i] : i \in 1 .. Len(Wants[History[g]])}][app.gen] = Needed
    BY <2>4
  <2>6. Phases' = Phases /\ Holds' = Holds /\ Stored' = Stored
    BY DEF Phases, Holds, Stored
  <2>7. Cleaned' = Cleaned
    BY Zenon DEF Cleaned, CleanedUp
  <2> HIDE DEF Needed
  <2>8. Promise!Claim
    BY <1>3, <2>1, <2>3, <2>5, <2>6, <2>7
       DEF Promise!Claim, Promise!There, Phases, Holds, Stored, Cleaned
  <2> QED
    BY <2>8, Zenon DEF Promise!Next
<1> QED
  BY <1>4, <1>5

LEMMA RequestStep ==
  ASSUME PromiseInv, EditSpec, fin' = fin
  PROVE  Promise!Next
<1>1. app \in AppObject
  BY DEF PromiseInv, SyncInv, CopyInv, VersionInv, TypeInv, TypeOK, ClusterTypeOK
<1>2. /\ app.gen < Len(History) /\ secret' = secret
      /\ app' = [app EXCEPT !.rv = @ + 1, !.gen = @ + 1]
  BY Zenon DEF EditSpec
<1>3. app'.gen = app.gen + 1 /\ app'.syncGen = app.syncGen
  BY <1>1, <1>2 DEF AppObject
<1>4. Phases' = Phases /\ Holds' = Holds /\ Stored' = Stored
  BY <1>2 DEF Phases, Holds, Stored
<1>5. Cleaned' = Cleaned
  BY <1>2, Zenon DEF Cleaned, CleanedUp
<1>6. Promise!Request
  BY <1>2, <1>3, <1>4, <1>5 DEF Promise!Request, Phases, Holds, Stored, Cleaned
<1> QED
  BY <1>6, Zenon DEF Promise!Next

-----------------------------------------------------------------------------
(***************************************************************************)
(* Every step is one of them, or leaves what matters alone.                *)
(***************************************************************************)
LEMMA EnvironmentPromise ==
  ASSUME PromiseInv, Environment
  PROVE  Promise!Next
<1>1. fin' = fin
  BY DEF Environment
<1>2. CASE EditSpec
  BY <1>1, <1>2, RequestStep
<1>3. CASE TouchApp \/ ClearHash \/ DeleteApp \/ ExpiryPasses
  <2>1. app \in AppObject
    BY DEF PromiseInv, SyncInv, CopyInv, VersionInv, TypeInv, TypeOK, ClusterTypeOK
  <2>2. /\ secret' = secret
        /\ \/ app' = app
           \/ app' = [app EXCEPT !.rv = @ + 1, !.nudges = @ + 1]
           \/ app' = [app EXCEPT !.rv = @ + 1, !.nudges = @ + 1, !.hash = NoHash]
           \/ app' = [app EXCEPT !.rv = @ + 1, !.exists = FALSE]
    BY <1>3, Zenon DEF TouchApp, ClearHash, DeleteApp, ExpiryPasses
  <2>3. app'.gen = app.gen /\ app'.syncGen = app.syncGen
    BY <2>1, <2>2 DEF AppObject
  <2> QED
    BY <1>1, <2>2, <2>3, SameRead, SameSecrets
<1>4. ASSUME NEW s \in Secrets, DeleteSecret(s)
      PROVE  Promise!Next
  BY <1>1, <1>4, DeleteStep
<1> QED
  BY <1>2, <1>3, <1>4 DEF Environment

LEMMA RecStepPromise ==
  ASSUME PromiseInv, NEW p \in Processes, RecStep(p), UNCHANGED fin
  PROVE  Promise!Next
<1>1. app \in AppObject
  BY DEF PromiseInv, SyncInv, CopyInv, VersionInv, TypeInv, TypeOK, ClusterTypeOK
<1>2. CASE Start(p)
  <2>1. /\ secret' = secret
        /\ app' = app \/ app' = [app EXCEPT !.rv = @ + 1, !.exists = FALSE]
    BY <1>2, Zenon DEF Start, DeleteApplication
  <2>2. app'.gen = app.gen /\ app'.syncGen = app.syncGen
    BY <1>1, <2>1 DEF AppObject
  <2> QED
    BY <2>1, <2>2, SameRead, SameSecrets
<1>3. CASE CheckSync(p) \/ CreateSecret(p)
  <2>1. app' = app /\ secret' = secret
    BY <1>3, Zenon DEF CheckSync, CreateSecret, objects
  <2> QED
    BY <2>1, SameRead, SameSecrets
<1>4. CASE SaveSecret(p)
  <2>1. rec[p].pc # "idle" /\ app' = app /\ (secret' = secret \/ SavedBy(p))
    BY <1>4, Zenon DEF SaveSecret, SavedBy
  <2> QED
    BY <2>1, StoreStep, SameRead, SameSecrets
<1>5. CASE UpdateStatus(p)
  <2>1. secret' = secret /\ (app' = app \/ StatusWritten(p))
    BY <1>5, Zenon DEF UpdateStatus, StatusWritten
  <2> QED
    BY <2>1, ClaimStep, SameRead, SameSecrets
<1> QED
  BY <1>2, <1>3, <1>4, <1>5 DEF RecStep

\* A run of the finalizer that fails only forgets.
LEMMA FinRunEnds ==
  ASSUME PromiseInv, NEW p \in Processes, NEW s \in Secrets, NEW f,
         fin' = [fin EXCEPT ![p][s] = f], f.pc # "update"
  PROVE  \A t \in Secrets : FewerUpdates(t)
<1>1. fin \in [Processes -> [Secrets -> FinRun]]
  BY DEF PromiseInv, SyncInv, CopyInv, VersionInv, TypeInv, TypeOK, FinTypeOK
<1> QED
  BY <1>1 DEF FewerUpdates

LEMMA FinStepPromise ==
  ASSUME PromiseInv, NEW p \in Processes, NEW s \in Secrets, FinStep(p, s)
  PROVE  Promise!Next
<1>1. app' = app
  BY Zenon DEF FinStep, FinStart, Cleanup, RemoveFinalizer, objects
<1>2. NoFinRun.pc # "update"
  BY DEF NoFinRun
<1>3. CASE FinStart(p, s)
  <2> DEFINE f == [pc |-> "cleanup", read |-> cache[p][s]]
  <2>1. secret' = secret /\ (fin' = fin \/ fin' = [fin EXCEPT ![p][s] = f])
    BY <1>3, Zenon DEF FinStart, objects
  <2>2. f.pc # "update"
    OBVIOUS
  <2> HIDE DEF f
  <2> QED
    BY <1>1, <2>1, <2>2, FinRunEnds, SameRead, SameSecrets
<1>4. CASE Cleanup(p, s)
  <2>1. /\ secret' = secret /\ fin[p][s].pc = "cleanup"
        /\ \/ fin' = [fin EXCEPT ![p][s].pc = "update"]
           \/ fin' = [fin EXCEPT ![p][s] = NoFinRun]
    BY <1>4, Zenon DEF Cleanup, failRetry
  <2>2. CASE fin' = [fin EXCEPT ![p][s].pc = "update"]
    BY <1>1, <2>1, <2>2, CleanStep
  <2>3. CASE fin' = [fin EXCEPT ![p][s] = NoFinRun]
    BY <1>1, <1>2, <2>1, <2>3, FinRunEnds, SameSecrets
  <2> QED
    BY <2>1, <2>2, <2>3
<1>5. CASE RemoveFinalizer(p, s)
  <2>1. /\ fin[p][s].pc = "update" /\ fin' = [fin EXCEPT ![p][s] = NoFinRun]
        /\ \/ secret' = secret
           \/ /\ Fresh(fin[p][s].read, secret[s])
              /\ secret' = [secret EXCEPT ![s] = Unfinalized(secret[s])]
    BY <1>5, Zenon DEF RemoveFinalizer, failRetry
  <2>2. CASE secret' = secret
    BY <1>1, <1>2, <2>1, <2>2, FinRunEnds, SameSecrets
  <2>3. CASE /\ Fresh(fin[p][s].read, secret[s])
             /\ secret' = [secret EXCEPT ![s] = Unfinalized(secret[s])]
    BY <1>1, <2>1, <2>3, UnfinalizeStep
  <2> QED
    BY <2>1, <2>2, <2>3
<1> QED
  BY <1>3, <1>4, <1>5 DEF FinStep

LEMMA RestartPromise ==
  ASSUME PromiseInv, NEW p \in Processes, Restart(p)
  PROVE  Promise!Next
<1>1. /\ app' = app /\ secret' = secret
      /\ fin' = [fin EXCEPT ![p] = [s \in Secrets |-> NoFinRun]]
  BY Zenon DEF Restart, objects
<1>2. fin \in [Processes -> [Secrets -> FinRun]]
  BY DEF PromiseInv, SyncInv, CopyInv, VersionInv, TypeInv, TypeOK, FinTypeOK
<1>3. \A s \in Secrets : FewerUpdates(s)
  BY <1>1, <1>2 DEF FewerUpdates, NoFinRun
<1> QED
  BY <1>1, <1>3, SameSecrets

LEMMA NextPromise == PromiseInv /\ [Next]_vars => Promise!Next
<1> SUFFICES ASSUME PromiseInv, [Next]_vars PROVE Promise!Next
  OBVIOUS
<1>1. CASE Environment
  BY <1>1, EnvironmentPromise
<1>2. ASSUME NEW p \in Processes, Delivery(p) PROVE Promise!Next
  <2>1. app' = app /\ secret' = secret /\ fin' = fin
    BY <1>2, Zenon DEF Delivery, DeliverApp, DeliverSecret, AppDelayEnds,
       SecretDelayEnds, Resync, objects
  <2> QED
    BY <2>1, SameRead, SameSecrets
<1>3. ASSUME NEW p \in Processes, RecStep(p), UNCHANGED fin PROVE Promise!Next
  BY <1>3, RecStepPromise
<1>4. ASSUME NEW p \in Processes, NEW s \in Secrets, FinStep(p, s) PROVE Promise!Next
  BY <1>4, FinStepPromise
<1>5. ASSUME NEW p \in Processes, Restart(p) PROVE Promise!Next
  BY <1>5, RestartPromise
<1>6. CASE UNCHANGED vars
  <2>1. app' = app /\ secret' = secret /\ fin' = fin
    BY <1>6, Zenon DEF vars, objects
  <2> QED
    BY <2>1, SameRead, SameSecrets
<1> QED
  BY <1>1, <1>2, <1>3, <1>4, <1>5, <1>6 DEF Next

LEMMA InitPromise == Init => WrittenOnce /\ Promise!Init
<1> SUFFICES ASSUME Init PROVE WrittenOnce /\ Promise!Init
  OBVIOUS
<1>1. /\ app.gen = 1 /\ app.syncGen = 0
      /\ \A s \in Secrets : secret[s] = NoSecret
  BY DEF Init, ClusterInit, NewApp
<1>2. WrittenOnce
  BY <1>1 DEF WrittenOnce, Present, NoSecret
<1>3. /\ Phases = [s \in Secrets |-> "absent"]
      /\ Holds = [s \in Secrets |-> 0]
  BY <1>1 DEF Phases, Holds, NoSecret
<1>4. Stored = [s \in Secrets |-> FALSE]
  <2>1. \A s \in Secrets : (secret[s].rv > 0) = FALSE
    BY <1>1 DEF NoSecret
  <2> QED
    BY <2>1 DEF Stored
<1>5. Cleaned = [s \in Secrets |-> FALSE]
  <2>1. \A s \in Secrets : ~ CleanedUp(s)
    BY <1>1 DEF CleanedUp, Present, NoSecret
  <2> QED
    BY <2>1, Zenon DEF Cleaned, CleanedUp
<1>6. Promise!Init
  BY <1>1, <1>3, <1>4, <1>5 DEF Promise!Init, Phases, Holds, Stored, Cleaned
<1> QED
  BY <1>2, <1>6

LEMMA NextWritten == PromiseInv /\ [Next]_vars => WrittenOnce'
<1> SUFFICES ASSUME PromiseInv, [Next]_vars, NEW s \in Secrets, Present(secret'[s])
             PROVE  secret'[s].rv > 0
  BY DEF WrittenOnce
<1>1. TypeInv /\ WrittenOnce
  BY DEF PromiseInv, SyncInv, CopyInv, VersionInv
<1>2. secret'[s] = secret[s] \/ secret'[s].rv = secret[s].rv + 1
  BY <1>1, NextMoves DEF Moves, SecretMoves
<1>3. secret[s].rv \in Nat
  BY <1>1 DEF TypeInv, TypeOK, ClusterTypeOK, SecretObject
<1> QED
  BY <1>1, <1>2, <1>3 DEF WrittenOnce

\* The controllers of one process implement Credentials, for any number of
\* Secrets and generations: whatever the caches, conflicts, retries, faults and
\* restarts, older credentials never replace newer ones, none go away without
\* the cleanup of just these, and nothing is claimed that has not been stored.
THEOREM PromiseIsKept == OneProcess => (Spec => CredentialsAreKept)
<1> SUFFICES ASSUME OneProcess PROVE Spec => CredentialsAreKept
  OBVIOUS
<1>1. Init => PromiseInv /\ Promise!Init
  BY InitSync, InitPromise DEF PromiseInv
<1>2. PromiseInv /\ [Next]_vars => PromiseInv'
  BY NextSyncInv, NextWritten DEF PromiseInv
<1>3. PromiseInv /\ [Next]_vars => [Promise!Next]_(Promise!vars)
  BY NextPromise
<1> QED
  BY <1>1, <1>2, <1>3, PTL DEF Spec, CredentialsAreKept, Promise!Spec
=============================================================================
