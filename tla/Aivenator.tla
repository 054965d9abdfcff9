------------------------------ MODULE Aivenator ------------------------------
(***************************************************************************)
(* The reconciler and the finalizer of every running process, working on   *)
(* the same Secrets and service users while users, operators and the       *)
(* janitor change the objects and processes are restarted. The Helm chart  *)
(* runs one replica; during a rolling update the new process starts before *)
(* the old one stops, and there is no leader election.                     *)
(***************************************************************************)
EXTENDS Reconciler, Finalizer

vars == <<objects, caches, queues, budgets, rec, fin>>

Init == ClusterInit /\ RecInit /\ FinInit

\* The process ends, by a signal, a crash or an error of the janitor, and is
\* started again: everything it kept in memory is lost.
Restart(p) ==
  /\ Fault("crash")
  /\ ProcessStarts(p)
  /\ rec' = [rec EXCEPT ![p] = NoRun]
  /\ fin' = [fin EXCEPT ![p] = [s \in Secrets |-> NoFinRun]]
  /\ UNCHANGED objects

Environment ==
  /\ \/ EditSpec \/ TouchApp \/ ClearHash \/ DeleteApp \/ ExpiryPasses
     \/ \E s \in Secrets : DeleteSecret(s)
  /\ UNCHANGED <<rec, fin>>

Delivery(p) ==
  /\ \/ DeliverApp(p) \/ AppDelayEnds(p) \/ Resync(p)
     \/ \E s \in Secrets : DeliverSecret(p, s) \/ SecretDelayEnds(p, s)
  /\ UNCHANGED <<rec, fin>>

Next ==
  \/ Environment
  \/ \E p \in Processes :
       \/ Delivery(p)
       \/ RecStep(p) /\ UNCHANGED fin
       \/ \E s \in Secrets : FinStep(p, s) /\ UNCHANGED rec
       \/ Restart(p)

Spec == Init /\ [][Next]_vars

(***************************************************************************)
(* A process that runs keeps going: its watches deliver, its delays run    *)
(* out, its workers take what is queued and finish what they began, and    *)
(* the clock moves on. Nothing is promised of users and operators.         *)
(***************************************************************************)
Unhurried(A) == A /\ UNCHANGED <<rec, fin>>

Fairness ==
  /\ WF_vars(Unhurried(ExpiryPasses))
  /\ \A p \in Processes :
       /\ WF_vars(Unhurried(DeliverApp(p)))
       /\ WF_vars(Unhurried(AppDelayEnds(p)))
       /\ WF_vars(Unhurried(Resync(p)))
       /\ WF_vars(RecStep(p) /\ UNCHANGED fin)
       /\ \A s \in Secrets :
            /\ WF_vars(Unhurried(DeliverSecret(p, s)))
            /\ WF_vars(Unhurried(SecretDelayEnds(p, s)))
            /\ WF_vars(FinStep(p, s) /\ UNCHANGED rec)

FairSpec == Spec /\ Fairness

-----------------------------------------------------------------------------
TypeOK == ClusterTypeOK /\ RecTypeOK /\ FinTypeOK

\* When a Secret under deletion goes away, a run of the finalizer has cleaned
\* up for exactly the credentials the Secret held at that moment: credentials
\* the reconciler wrote into it meanwhile are not lost without their cleanup.
CleanedBeforeRemoved ==
  [][\A s \in Secrets :
       secret[s].phase = "terminating" /\ secret'[s].phase = "absent"
         => \E p \in Processes :
              /\ fin[p][s].pc = "update"
              /\ fin[p][s].read.gen = secret[s].gen]_vars

\* A status that says a generation was synchronized is true of every Secret
\* that generation asks for: it has been written, and if it still exists it
\* holds the credentials of that generation or of a later one.
SynchronizedMeansSaved ==
  app.syncGen > 0 =>
    \A i \in 1 .. Len(Wants[History[app.syncGen]]) :
      LET s == Wants[History[app.syncGen]][i] IN
      /\ secret[s].rv > 0
      /\ Present(secret[s]) => secret[s].gen >= app.syncGen

\* When the stored hash says the application needs no synchronization, its
\* Secrets, those that exist, hold credentials made for just that spec.
SyncedSecretsMatchSpec ==
  app.exists /\ app.hash = Hash(app) =>
    \A i \in 1 .. Len(Wants[Hash(app)]) :
      LET s == Wants[Hash(app)][i] IN
      Present(secret[s]) => History[secret[s].gen] = Hash(app)

\* An operator who empties the hash gets a new synchronization: the run whose
\* status brings a hash back had read the application just as it is now, after
\* the hash was emptied, and has saved its Secrets since. A run that had read
\* the application before does not bring it back, not even one that has
\* synchronized, in whichever process.
RedeployIsNotLost ==
  [][app.hash = NoHash /\ app'.hash # NoHash
       => \E p \in Processes :
            /\ rec[p].pc = "status" /\ rec'[p].pc = "idle"
            /\ rec[p].outcome = "synced"
            /\ rec[p].app = app]_vars

\* A Secret the reconciler has written and nobody deletes keeps its finalizer.
LiveSecretsAreFinalized ==
  \A s \in Secrets : secret[s].phase = "live" => secret[s].finalizer

\* After a rollout that is reported complete, every live Secret of the
\* application names a service user that exists.
CompleteSecretsWork ==
  app.exists /\ app.state = "RolloutComplete" /\ app.syncGen = app.gen =>
    \A i \in 1 .. Len(Wants[Hash(app)]) :
      LET s == Wants[Hash(app)][i] IN
      secret[s].phase = "live" => UserOf(s, secret[s].gen) \in users

\* A Secret under deletion goes away in the end, whatever fails and whenever
\* the process is restarted.
DeletedSecretsGo ==
  \A s \in Secrets : secret[s].phase = "terminating" ~> secret[s].phase = "absent"

\* Every generation of the application is synchronized in the end, unless a
\* newer one or the deletion of the application comes first.
GenerationsAreSynchronized ==
  \A g \in 1 .. Len(History) :
    app.exists /\ app.gen = g ~>
      ~ app.exists \/ app.gen # g \/ app.hash = Hash(app)

\* An application that has expired is deleted in the end.
ExpiredAppsGo == expired ~> ~ app.exists
(***************************************************************************)
(* What module Credentials promises, and how it is kept. A Secret's        *)
(* content has been cleaned up for when a run of the finalizer that read   *)
(* it at its present version is about to take the finalizer off, or when   *)
(* the finalizer has been taken off already.                               *)
(***************************************************************************)
CleanedUp(s) ==
  /\ Present(secret[s])
  /\ \/ ~ secret[s].finalizer
     \/ \E p \in Processes :
          fin[p][s].pc = "update" /\ fin[p][s].read.rv = secret[s].rv

Promise ==
  INSTANCE Credentials WITH
    MaxGen  <- Len(History),
    Needs   <- [g \in 1 .. Len(History) |->
                  {Wants[History[g]][i] : i \in 1 .. Len(Wants[History[g]])}],
    wanted  <- app.gen,
    claim   <- app.syncGen,
    phase   <- [s \in Secrets |-> secret[s].phase],
    holds   <- [s \in Secrets |-> secret[s].gen],
    stored  <- [s \in Secrets |-> secret[s].rv > 0],
    cleaned <- [s \in Secrets |-> CleanedUp(s)]

\* The controllers of one process, with all their runs, stale caches, retries
\* and restarts, keep what Credentials promises: older credentials never
\* replace newer ones, none go without their cleanup, and nothing is claimed
\* that has not been stored.
CredentialsAreKept == Promise!Spec
=============================================================================
