------------------------------- MODULE Janitor -------------------------------
(***************************************************************************)
(* The Secret janitor: one goroutine that scans for Secrets nobody uses,   *)
(* all of them when its ticker fires and those of one application whenever *)
(* a reconcile of that application hands it over on the channel appChanges.*)
(* A scan is a series of List calls, each answered from an informer cache  *)
(* of its own, and only then the deletions, one at a time.                 *)
(*                                                                         *)
(* A reference is an object of some kind that names a Secret. The cluster  *)
(* hands references on: an application asks for a Secret, a ReplicaSet or  *)
(* a job created for it mounts the Secret, and so do the pods of those.    *)
(***************************************************************************)
EXTENDS Naturals, Sequences

CONSTANTS
  Secrets,     (* names of the managed Secrets                             *)
  Apps,        (* names of the applications                                *)
  Owner,       (* Owner[s]: the application named by the label of s        *)
  Kinds,       (* the kinds of object that may use a Secret, in the order  *)
               (* in which they are listed; pods come last                 *)
  Makers,      (* Makers[k]: the kinds whose objects bring about those of  *)
               (* kind k, themselves or through others                     *)
  Shapes,      (* the labels and ways of mounting that references have     *)
  MaxFaults    (* how many calls may fail                                  *)

KindSet    == {Kinds[i] : i \in 1 .. Len(Kinds)}
Mounts     == {"volume", "environment"}
Protection == {"none", "forever", "no date", "bad date", "future", "past"}
Everything == "every secret"

ASSUME JanitorAssumption ==
  /\ Owner \in [Secrets -> Apps]
  /\ Everything \notin Apps
  /\ Kinds \in Seq(STRING) /\ Kinds # <<>>
  /\ Kinds[1] = "AivenApplication" /\ Kinds[Len(Kinds)] = "Pod"
  /\ \A i, j \in 1 .. Len(Kinds) : Kinds[i] = Kinds[j] => i = j
  /\ Makers \in [KindSet -> SUBSET KindSet]
  /\ \A i, j \in 1 .. Len(Kinds) : Kinds[i] \in Makers[Kinds[j]] => i < j
  /\ \A shape \in Shapes : shape.mount \in Mounts
  /\ MaxFaults \in Nat

References == [kind : KindSet, secret : Secrets, shape : Shapes]

VARIABLES
  secret,    (* secret[s]: its protection annotations, or "gone"           *)
  refs,      (* the references that exist                                  *)
  view,      (* those the informer caches hold                             *)
  channel,   (* the applications of the reconciles that wait to hand over  *)
  scan,      (* the scan in progress                                       *)
  held,      (* history: the users that the informers have shown since the *)
             (* scan listed the Secrets, and those that came from these    *)
  rewritten, (* history: the Secrets written since then                    *)
  faults     (* calls that failed                                          *)

history == <<held, rewritten>>
vars    == <<secret, refs, view, channel, scan, history, faults>>

\* A scan: what it has listed, with the annotations of that moment; the names
\* it has found in use; how far it is in the list of kinds; the Secrets left.
Scan ==
  [pc : {"idle", "secrets", "objects", "pods", "clean"},
   scope : Apps \cup {Everything}, listed : [Secrets -> Protection \cup {"gone"}],
   used : SUBSET Secrets, next : 1 .. Len(Kinds), todo : SUBSET Secrets]

NoScan ==
  [pc |-> "idle", scope |-> Everything, listed |-> [s \in Secrets |-> "gone"],
   used |-> {}, next |-> 1, todo |-> {}]

Exists(s)  == secret[s] # "gone"
HasUser(s) == \E r \in refs : r.secret = s

\* What the janitor takes for a use of its Secret: a pod, whatever it looks like;
\* an application or workload of the Secret's application, as naiserator labels
\* them, if the application asks for it or the workload mounts it as a volume.
Counts(r) ==
  \/ r.kind = "Pod"
  \/ /\ r.shape.label = Owner[r.secret]
     /\ r.kind = "AivenApplication" \/ r.shape.mount = "volume"

Fault == faults < MaxFaults /\ faults' = faults + 1

-----------------------------------------------------------------------------
(***************************************************************************)
(* The cluster.                                                            *)
(***************************************************************************)

\* An object that names s appears. Applications and other objects that nobody
\* makes appear at will; ReplicaSets, jobs and pods come from their makers.
AddReference(r) ==
  /\ r \notin refs
  /\ \/ Makers[r.kind] = {}
     \/ \E q \in refs : q.kind \in Makers[r.kind] /\ q.secret = r.secret
  /\ refs' = refs \cup {r}
  /\ UNCHANGED <<secret, view, channel, scan, history, faults>>

\* The object is deleted or its new spec does not name s any more.
DropReference(r) ==
  /\ r \in refs
  /\ refs' = refs \ {r}
  /\ UNCHANGED <<secret, view, channel, scan, history, faults>>

\* A user that was held, or that has come from one.
HandedOn(r) ==
  \/ r \in held
  \/ \E q \in held : q.kind \in Makers[r.kind] /\ q.secret = r.secret

\* The informer of one kind catches up.
DeliverReferences(k) ==
  /\ view' = {r \in view : r.kind # k} \cup {r \in refs : r.kind = k}
  /\ view' # view
  /\ held' = {r \in view' : Counts(r) /\ HandedOn(r)}
  /\ UNCHANGED <<secret, refs, channel, scan, rewritten, faults>>

\* The reconciler of an application that asks for s, as far as the informer
\* knows, writes s with the protection of the application's spec. It does so
\* while the scan that its reconcile has called for is on.
WriteSecret(s) ==
  /\ \E r \in view : r.kind = "AivenApplication" /\ r.secret = s
  /\ \E p \in {"none", "forever", "future"} : secret' = [secret EXCEPT ![s] = p]
  /\ rewritten' = IF scan.pc \in {"objects", "pods", "clean"} THEN rewritten \cup {s}
                  ELSE rewritten
  /\ UNCHANGED <<refs, view, channel, scan, held, faults>>

TimeLimitPasses(s) ==
  /\ secret[s] = "future"
  /\ secret' = [secret EXCEPT ![s] = "past"]
  /\ UNCHANGED <<refs, view, channel, scan, history, faults>>

\* A reconcile of application a blocks on the channel until the janitor takes
\* the application; there is one reconcile of an application at a time.
SendApp(a) ==
  /\ \A i \in 1 .. Len(channel) : channel[i] # a
  /\ channel' = Append(channel, a)
  /\ UNCHANGED <<secret, refs, view, scan, history, faults>>

-----------------------------------------------------------------------------
(***************************************************************************)
(* The janitor.                                                            *)
(***************************************************************************)
Begin(scope) == scan' = [NoScan EXCEPT !.pc = "secrets", !.scope = scope]

Tick ==
  /\ scan.pc = "idle"
  /\ Begin(Everything)
  /\ UNCHANGED <<secret, refs, view, channel, history, faults>>

\* Senders that wait on a channel are served in turn.
ReceiveApp ==
  /\ scan.pc = "idle"
  /\ channel # <<>>
  /\ Begin(Head(channel))
  /\ channel' = Tail(channel)
  /\ UNCHANGED <<secret, refs, view, history, faults>>

InScope(s) == scan.scope \in {Everything, Owner[s]}

ListSecrets ==
  /\ scan.pc = "secrets"
  /\ scan' = [scan EXCEPT !.pc = "objects", !.listed =
                [s \in Secrets |-> IF InScope(s) THEN secret[s] ELSE "gone"]]
  /\ held' = {r \in view : Counts(r)}
  /\ rewritten' = {}
  /\ UNCHANGED <<secret, refs, view, channel, faults>>

\* A scan for one application only lists objects with its label. Applications
\* name the Secret in their spec; of the others only the volumes are looked at.
inUse_AppsOnly(r) ==   \* a slip: the volumes are not looked at
  /\ scan.scope \in {Everything, r.shape.label}
  /\ r.kind = "AivenApplication"

inUse(r) ==
  /\ scan.scope \in {Everything, r.shape.label}
  /\ r.kind = "AivenApplication" \/ r.shape.mount = "volume"

\* The next kind is listed, pods excepted.
ListObjects ==
  /\ scan.pc = "objects"
  /\ scan' = IF Kinds[scan.next] = "Pod" THEN [scan EXCEPT !.pc = "pods"]
             ELSE [scan EXCEPT !.next = @ + 1, !.used = @ \cup
                     {r.secret : r \in {q \in view : q.kind = Kinds[scan.next] /\ inUse(q)}}]
  /\ UNCHANGED <<secret, refs, view, channel, history, faults>>

\* Pods are listed last, whatever their labels are; every way of mounting
\* counts. (A slip: the Secrets found in use stay on the list.)
Unused_All(used) == {s \in Secrets : scan.listed[s] # "gone"}

Unused(used) == {s \in Secrets : scan.listed[s] # "gone"} \ used

ListPods ==
  /\ scan.pc = "pods"
  /\ LET used == scan.used \cup {r.secret : r \in {q \in view : q.kind = "Pod"}}
     IN scan' = [scan EXCEPT !.pc = "clean", !.used = used, !.todo = Unused(used)]
  /\ UNCHANGED <<secret, refs, view, channel, history, faults>>

\* A Secret that is protected is deleted only when its time limit is known and
\* has passed, by the annotations as they were listed and the clock of now.
\* (Slips: a limit counts whether it has passed or not; it never counts.)
MayDelete_AnyLimit(listed, now) == listed \in {"none", "future", "past"}
MayDelete_NoLimit(listed, now)  == listed = "none"

MayDelete(listed, now) == listed = "none" \/ (listed \in {"future", "past"} /\ now = "past")

\* The clock at the decision: a limit that was in the future may have passed.
Now(s) == IF scan.listed[s] = "future" /\ secret[s] = "past" THEN "past" ELSE scan.listed[s]

\* What is left to clean after s. (A slip: s too, until it can be deleted.)
Left_Undeleted(s) == IF MayDelete(scan.listed[s], Now(s)) THEN scan.todo \ {s} ELSE scan.todo

Left(s) == scan.todo \ {s}

CleanSecret(s) ==
  /\ scan.pc = "clean"
  /\ s \in scan.todo
  /\ scan' = [scan EXCEPT !.todo = Left(s)]
  /\ \/ /\ secret' = IF MayDelete(scan.listed[s], Now(s))
                     THEN [secret EXCEPT ![s] = "gone"] ELSE secret
        /\ UNCHANGED faults
     \/ /\ MayDelete(scan.listed[s], Now(s))     \* only a warning is logged
        /\ Fault
        /\ secret' = secret
  /\ UNCHANGED <<refs, view, channel, history>>

EndScan ==
  /\ scan.pc = "clean"
  /\ scan.todo = {}
  /\ scan' = NoScan
  /\ held' = {} /\ rewritten' = {}
  /\ UNCHANGED <<secret, refs, view, channel, faults>>

\* A List call fails: Start returns the error, the manager stops and the
\* process exits, and with it the reconciles that wait. It is started again.
ListFails ==
  /\ scan.pc \in {"secrets", "objects", "pods"}
  /\ Fault
  /\ scan' = NoScan
  /\ held' = {} /\ rewritten' = {}
  /\ channel' = <<>>
  /\ view' = refs
  /\ UNCHANGED <<secret, refs>>

-----------------------------------------------------------------------------
Init ==
  /\ secret \in [Secrets -> {"none", "forever", "no date", "bad date", "future"}]
  /\ refs \in SUBSET {r \in References : r.kind = "AivenApplication"}
  /\ view = refs
  /\ channel = <<>>
  /\ scan = NoScan
  /\ held = {} /\ rewritten = {}
  /\ faults = 0

Cluster ==
  \/ \E r \in References : AddReference(r) \/ DropReference(r)
  \/ \E k \in KindSet : DeliverReferences(k)
  \/ \E s \in Secrets : WriteSecret(s) \/ TimeLimitPasses(s)
  \/ \E a \in Apps : SendApp(a)

ScanStep ==
  \/ ListSecrets \/ ListObjects \/ ListPods \/ EndScan \/ ListFails
  \/ \E s \in Secrets : CleanSecret(s)

Next == Cluster \/ Tick \/ ReceiveApp \/ ScanStep

Spec == Init /\ [][Next]_vars

(***************************************************************************)
(* The janitor's goroutine keeps going; when the ticker and a reconcile    *)
(* are both ready, select takes either with equal probability, so neither  *)
(* is passed over for ever. Watches deliver and time limits run out.       *)
(***************************************************************************)
Fairness ==
  /\ WF_vars(ScanStep)
  /\ SF_vars(Tick)
  /\ SF_vars(ReceiveApp)
  /\ \A k \in KindSet : WF_vars(DeliverReferences(k))
  /\ \A s \in Secrets : WF_vars(TimeLimitPasses(s))

FairSpec == Spec /\ Fairness

-----------------------------------------------------------------------------
TypeOK ==
  /\ secret \in [Secrets -> Protection \cup {"gone"}]
  /\ refs \subseteq References
  /\ view \subseteq References
  /\ channel \in Seq(Apps)
  /\ scan \in Scan
  /\ scan.todo \cap scan.used = {}
  /\ held \subseteq References /\ rewritten \subseteq Secrets
  /\ faults \in 0 .. MaxFaults

Deletes(s) == Exists(s) /\ secret'[s] = "gone"

\* A Secret that the informers have shown in use from the moment the scan listed
\* it on is not deleted, although its users take turns while the scan goes from
\* kind to kind: an application, then its ReplicaSets and jobs, then their pods.
\* (That an application asks for the Secret anew while the scan is on is another
\* matter: its request may come after the applications were listed.)
HeldSecretsStay ==
  [][\A s \in Secrets : Deletes(s) => \A r \in held : r.secret # s]_vars

\* A Secret whose protection has not run out is not deleted by the janitor, unless
\* it was written after the scan had listed it: the janitor decides by what it has
\* listed, and deletes by name.
ProtectedSecretsStay ==
  [][\A s \in Secrets : Deletes(s) => secret[s] \in {"none", "past"} \/ s \in rewritten]_vars

\* A Secret that nothing uses and that no protection keeps is deleted in the
\* end, unless something uses it again or it is written again.
UnusedSecretsGo ==
  \A s \in Secrets :
    secret[s] \in {"none", "past", "future"} /\ ~ HasUser(s)
      ~> secret[s] \in {"gone", "forever"} \/ HasUser(s)

\* A reconcile that waits to hand over its application gets to go on.
ReconcilesGoOn ==
  \A a \in Apps :
    (\E i \in 1 .. Len(channel) : channel[i] = a)
      ~> ~ \E i \in 1 .. Len(channel) : channel[i] = a
=============================================================================
