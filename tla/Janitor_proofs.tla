--------------------------- MODULE Janitor_proofs ---------------------------
(***************************************************************************)
(* What holds of the janitor for any Secrets, applications and kinds of    *)
(* object, any number of failed calls and scans: the types of its state;   *)
(* that no Secret is deleted before its protection has run out, but for    *)
(* one that is written during the scan; and that no Secret is deleted by a *)
(* scan all along which the informers have shown it in use, whoever handed *)
(* it on to whom, in whatever state the informers are.                     *)
(***************************************************************************)
EXTENDS Janitor, SequenceTheorems, TLAPS

Places == 1 .. Len(Kinds)

\* The list of kinds has its length, and each kind a place in it.
LEMMA KindsListed ==
  /\ Len(Kinds) \in Nat \ {0}
  /\ \A i \in Places : Kinds[i] \in KindSet
  /\ Kinds[Len(Kinds)] = "Pod"
  /\ {"AivenApplication", "Pod"} \subseteq KindSet
<1>1. Len(Kinds) \in Nat \ {0}
  BY JanitorAssumption, EmptySeq
<1>2. {1, Len(Kinds)} \subseteq Places
  BY <1>1 DEF Places
<1>3. \A i \in Places : Kinds[i] \in KindSet
  BY DEF KindSet, Places
<1> QED
  BY <1>1, <1>2, <1>3, JanitorAssumption

-----------------------------------------------------------------------------
(***************************************************************************)
(* Types. What is left to clean is there only in the last part of a scan,  *)
(* and it has been listed and found in no use.                             *)
(***************************************************************************)
TodoLast ==
  /\ scan.pc # "clean" => scan.todo = {}
  /\ \A s \in scan.todo : scan.listed[s] # "gone"

TypeInv == TypeOK /\ TodoLast

LEMMA NoScanType == NoScan \in Scan /\ NoScan.todo = {}
BY KindsListed DEF NoScan, Scan

LEMMA TypeInit == Init => TypeInv
<1> SUFFICES ASSUME Init PROVE TypeInv
  OBVIOUS
<1>1. secret \in [Secrets -> Protection \cup {"gone"}]
  BY DEF Init, Protection
<1>2. refs \subseteq References /\ view \subseteq References
  BY DEF Init
<1>3. channel \in Seq(Apps)
  BY EmptySeq DEF Init
<1>4. scan \in Scan /\ scan.todo = {}
  BY NoScanType DEF Init
<1>5. /\ held \subseteq References /\ rewritten \subseteq Secrets
      /\ faults \in 0 .. MaxFaults
  <2>1. held = {} /\ rewritten = {} /\ faults = 0
    BY DEF Init
  <2>2. MaxFaults \in Nat
    BY JanitorAssumption
  <2> QED
    BY <2>1, <2>2
<1> QED
  BY <1>1, <1>2, <1>3, <1>4, <1>5 DEF TypeInv, TypeOK, TodoLast

LEMMA TypeStep == TypeInv /\ [Next]_vars => TypeInv'
<1> SUFFICES ASSUME TypeInv, [Next]_vars PROVE TypeInv'
  OBVIOUS
<1> USE DEF TypeInv, TypeOK, TodoLast, history
<1>1. CASE UNCHANGED vars
  BY <1>1 DEF vars
<1>2. ASSUME NEW r \in References, AddReference(r) PROVE TypeInv'
  BY <1>2 DEF AddReference
<1>3. ASSUME NEW r \in References, DropReference(r) PROVE TypeInv'
  BY <1>3 DEF DropReference
<1>4. ASSUME NEW k \in KindSet, DeliverReferences(k) PROVE TypeInv'
  BY <1>4 DEF DeliverReferences
<1>5. ASSUME NEW s \in Secrets, WriteSecret(s) PROVE TypeInv'
  BY <1>5 DEF WriteSecret, Protection
<1>6. ASSUME NEW s \in Secrets, TimeLimitPasses(s) PROVE TypeInv'
  BY <1>6 DEF TimeLimitPasses, Protection
<1>7. ASSUME NEW a \in Apps, SendApp(a) PROVE TypeInv'
  BY <1>7, AppendProperties DEF SendApp
<1>8. ASSUME NEW scope \in Apps \cup {Everything}, Begin(scope)
      PROVE  scan' \in Scan /\ scan'.pc = "secrets" /\ scan'.todo = {}
  BY <1>8, NoScanType DEF Begin, NoScan, Scan
<1>9. CASE Tick
  BY <1>8, <1>9 DEF Tick
<1>10. CASE ReceiveApp
  <2>1. channel # <<>> /\ channel' = Tail(channel) /\ Begin(Head(channel))
        /\ UNCHANGED <<secret, refs, view, history, faults>>
    BY <1>10 DEF ReceiveApp
  <2>2. Head(channel) \in Apps /\ channel' \in Seq(Apps)
    BY <2>1, HeadTailProperties
  <2> QED
    BY <1>8, <2>1, <2>2
<1>11. CASE ListSecrets
  BY <1>11 DEF ListSecrets, Scan
<1>12. CASE ListObjects
  <2>1. CASE Kinds[scan.next] = "Pod"
    BY <1>12, <2>1 DEF ListObjects, Scan
  <2>2. CASE Kinds[scan.next] # "Pod"
    <3>1. scan.next + 1 \in Places
      BY <2>2, KindsListed DEF Scan, Places
    <3> DEFINE S == {q \in view : q.kind = Kinds[scan.next] /\ inUse(q)}
               N == {r.secret : r \in S}
    <3>2. N \subseteq Secrets
      BY DEF References
    <3>3. scan' = [scan EXCEPT !.next = @ + 1, !.used = @ \cup N]
      BY <1>12, <2>2 DEF ListObjects
    <3>4. scan.todo = {} /\ UNCHANGED <<secret, refs, view, channel, history, faults>>
      BY <1>12 DEF ListObjects
    <3> HIDE DEF N
    <3> QED
      BY <3>1, <3>2, <3>3, <3>4 DEF Scan, Places
  <2> QED
    BY <2>1, <2>2
<1>13. CASE ListPods
  <2> DEFINE N == {r.secret : r \in {q \in view : q.kind = "Pod"}}
             used == scan.used \cup N
  <2>1. used \subseteq Secrets
    BY DEF References, Scan
  <2>2. /\ scan' = [scan EXCEPT !.pc = "clean", !.used = used, !.todo = Unused(used)]
        /\ UNCHANGED <<secret, refs, view, channel, history, faults>>
    BY <1>13 DEF ListPods
  <2> HIDE DEF used
  <2> QED
    BY <2>1, <2>2 DEF Scan, Unused
<1>14. CASE EndScan
  BY <1>14, NoScanType DEF EndScan
<1>15. CASE ListFails
  BY <1>15, NoScanType, EmptySeq, JanitorAssumption DEF ListFails, Fault
<1>16. ASSUME NEW s \in Secrets, CleanSecret(s) PROVE TypeInv'
  <2>1. scan' = [scan EXCEPT !.todo = @ \ {s}] /\ scan.pc = "clean"
    BY <1>16 DEF CleanSecret, Left
  <2>2. /\ secret' \in [Secrets -> Protection \cup {"gone"}]
        /\ faults' \in 0 .. MaxFaults
    <3>1. secret' = secret \/ secret' = [secret EXCEPT ![s] = "gone"]
      BY <1>16 DEF CleanSecret
    <3>2. faults' = faults \/ (faults < MaxFaults /\ faults' = faults + 1)
      BY <1>16 DEF CleanSecret, Fault
    <3> QED
      BY <3>1, <3>2, JanitorAssumption
  <2>3. UNCHANGED <<refs, view, channel, history>>
    BY <1>16 DEF CleanSecret
  <2> QED
    BY <2>1, <2>2, <2>3 DEF Scan
<1> QED
  BY <1>1, <1>2, <1>3, <1>4, <1>5, <1>6, <1>7, <1>9, <1>10, <1>11, <1>12,
     <1>13, <1>14, <1>15, <1>16 DEF Next, Cluster, ScanStep

\* The state keeps its types; the Secrets left to clean are in no use.
THEOREM JanitorTypes == Spec => []TypeOK
<1>1. Spec => []TypeInv
  BY TypeInit, TypeStep, PTL DEF Spec
<1>2. TypeInv => TypeOK
  BY DEF TypeInv
<1> QED
  BY <1>1, <1>2, PTL
-----------------------------------------------------------------------------
(***************************************************************************)
(* Protections. A Secret that was not written since is as the scan has     *)
(* listed it, but for a time limit that may have run out.                  *)
(***************************************************************************)
Snapshot ==
  scan.pc \in {"objects", "pods", "clean"} =>
    \A s \in Secrets \ rewritten :
      \/ "gone" \in {secret[s], scan.listed[s]}
      \/ secret[s] = scan.listed[s]
      \/ secret[s] = "past" /\ scan.listed[s] = "future"

ProtectionInv == TypeInv /\ Snapshot

\* The lists after the first leave what the first has listed alone.
LEMMA ListedStays ==
  ASSUME scan \in Scan, ListObjects \/ ListPods
  PROVE  scan'.listed = scan.listed
<1>1. CASE ListObjects
  <2>1. PICK used : \/ scan' = [scan EXCEPT !.pc = "pods"]
                    \/ scan' = [scan EXCEPT !.next = @ + 1, !.used = used]
    BY <1>1, Zenon DEF ListObjects
  <2> QED
    BY <2>1 DEF Scan
<1>2. CASE ListPods
  <2>1. PICK used, left : scan' = [scan EXCEPT !.pc = "clean", !.used = used,
                                               !.todo = left]
    BY <1>2, Zenon DEF ListPods
  <2> QED
    BY <2>1 DEF Scan
<1> QED
  BY <1>1, <1>2

LEMMA SnapshotStep ==
  ASSUME ProtectionInv, [Next]_vars, TypeInv'
  PROVE  Snapshot'
<1> USE DEF ProtectionInv, TypeInv, TypeOK, Snapshot
<1>1. CASE UNCHANGED <<secret, scan, rewritten>>
  BY <1>1
<1>2. ASSUME NEW s \in Secrets, TimeLimitPasses(s) PROVE Snapshot'
  BY <1>2 DEF TimeLimitPasses, history
<1>3. CASE scan'.pc \in {"idle", "secrets"}
  BY <1>3
<1>4. CASE ListSecrets
  BY <1>4 DEF ListSecrets, Scan
<1>5. CASE ListObjects \/ ListPods
  <2>1. /\ scan.pc \in {"objects", "pods"}
        /\ secret' = secret /\ rewritten' = rewritten
    BY <1>5 DEF ListObjects, ListPods, history
  <2>2. scan'.listed = scan.listed
    BY <1>5, ListedStays
  <2> QED
    BY <2>1, <2>2
<1>6. ASSUME NEW s \in Secrets, CleanSecret(s) PROVE Snapshot'
  <2>1. /\ scan.pc = "clean" /\ scan'.listed = scan.listed
        /\ rewritten' = rewritten
    BY <1>6 DEF CleanSecret, Scan, history
  <2>2. secret' \in {secret, [secret EXCEPT ![s] = "gone"]}
    BY <1>6 DEF CleanSecret
  <2> QED
    BY <2>1, <2>2
<1>7. CASE Tick \/ ReceiveApp
  <2>1. PICK scope : Begin(scope)
    BY <1>7 DEF Tick, ReceiveApp
  <2> QED
    BY <2>1, <1>3 DEF Begin, NoScan
<1>8. CASE EndScan \/ ListFails
  BY <1>8, <1>3 DEF EndScan, ListFails, NoScan
<1>9. ASSUME NEW s \in Secrets, WriteSecret(s) PROVE Snapshot'
  <2>1. scan' = scan
    BY <1>9 DEF WriteSecret
  <2>2. PICK p : secret' = [secret EXCEPT ![s] = p]
    BY <1>9 DEF WriteSecret
  <2>3. scan.pc \in {"objects", "pods", "clean"} => rewritten' = rewritten \cup {s}
    BY <1>9 DEF WriteSecret
  <2>4. ASSUME scan.pc \in {"objects", "pods", "clean"}, NEW t \in Secrets \ rewritten'
        PROVE  secret'[t] = secret[t] /\ t \notin rewritten
    BY <2>2, <2>3, <2>4
  <2> QED
    BY <2>1, <2>4
<1> QED
  BY <1>1, <1>2, <1>4, <1>5, <1>6, <1>7, <1>8, <1>9
     DEF Next, Cluster, ScanStep, vars, history, AddReference, DropReference,
         DeliverReferences, SendApp

\* Only the janitor deletes Secrets, those on its list, and it goes by what it
\* has listed and by the clock.
LEMMA OnlyJanitorDeletes ==
  ASSUME TypeInv, [Next]_vars, NEW s \in Secrets, Deletes(s)
  PROVE  /\ scan.pc = "clean" /\ s \in scan.todo /\ scan.listed[s] # "gone"
         /\ MayDelete(scan.listed[s], Now(s))
<1> USE DEF TypeInv, TypeOK, TodoLast
<1>1. PICK t \in Secrets : CleanSecret(t)
  <2>1. secret' # secret
    BY DEF Deletes, Exists
  <2>2. ASSUME NEW t \in Secrets, WriteSecret(t) \/ TimeLimitPasses(t) PROVE FALSE
    <3>1. PICK p \in {"none", "forever", "future", "past"} :
             secret' = [secret EXCEPT ![t] = p]
      BY <2>2 DEF WriteSecret, TimeLimitPasses
    <3> QED
      BY <3>1 DEF Deletes, Exists
  <2> QED
    BY <2>1, <2>2
       DEF Next, Cluster, ScanStep, vars, AddReference, DropReference, SendApp,
           DeliverReferences, Tick, ReceiveApp, ListSecrets, ListObjects,
           ListPods, EndScan, ListFails
<1>2. t = s /\ MayDelete(scan.listed[t], Now(t))
  BY <1>1 DEF CleanSecret, Deletes, Exists
<1> QED
  BY <1>1, <1>2 DEF CleanSecret

\* A Secret whose protection has not run out is not deleted by the janitor, however
\* long ago it listed it, unless a reconcile has written it since then.
THEOREM ProtectionIsRespected == Spec => ProtectedSecretsStay
<1>1. Init => ProtectionInv
  <2>1. Init => scan = NoScan
    BY Zenon DEF Init
  <2>2. NoScan.pc = "idle"
    BY DEF NoScan
  <2> QED
    BY <2>1, <2>2, TypeInit DEF ProtectionInv, Snapshot
<1>2. ProtectionInv /\ [Next]_vars => ProtectionInv'
  BY TypeStep, SnapshotStep DEF ProtectionInv
<1>3. ProtectionInv /\ [Next]_vars
        => \A s \in Secrets :
             Deletes(s) => secret[s] \in {"none", "past"} \/ s \in rewritten
  <2> SUFFICES ASSUME ProtectionInv, [Next]_vars, NEW s \in Secrets, Deletes(s),
                      s \notin rewritten
               PROVE  secret[s] \in {"none", "past"}
    OBVIOUS
  <2>1. /\ scan.pc = "clean" /\ scan.listed[s] # "gone" /\ secret[s] # "gone"
        /\ MayDelete(scan.listed[s], Now(s))
    BY OnlyJanitorDeletes DEF ProtectionInv, Deletes, Exists
  <2>2. secret[s] = scan.listed[s] \/ (secret[s] = "past" /\ scan.listed[s] = "future")
    BY <2>1 DEF ProtectionInv, Snapshot
  <2> QED
    BY <2>1, <2>2 DEF MayDelete, Now
<1> QED
  BY <1>1, <1>2, <1>3, PTL DEF Spec, ProtectedSecretsStay
-----------------------------------------------------------------------------
(***************************************************************************)
(* Users. A Secret is found in use because the list of kinds follows the   *)
(* users as they are handed on: as long as the scan has not found a Secret *)
(* in use, all users of it that are held are of kinds still to be listed,  *)
(* since a new one comes from one that is, and so later in the list; and   *)
(* the pods end the list.                                                  *)
(***************************************************************************)
Place(k) == CHOOSE i \in Places : Kinds[i] = k

ListedInScope == \A s \in Secrets : scan.listed[s] # "gone" => InScope(s)

HeldCount == \A r \in held : r \in view /\ Counts(r)

NotMissed ==
  /\ scan.pc \in {"idle", "secrets"} => held = {}
  /\ scan.pc = "secrets" => scan.next = 1 /\ scan.used = {}
  /\ scan.pc \in {"objects", "pods"} =>
       \A r \in held : InScope(r.secret) /\ r.secret \notin scan.used
                         => Place(r.kind) >= scan.next
  /\ scan.pc = "pods" => Kinds[scan.next] = "Pod"
  /\ scan.pc = "clean" => \A r \in held : InScope(r.secret) => r.secret \in scan.used

HeldInv == TypeInv /\ ListedInScope /\ HeldCount /\ NotMissed

\* Each kind has its place, after the kinds whose objects bring about its own.
LEMMA PlaceOfKind ==
  /\ \A k \in KindSet : /\ Place(k) \in Places /\ Kinds[Place(k)] = k
                        /\ Place(k) \in Nat \ {0}
  /\ \A k \in KindSet : \A m \in Makers[k] : m \in KindSet /\ Place(m) < Place(k)
  /\ Place("Pod") = Len(Kinds)
<1>1. \A k \in KindSet : Place(k) \in Places /\ Kinds[Place(k)] = k
  BY DEF KindSet, Place, Places
<1>2. \A i \in Places : Place(Kinds[i]) = i
  BY <1>1, KindsListed, JanitorAssumption DEF Places
<1>3. ASSUME NEW k \in KindSet, NEW m \in Makers[k]
      PROVE  m \in KindSet /\ Place(m) < Place(k)
  <2>1. m \in KindSet
    BY JanitorAssumption
  <2>2. /\ Place(m) \in Places /\ Kinds[Place(m)] = m
        /\ Place(k) \in Places /\ Kinds[Place(k)] = k
    BY <1>1, <2>1
  <2> QED
    BY <2>1, <2>2, JanitorAssumption DEF Places
<1> QED
  BY <1>1, <1>2, <1>3, KindsListed DEF Places

LEMMA HeldInit == Init => HeldInv
<1> SUFFICES ASSUME Init PROVE HeldInv
  OBVIOUS
<1>1. scan = NoScan /\ held = {}
  BY DEF Init
<1>2. scan.pc = "idle" /\ \A s \in Secrets : scan.listed[s] = "gone"
  BY <1>1 DEF NoScan
<1> QED
  BY <1>1, <1>2, TypeInit DEF HeldInv, ListedInScope, HeldCount, NotMissed

\* The informer of one kind catches up: what is held anew has come from a user
\* that is held, and is of a later kind.
LEMMA DeliverStep ==
  ASSUME HeldInv, NEW k \in KindSet, DeliverReferences(k)
  PROVE  HeldCount' /\ NotMissed'
<1> USE DEF HeldInv, TypeInv, TypeOK
<1>1. held' = {r \in view' : Counts(r) /\ HandedOn(r)} /\ scan' = scan
  BY DEF DeliverReferences
<1>2. HeldCount'
  BY <1>1 DEF HeldCount, Counts
<1>3. ASSUME NEW r \in held'
      PROVE  r \in held \/ \E q \in held : /\ q.kind \in Makers[r.kind]
                                           /\ q.secret = r.secret
  BY <1>1, <1>3 DEF HandedOn
<1>4. \A s : InScope(s)' <=> InScope(s)
  BY <1>1 DEF InScope
<1>5. ASSUME scan.pc \in {"objects", "pods"}, NEW r \in held', InScope(r.secret),
             r.secret \notin scan.used
      PROVE  Place(r.kind) >= scan.next
  <2>1. CASE r \in held
    BY <1>5, <2>1 DEF NotMissed
  <2>2. ASSUME NEW q \in held, q.kind \in Makers[r.kind], q.secret = r.secret
        PROVE  Place(r.kind) >= scan.next
    <3>1. Place(q.kind) >= scan.next
      BY <1>5, <2>2 DEF NotMissed
    <3>2. r.kind \in KindSet
      <4>1. view' \subseteq References
        BY DEF DeliverReferences
      <4> QED
        BY <1>1, <4>1 DEF References
    <3>3. /\ q.kind \in KindSet /\ Place(q.kind) < Place(r.kind)
          /\ Place(q.kind) \in Nat /\ Place(r.kind) \in Nat
      BY <2>2, <3>2, PlaceOfKind
    <3>4. scan.next \in Nat
      BY DEF Scan
    <3> QED
      BY <3>1, <3>3, <3>4
  <2> QED
    BY <1>3, <2>1, <2>2
<1>6. NotMissed'
  BY <1>1, <1>3, <1>4, <1>5 DEF NotMissed
<1> QED
  BY <1>2, <1>6

LEMMA ListSecretsStep ==
  ASSUME HeldInv, ListSecrets
  PROVE  HeldCount' /\ NotMissed'
<1> USE DEF HeldInv, TypeInv, TypeOK
<1>1. held' = {r \in view : Counts(r)} /\ view' = view /\ scan.pc = "secrets"
  BY DEF ListSecrets
<1>2. scan'.pc = "objects" /\ scan'.next = 1
  BY <1>1 DEF ListSecrets, Scan, NotMissed
<1>3. HeldCount'
  BY <1>1 DEF HeldCount, Counts
<1>4. \A r \in held' : Place(r.kind) >= 1
  <2>1. \A r \in held' : r.kind \in KindSet
    BY <1>1 DEF References
  <2> QED
    BY <2>1, PlaceOfKind
<1> QED
  BY <1>2, <1>3, <1>4 DEF NotMissed

LEMMA ListObjectsStep ==
  ASSUME HeldInv, ListObjects
  PROVE  HeldCount' /\ NotMissed'
<1> USE DEF HeldInv, TypeInv, TypeOK
<1>1. scan.pc = "objects" /\ UNCHANGED <<view, held>>
  BY DEF ListObjects, history
<1>2. HeldCount'
  BY <1>1 DEF HeldCount, Counts
<1>3. CASE Kinds[scan.next] = "Pod"
  <2>1. scan' = [scan EXCEPT !.pc = "pods"]
    BY <1>3 DEF ListObjects
  <2>2. /\ scan'.pc = "pods" /\ scan'.next = scan.next
        /\ scan'.used = scan.used /\ scan'.scope = scan.scope
    BY <2>1 DEF Scan
  <2>3. \A s : InScope(s)' <=> InScope(s)
    BY <2>2 DEF InScope
  <2> QED
    BY <1>1, <1>2, <1>3, <2>2, <2>3 DEF NotMissed
<1>4. CASE Kinds[scan.next] # "Pod"
  <2> DEFINE S == {q \in view : q.kind = Kinds[scan.next] /\ inUse(q)}
             N == {r.secret : r \in S}
  <2>1. scan' = [scan EXCEPT !.next = @ + 1, !.used = @ \cup N]
    BY <1>4 DEF ListObjects
  <2>2. /\ scan'.pc = "objects" /\ scan'.next = scan.next + 1
        /\ scan'.used = scan.used \cup N /\ scan'.scope = scan.scope
    <3> HIDE DEF N
    <3> QED
      BY <1>1, <2>1 DEF Scan
  <2>3. ASSUME NEW r \in held, InScope(r.secret), r.secret \notin scan.used,
               r.secret \notin N
        PROVE  Place(r.kind) >= scan.next + 1
    <3>1. r.kind \in KindSet /\ scan.next \in Nat
      BY DEF References, Scan
    <3>2. /\ Place(r.kind) \in Nat /\ Kinds[Place(r.kind)] = r.kind
      BY <3>1, PlaceOfKind
    <3>3. Place(r.kind) >= scan.next
      BY <1>1, <2>3 DEF NotMissed
    <3>4. ASSUME Place(r.kind) = scan.next PROVE FALSE
      <4>1. r \in view /\ Counts(r)
        BY DEF HeldCount
      <4>2. r.kind = Kinds[scan.next] /\ r.kind # "Pod"
        BY <1>4, <3>2, <3>4
      <4>3. inUse(r)
        BY <2>3, <4>1, <4>2 DEF Counts, inUse, InScope
      <4> QED
        BY <2>3, <4>1, <4>2, <4>3
    <3> QED
      BY <3>1, <3>2, <3>3, <3>4
  <2>4. \A s : InScope(s)' <=> InScope(s)
    BY <2>2 DEF InScope
  <2> HIDE DEF N
  <2> QED
    BY <1>1, <1>2, <2>2, <2>3, <2>4 DEF NotMissed
<1> QED
  BY <1>3, <1>4

LEMMA ListPodsStep ==
  ASSUME HeldInv, ListPods
  PROVE  HeldCount' /\ NotMissed'
<1> USE DEF HeldInv, TypeInv, TypeOK
<1>1. scan.pc = "pods" /\ UNCHANGED <<view, held>>
  BY DEF ListPods, history
<1>2. HeldCount'
  BY <1>1 DEF HeldCount, Counts
<1> DEFINE N == {r.secret : r \in {q \in view : q.kind = "Pod"}}
<1>3. /\ scan'.pc = "clean" /\ scan'.used = scan.used \cup N
      /\ scan'.scope = scan.scope
  <2>1. scan' = [scan EXCEPT !.pc = "clean", !.used = scan.used \cup N,
                             !.todo = Unused(scan.used \cup N)]
    BY DEF ListPods
  <2> HIDE DEF N
  <2> QED
    BY <2>1 DEF Scan
<1>4. ASSUME NEW r \in held, InScope(r.secret), r.secret \notin scan.used
      PROVE  r.secret \in N
  <2>1. r.kind \in KindSet /\ scan.next \in Places
    BY DEF References, Scan, Places
  <2>2. Place(r.kind) >= scan.next /\ Kinds[scan.next] = "Pod"
    BY <1>1, <1>4 DEF NotMissed
  <2>3. Kinds[scan.next] = Kinds[Len(Kinds)] /\ Len(Kinds) \in Places
    BY <2>2, KindsListed DEF Places
  <2>4. scan.next = Len(Kinds)
    BY <2>1, <2>3, JanitorAssumption DEF Places
  <2>5. r.kind = "Pod"
    BY <2>1, <2>2, <2>4, PlaceOfKind, KindsListed DEF Places
  <2>6. r \in view
    BY DEF HeldCount
  <2> QED
    BY <2>5, <2>6
<1>5. \A s : InScope(s)' <=> InScope(s)
  BY <1>3 DEF InScope
<1> HIDE DEF N
<1> QED
  BY <1>1, <1>2, <1>3, <1>4, <1>5 DEF NotMissed

\* The steps that hold nothing, and those that concern no users shown.
LEMMA OtherSteps ==
  ASSUME HeldInv,
         \/ Tick \/ ReceiveApp \/ EndScan \/ ListFails
         \/ \E r \in References : AddReference(r) \/ DropReference(r)
         \/ \E s \in Secrets : WriteSecret(s) \/ TimeLimitPasses(s) \/ CleanSecret(s)
         \/ \E a \in Apps : SendApp(a)
         \/ UNCHANGED vars
  PROVE  HeldCount' /\ NotMissed'
<1> USE DEF HeldInv, TypeInv, TypeOK, history
<1>1. CASE Tick \/ ReceiveApp
  <2>1. PICK scope : Begin(scope)
    BY <1>1 DEF Tick, ReceiveApp
  <2>2. scan'.pc = "secrets" /\ scan'.next = 1 /\ scan'.used = {}
    BY <2>1 DEF Begin, NoScan
  <2>3. held' = {}
    BY <1>1 DEF Tick, ReceiveApp, NotMissed
  <2> QED
    BY <2>2, <2>3 DEF HeldCount, NotMissed
<1>2. CASE EndScan \/ ListFails
  <2>1. held' = {} /\ scan'.pc = "idle"
    BY <1>2 DEF EndScan, ListFails, NoScan
  <2> QED
    BY <2>1 DEF HeldCount, NotMissed
<1>3. CASE UNCHANGED <<view, held, scan>>
  BY <1>3 DEF HeldCount, Counts, NotMissed, InScope
<1>4. ASSUME NEW s \in Secrets, CleanSecret(s)
      PROVE  HeldCount' /\ NotMissed'
  <2>1. UNCHANGED <<view, held>>
    BY <1>4 DEF CleanSecret
  <2>2. scan.pc = "clean" /\ scan' = [scan EXCEPT !.todo = @ \ {s}]
    BY <1>4 DEF CleanSecret, Left
  <2>3. scan'.pc = "clean" /\ scan'.used = scan.used /\ scan'.scope = scan.scope
    BY <2>2 DEF Scan
  <2> QED
    BY <2>1, <2>2, <2>3 DEF HeldCount, Counts, NotMissed, InScope
<1> QED
  BY <1>1, <1>2, <1>3, <1>4
     DEF AddReference, DropReference, WriteSecret, TimeLimitPasses, SendApp, vars

\* What is listed is of the application that is scanned for.
LEMMA ScopeStep ==
  ASSUME TypeInv, ListedInScope, [Next]_vars
  PROVE  ListedInScope'
<1> USE DEF TypeInv, TypeOK
<1>1. CASE scan'.listed = scan.listed /\ scan'.scope = scan.scope
  BY <1>1 DEF ListedInScope, InScope
<1>2. CASE ListSecrets
  <2>1. /\ scan'.listed = [s \in Secrets |-> IF InScope(s) THEN secret[s] ELSE "gone"]
        /\ scan'.scope = scan.scope
    BY <1>2 DEF ListSecrets, Scan
  <2> QED
    BY <2>1 DEF ListedInScope, InScope
<1>3. CASE Tick \/ ReceiveApp
  <2>1. PICK scope : Begin(scope)
    BY <1>3 DEF Tick, ReceiveApp
  <2> QED
    BY <2>1 DEF Begin, NoScan, ListedInScope
<1>4. CASE EndScan \/ ListFails
  BY <1>4 DEF EndScan, ListFails, NoScan, ListedInScope
<1>5. CASE ListObjects \/ ListPods \/ \E s \in Secrets : CleanSecret(s)
  BY <1>1, <1>5 DEF ListObjects, ListPods, CleanSecret, Scan
<1> QED
  BY <1>1, <1>2, <1>3, <1>4, <1>5
     DEF Next, Cluster, ScanStep, vars, AddReference, DropReference, WriteSecret,
         TimeLimitPasses, SendApp, DeliverReferences

LEMMA HeldStep ==
  ASSUME HeldInv, [Next]_vars
  PROVE  HeldInv'
<1>1. TypeInv' /\ ListedInScope'
  BY TypeStep, ScopeStep DEF HeldInv
<1>2. HeldCount' /\ NotMissed'
  <2>1. ASSUME NEW k \in KindSet, DeliverReferences(k) PROVE HeldCount' /\ NotMissed'
    BY <2>1, DeliverStep
  <2>2. CASE ListSecrets \/ ListObjects \/ ListPods
    BY <2>2, ListSecretsStep, ListObjectsStep, ListPodsStep
  <2> QED
    BY <2>1, <2>2, OtherSteps, Zenon DEF Next, Cluster, ScanStep
<1> QED
  BY <1>1, <1>2 DEF HeldInv

\* A Secret that the informers have shown in use from the moment the scan listed it
\* on is not deleted by the scan, whatever the users, the informers, the
\* applications and the failures do meanwhile.
THEOREM UsedSecretsStay == Spec => HeldSecretsStay
<1>1. HeldInv /\ [Next]_vars => HeldInv'
  BY HeldStep
<1>2. HeldInv /\ [Next]_vars
        => \A s \in Secrets : Deletes(s) => \A r \in held : r.secret # s
  <2> SUFFICES ASSUME HeldInv, [Next]_vars, NEW s \in Secrets, Deletes(s),
                      NEW r \in held, r.secret = s
               PROVE  FALSE
    OBVIOUS
  <2>1. scan.pc = "clean" /\ s \in scan.todo /\ scan.listed[s] # "gone"
    BY OnlyJanitorDeletes DEF HeldInv
  <2>2. InScope(s) /\ s \notin scan.used
    BY <2>1 DEF HeldInv, ListedInScope, TypeInv, TypeOK
  <2> QED
    BY <2>1, <2>2 DEF HeldInv, NotMissed
<1> QED
  BY <1>1, <1>2, HeldInit, PTL DEF Spec, HeldSecretsStay
=============================================================================
