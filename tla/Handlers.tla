------------------------------ MODULE Handlers ------------------------------
(***************************************************************************)
(* The service handlers call by call: what Apply and Cleanup of Kafka,     *)
(* OpenSearch and Valkey ask of Aiven, in which order, and what they do    *)
(* with each answer, while the reconciler's and the finalizer's workers    *)
(* run them at the same time for several applications and a user counter   *)
(* fills the cache, in each of the processes that run. One process is the  *)
(* rule; a rolling update has two, as nobody elects a leader. Modules      *)
(* Reconciler and Finalizer have all of this in one step; here the         *)
(* controllers around it are as small as the handlers allow: one Secret    *)
(* per application, read and written in the API server itself.             *)
(***************************************************************************)
EXTENDS ServiceUsers

CONSTANTS
  KindsHere,   (* the handlers to look at                                  *)
  Changes,     (* the kinds of outside change that may happen ...          *)
  MaxChanges,  (* ... and how often in all                                 *)
  Faults,      (* the kinds of fault that may happen ...                   *)
  MaxFaults    (* ... and how often in all                                 *)

ASSUME HandlersAssumption ==
  /\ KindsHere \subseteq Kinds
  /\ Changes \subseteq {"deploy", "redeploy", "delete", "gone"}
  /\ Faults \subseteq {"aiven", "refused", "keystores", "kube", "status",
                "crash"}
  /\ MaxChanges \in Nat
  /\ MaxFaults \in Nat

\* Who works: in each process, for each application, a run of the reconciler and
\* one of the finalizer, and whoever else lists the users. A key is what a
\* process has in its queues: application k[1] in process k[2].
Keys       == Apps \X Processes
Apply(k)   == <<k, "apply">>
Cleanup(k) == <<k, "cleanup">>
Counter(p) == <<<<"", p>>, "count">>
Appliers   == {Apply(k) : k \in Keys}
Cleaners   == {Cleanup(k) : k \in Keys}
Counters   == {Counter(p) : p \in Processes}
Tasks      == Appliers \cup Cleaners \cup Counters

KeysOf(a)     == {a} \X Processes
AppliersOf(a) == {Apply(k) : k \in KeysOf(a)}
CleanersOf(a) == {Cleanup(k) : k \in KeysOf(a)}
Process(x)    == x[1][2]

VARIABLES
  gen,       (* the application's generation                               *)
  synced,    (* the generation whose hash is in its status, or 0           *)
  secret,    (* its Secret, and the generation of the user it names        *)
  todo,      (* todo[k]: whether the reconciler of a process has it queued *)
  givenUp,   (* givenUp[k]: the status from Aiven that its last run there  *)
             (* was given up for, or 0                                     *)
  due,       (* due[k]: whether the finalizer has its Secret queued        *)
  task,      (* where each task is, and what it holds                      *)
  changes,   (* outside changes so far                                     *)
  faults     (* faults so far                                              *)

apps    == <<gen, synced, todo, givenUp>>
secrets == <<secret, due>>
bounds  == <<changes, faults>>
vars    == <<kind, aiven, memory, apps, secrets, task, bounds>>

Change(what) ==
  /\ what \in Changes
  /\ changes < MaxChanges
  /\ changes' = changes + 1
  /\ faults' = faults

Fault(what) ==
  /\ what \in Faults
  /\ faults < MaxFaults
  /\ faults' = faults + 1
  /\ changes' = changes

SecretObject ==
  [phase : {"absent", "live", "terminating"}, gen : 0 .. MaxGen,
   finalizer : BOOLEAN]

NoSecret   == [phase |-> "absent", gen |-> 0, finalizer |-> FALSE]
Present(o) == o.phase # "absent"

\* A Secret as a handler builds it and the reconciler saves it: with the
\* finalizer, and still being deleted if it was. (A slip: one generation late.)
Saved_OffByOne(o, g) ==
  [phase |-> IF Present(o) THEN o.phase ELSE "live", gen |-> g + 1,
   finalizer |-> TRUE]

Saved(o, g) ==
  [phase |-> IF Present(o) THEN o.phase ELSE "live", gen |-> g,
   finalizer |-> TRUE]

\* The finalizer is taken off, and with it goes a Secret that is being deleted.
Unfinalized(o) ==
  IF o.phase = "terminating" THEN NoSecret
  ELSE [phase |-> o.phase, gen |-> o.gen, finalizer |-> FALSE]

Marked(o) ==
  IF o.finalizer THEN [phase |-> "terminating", gen |-> o.gen, finalizer |-> TRUE]
  ELSE NoSecret

\* The event filter of the finalizer. (A slip: a zero deletion timestamp.)
EventPasses_Zero(o) == o.phase = "live" /\ o.finalizer

EventPasses(o) == o.phase = "terminating" /\ o.finalizer

\* The finalizers that hear of Secret a as it is now, besides those that have it
\* queued already.
Notified(a, o) == [k \in Keys |-> due[k] \/ (k[1] = a /\ EventPasses(o))]

-----------------------------------------------------------------------------
(***************************************************************************)
(* Tasks. "goal" tells whether the task provides its user or takes it      *)
(* away; "listed" and "acl" are answers it has not used yet; "fresh" says  *)
(* that the application or the Secret it works for is as it was read;      *)
(* "result" is what a run of the reconciler has come to.                   *)
(***************************************************************************)
Task ==
  [pc : {"idle", "look up", "list", "fill", "create", "update", "count",
         "count fill", "keystores", "resolve", "read acl", "write acl", "delete",
         "save", "status", "unfinalize"},
   gen : 0 .. MaxGen, goal : {"none", "provide", "revoke"},
   listed : [Users -> Access], acl : SUBSET Users, fresh : BOOLEAN,
   result : {"none", "synced", "unchanged", "again", "for good"}]

Begun(pc, g, goal) ==
  [pc |-> pc, gen |-> g, goal |-> goal, listed |-> Nobody, acl |-> {},
   fresh |-> TRUE, result |-> "none"]

Idle ==
  [pc |-> "idle", gen |-> 0, goal |-> "none", listed |-> Nobody, acl |-> {},
   fresh |-> FALSE, result |-> "none"]

\* It goes on to its next call, with the users or the list it has been given or
\* without; it turns from providing its user to taking it away; it comes to the
\* status update; what it has read is out of date.
GoesOn(t, pc, listed, entries) ==
  [pc |-> pc, gen |-> t.gen, goal |-> t.goal, listed |-> listed, acl |-> entries,
   fresh |-> t.fresh, result |-> "none"]

Undoes(t, pc) ==
  [pc |-> pc, gen |-> t.gen, goal |-> "revoke", listed |-> Nobody, acl |-> {},
   fresh |-> t.fresh, result |-> "none"]

Ended(t, result) ==
  [pc |-> "status", gen |-> t.gen, goal |-> t.goal, listed |-> Nobody, acl |-> {},
   fresh |-> t.fresh, result |-> result]

Outdated(t) ==
  [pc |-> t.pc, gen |-> t.gen, goal |-> t.goal, listed |-> t.listed,
   acl |-> t.acl, fresh |-> FALSE, result |-> t.result]

Outdate(those) ==
  [x \in Tasks |-> IF x \in those THEN Outdated(task[x]) ELSE task[x]]

Moves(x, pc, listed, entries) ==
  task' = [task EXCEPT ![x] = GoesOn(task[x], pc, listed, entries)]

At(x, pc) == Moves(x, pc, Nobody, {})
Rests(x)  == task' = [task EXCEPT ![x] = Idle]

Ends(k, result) ==
  task' = [task EXCEPT ![Apply(k)] = Ended(task[Apply(k)], result)]

UserOf(x) == <<x[1][1], task[x].gen>>

\* Once the user is there: what the handler does with it before it is saved.
\* (A slip: a Valkey user that is there is good enough.)
AfterUser_AsItIs(access) ==
  CASE kind = "kafka"      -> "keystores"
    [] kind = "opensearch" -> "read acl"
    [] kind = "valkey"     -> "save"

AfterUser(access) ==
  CASE kind = "kafka"      -> "keystores"
    [] kind = "opensearch" -> "read acl"
    [] kind = "valkey"     -> IF access = "right" THEN "save" ELSE "update"

Stays == UNCHANGED <<apps, secrets>>

\* What a cleanup does first.
CleanupBegins ==
  CASE kind = "kafka"      -> "resolve"
    [] kind = "opensearch" -> "read acl"
    [] kind = "valkey"     -> "delete"

\* The run fails, and the error decides whether it is tried again once the
\* status is written.
Fails(k, status, notFoundIsRecoverable) ==
  LET again == RequeuedAfter(UnwrapAivenError(status, notFoundIsRecoverable))
  IN /\ Ends(k, IF again THEN "again" ELSE "for good")
     /\ givenUp' = [givenUp EXCEPT ![k] = IF again THEN 0 ELSE status]
     /\ UNCHANGED <<gen, synced, todo, secrets>>

\* It fails with an error of its own, which is tried again.
FailsLocally(k) == Ends(k, "again") /\ Stays

\* The finalizer's run fails and is tried again, whatever the error.
CleanupFails(k) ==
  /\ Rests(Cleanup(k))
  /\ due' = [due EXCEPT ![k] = TRUE]
  /\ UNCHANGED <<apps, secret>>

\* A call of the task fails in Aiven. An error of the undoing cleanup of a run
\* is handed on as it is, not as one of Aiven's.
CallFails(x, status) ==
  IF x \in Cleaners THEN CleanupFails(x[1])
  ELSE IF task[x].goal = "revoke" THEN FailsLocally(x[1])
  ELSE Fails(x[1], status, FALSE)

\* The user is taken away, or was not there: the Secret can go, or the run that
\* could not make its keystores fails.
Revoked(x) ==
  IF x \in Cleaners THEN At(x, "unfinalize") /\ Stays
  ELSE FailsLocally(x[1])

\* A call that fails in Aiven's part, which may have had its effect, or that
\* Aiven refuses, which has none.
Disturbed(x) ==
  \/ Fault("aiven") /\ CallFails(x, 503)
  \/ Fault("refused") /\ CallFails(x, 429)

-----------------------------------------------------------------------------
(***************************************************************************)
(* Apply.                                                                  *)
(***************************************************************************)

\* An application is taken from the queue and, when there is something to do,
\* handed to its handler.
StartApply(k) ==
  /\ todo[k]
  /\ task[Apply(k)] = Idle
  /\ todo' = [todo EXCEPT ![k] = FALSE]
  /\ IF synced[k[1]] = gen[k[1]] /\ Present(secret[k[1]])
     THEN /\ task' = [task EXCEPT ![Apply(k)] =
                        Ended(Begun("status", gen[k[1]], "provide"), "unchanged")]
          /\ givenUp' = givenUp
     ELSE /\ task' = [task EXCEPT ![Apply(k)] = Begun("look up", gen[k[1]], "provide")]
          /\ givenUp' = [givenUp EXCEPT ![k] = 0]
  /\ UNCHANGED <<kind, aiven, memory, gen, synced, secrets, bounds>>

\* The service and its addresses. OpenSearch and Valkey first look for a
\* running instance among the cluster's resources, where one that is gone in
\* Aiven may still be shown. Then the cache is asked for the user.
LookUp(k) ==
  LET x == Apply(k)
      u == UserOf(x)
      found == cached[k[2]][u]
      next == IF found = "none" THEN CacheMiss ELSE AfterUser(found)
  IN
  /\ task[x].pc = "look up"
  /\ \/ /\ AddressesKnown(k[2]) \/ service = "running"
        /\ At(x, next)
        /\ known' = AskedFor(k[2])
        /\ Stays
        /\ UNCHANGED bounds
     \/ /\ kind # "kafka"
        /\ service # "running"
        /\ FailsLocally(k)
        /\ UNCHANGED <<known, bounds>>
     \/ /\ service = "gone"
        /\ ~ AddressesKnown(k[2])
        /\ Fails(k, 404, kind = "valkey")
        /\ UNCHANGED <<known, bounds>>
     \/ Disturbed(x) /\ known' = known
  /\ UNCHANGED <<kind, aiven, cached>>

\* Get has missed the cache and lists the users. A service that is gone looks
\* like one without the user.
List(k) ==
  LET x == Apply(k) IN
  /\ task[x].pc = "list"
  /\ \/ /\ service # "gone"
        /\ Moves(x, "fill", users, {})
        /\ Stays
        /\ UNCHANGED bounds
     \/ /\ service = "gone"
        /\ At(x, "create")
        /\ Stays
        /\ UNCHANGED bounds
     \/ Disturbed(x)
  /\ UNCHANGED <<kind, aiven, memory>>

\* The list goes into the cache, and tells whether the user has to be created.
Fill(k) ==
  LET x == Apply(k)
      access == task[x].listed[UserOf(x)]
  IN
  /\ task[x].pc = "fill"
  /\ cached' = FillCache(k[2], task[x].listed)
  /\ At(x, IF access = "none" THEN "create" ELSE AfterUser(access))
  /\ Stays
  /\ UNCHANGED <<kind, aiven, known, bounds>>

Create(k) ==
  LET x == Apply(k)
      u == UserOf(x)
  IN
  /\ task[x].pc = "create"
  /\ \/ /\ service = "gone"
        /\ Fails(k, 404, FALSE)
        /\ UNCHANGED <<users, bounds>>
     \/ /\ service # "gone"
        /\ users[u] # "none"
        /\ Fails(k, 409, FALSE)
        /\ UNCHANGED <<users, bounds>>
     \/ /\ service # "gone"
        /\ users[u] = "none"
        /\ users' = Created(u)
        /\ At(x, "count")
        /\ Stays
        /\ UNCHANGED bounds
     \/ Disturbed(x) /\ users' = users
     \/ /\ service # "gone"
        /\ users[u] = "none"
        /\ Fault("aiven")
        /\ CallFails(x, 503)
        /\ users' = Created(u)
  /\ UNCHANGED <<kind, service, acl, memory>>

\* Valkey: a user that has another access than asked for is changed.
Update(k) ==
  LET x == Apply(k)
      u == UserOf(x)
  IN
  /\ task[x].pc = "update"
  /\ \/ /\ users[u] = "none"
        /\ Fails(k, 404, FALSE)
        /\ UNCHANGED <<users, cached, bounds>>
     \/ /\ users[u] # "none"
        /\ users' = Updated(u)
        /\ cached' = Recached(k[2], u)
        /\ At(x, "save")
        /\ Stays
        /\ UNCHANGED bounds
     \/ Disturbed(x) /\ UNCHANGED <<users, cached>>
     \/ /\ users[u] # "none"
        /\ Fault("aiven")
        /\ CallFails(x, 503)
        /\ users' = Updated(u)
        /\ cached' = cached
  /\ UNCHANGED <<kind, service, acl, known>>

\* Kafka: when the keystores cannot be made, the user is taken away again,
\* whether it was created just now or had been there before.
KeyStores(k) ==
  LET x == Apply(k) IN
  /\ task[x].pc = "keystores"
  /\ \/ At(x, "save") /\ UNCHANGED bounds
     \/ /\ Fault("keystores")
        /\ task' = [task EXCEPT ![x] = Undoes(@, CleanupBegins)]
  /\ Stays
  /\ UNCHANGED <<kind, aiven, memory>>

\* The Secret is saved with the user's name and the finalizer, one that is
\* being deleted too; a failed write may have had its effect and is tried again.
SaveSecret(k) ==
  LET x == Apply(k)
      a == k[1]
      o == Saved(secret[a], task[x].gen)
      Written(result) ==
        /\ secret' = [secret EXCEPT ![a] = o]
        /\ due' = Notified(a, o)
        /\ task' = [Outdate(CleanersOf(a)) EXCEPT ![x] = Ended(task[x], result)]
  IN
  /\ task[x].pc = "save"
  /\ \/ Written("synced") /\ UNCHANGED bounds
     \/ Fault("kube") /\ Written("again")
     \/ Fault("kube") /\ Ends(k, "again") /\ UNCHANGED secrets
  /\ UNCHANGED <<kind, aiven, memory, apps>>

\* The deferred status update, at the version of the application the run has
\* read; every accepted one makes a new version. A refused or failed one is only
\* logged: what the run itself came to decides whether it is tried again.
UpdateStatus(k) ==
  LET x == Apply(k)
      a == k[1]
      t == task[x]
  IN
  /\ t.pc = "status"
  /\ \/ /\ t.fresh
        /\ synced' = IF t.result = "synced" THEN [synced EXCEPT ![a] = t.gen] ELSE synced
        /\ task' = [Outdate(AppliersOf(a)) EXCEPT ![x] = Idle]
        /\ UNCHANGED bounds
     \/ /\ ~ t.fresh
        /\ synced' = synced
        /\ Rests(x)
        /\ UNCHANGED bounds
     \/ /\ Fault("status")
        /\ synced' = synced
        /\ Rests(x)
  /\ todo' = [todo EXCEPT ![k] = @ \/ t.result = "again"]
  /\ UNCHANGED <<kind, aiven, memory, gen, givenUp, secrets>>

-----------------------------------------------------------------------------
(***************************************************************************)
(* Steps that Apply, Cleanup and the counter share.                        *)
(***************************************************************************)

\* What follows the counting of users: a user that was just created is used,
\* one that was deleted is done with.
Counted(x) ==
  CASE task[x].goal = "provide" -> At(x, AfterUser("right")) /\ Stays
    [] task[x].goal = "revoke"  -> Revoked(x)
    [] task[x].goal = "none"    -> Rests(x) /\ Stays

\* Users are counted after one is created or deleted; an error is only logged.
Count(x) ==
  /\ task[x].pc = "count"
  /\ \/ /\ service # "gone"
        /\ Moves(x, "count fill", users, {})
        /\ Stays
        /\ UNCHANGED bounds
     \/ /\ service = "gone"
        /\ Counted(x)
        /\ UNCHANGED bounds
     \/ Fault("aiven") /\ Counted(x)
  /\ UNCHANGED <<kind, aiven, memory>>

CountFill(x) ==
  /\ task[x].pc = "count fill"
  /\ cached' = FillCache(Process(x), task[x].listed)
  /\ Counted(x)
  /\ UNCHANGED <<kind, aiven, known, bounds>>

\* OpenSearch: the access control list is read, and written back with the
\* user's entry added or taken out; nothing is written when there is no entry
\* to take out.
ReadACL(x) ==
  /\ task[x].pc = "read acl"
  /\ \/ /\ service # "gone"
        /\ IF task[x].goal = "revoke" /\ UserOf(x) \notin acl
           THEN At(x, "delete")
           ELSE Moves(x, "write acl", Nobody, acl)
        /\ Stays
        /\ UNCHANGED bounds
     \/ /\ service = "gone"
        /\ CallFails(x, 404)
        /\ UNCHANGED bounds
     \/ Disturbed(x)
  /\ UNCHANGED <<kind, aiven, memory>>

NewACL(x) ==
  IF task[x].goal = "revoke" THEN task[x].acl \ {UserOf(x)}
  ELSE task[x].acl \cup {UserOf(x)}

WriteACL(x) ==
  /\ task[x].pc = "write acl"
  /\ \/ /\ service # "gone"
        /\ acl' = NewACL(x)
        /\ At(x, IF task[x].goal = "revoke" THEN "delete" ELSE "save")
        /\ Stays
        /\ UNCHANGED bounds
     \/ /\ service = "gone"
        /\ CallFails(x, 404)
        /\ UNCHANGED <<acl, bounds>>
     \/ Disturbed(x) /\ acl' = acl
     \/ /\ service # "gone"
        /\ Fault("aiven")
        /\ CallFails(x, 503)
        /\ acl' = NewACL(x)
  /\ UNCHANGED <<kind, service, users, memory>>

\* Kafka's cleanup asks for the name of the pool's service before it deletes.
ResolveName(x) ==
  /\ task[x].pc = "resolve"
  /\ \/ At(x, "delete") /\ Stays /\ UNCHANGED bounds
     \/ Disturbed(x)
  /\ UNCHANGED <<kind, aiven, memory>>

\* Valkey's cleanup logs an error of a deletion and goes on; the others hand it
\* to the caller. (A slip: all log it.)
Swallowed_Always(x) == x \in Cleaners

Swallowed(x) == kind = "valkey" /\ x \in Cleaners

DeletionFails(x, status) ==
  IF Swallowed(x) THEN Revoked(x) ELSE CallFails(x, status)

\* The user is deleted and taken out of the cache. A user that is not found is
\* fine, and stays in the cache if it is there; so it does after an error.
DeleteUser(x) ==
  LET u == UserOf(x) IN
  /\ task[x].pc = "delete"
  /\ \/ /\ users[u] # "none"
        /\ users' = Deleted(u)
        /\ cached' = Uncached(Process(x), u)
        /\ At(x, "count")
        /\ Stays
        /\ UNCHANGED bounds
     \/ /\ users[u] = "none"
        /\ Revoked(x)
        /\ UNCHANGED <<users, cached, bounds>>
     \/ /\ Fault("aiven")
        /\ users' \in {users, Deleted(u)}
        /\ DeletionFails(x, 503)
        /\ cached' = cached
     \/ /\ Fault("refused")
        /\ DeletionFails(x, 429)
        /\ UNCHANGED <<users, cached>>
  /\ UNCHANGED <<kind, service, acl, known>>

-----------------------------------------------------------------------------
(***************************************************************************)
(* Cleanup.                                                                *)
(***************************************************************************)

\* The finalizer takes a Secret from its queue and cleans up for the user it
\* names, without a look at whether it is being deleted.
StartCleanup(k) ==
  LET o == secret[k[1]] IN
  /\ due[k]
  /\ task[Cleanup(k)] = Idle
  /\ due' = [due EXCEPT ![k] = FALSE]
  /\ task' = IF Present(o)
             THEN [task EXCEPT ![Cleanup(k)] = Begun(CleanupBegins, o.gen, "revoke")]
             ELSE task
  /\ UNCHANGED <<kind, aiven, memory, apps, secret, bounds>>

\* The finalizer is taken off the Secret as it was read.
Unfinalize(k) ==
  LET x == Cleanup(k)
      a == k[1]
      o == Unfinalized(secret[a])
      unfinalized == [secret EXCEPT ![a] = o]
      taken == [Outdate(IF o = secret[a] THEN {} ELSE CleanersOf(a)) EXCEPT ![x] = Idle]
      again == [due EXCEPT ![k] = TRUE]
  IN
  /\ task[x].pc = "unfinalize"
  /\ \/ /\ task[x].fresh
        /\ secret' = unfinalized /\ task' = taken /\ due' = due
        /\ UNCHANGED bounds
     \/ /\ ~ task[x].fresh
        /\ secret' = secret /\ Rests(x) /\ due' = again
        /\ UNCHANGED bounds
     \/ /\ Fault("kube")
        /\ \/ task[x].fresh /\ secret' = unfinalized /\ task' = taken
           \/ secret' = secret /\ Rests(x)
        /\ due' = again
  /\ UNCHANGED <<kind, aiven, memory, apps>>

\* The resync of a process queues every Secret that is being deleted.
Resync(p) ==
  /\ due' = [k \in Keys |-> due[k] \/ (k[2] = p /\ EventPasses(secret[k[1]]))]
  /\ UNCHANGED <<kind, aiven, memory, apps, secret, task, bounds>>

\* Kafka's ticker has the users counted. A run for an application that the
\* instance leaves out lists the users of any service in just the same way.
Tick(p) ==
  /\ task[Counter(p)] = Idle
  /\ task' = [task EXCEPT ![Counter(p)] = Begun("count", 0, "none")]
  /\ UNCHANGED <<kind, aiven, memory, apps, secrets, bounds>>

-----------------------------------------------------------------------------
(***************************************************************************)
(* What users and operators do, and the end of a process.                  *)
(***************************************************************************)
Queued(a) == [k \in Keys |-> todo[k] \/ k[1] = a]

Deploy(a) ==
  /\ gen[a] < MaxGen
  /\ Change("deploy")
  /\ gen' = [gen EXCEPT ![a] = @ + 1]
  /\ todo' = Queued(a)
  /\ task' = Outdate(AppliersOf(a))
  /\ UNCHANGED <<kind, aiven, memory, synced, givenUp, secrets>>

Redeploy(a) ==
  /\ synced[a] # 0
  /\ Change("redeploy")
  /\ synced' = [synced EXCEPT ![a] = 0]
  /\ todo' = Queued(a)
  /\ task' = Outdate(AppliersOf(a))
  /\ UNCHANGED <<kind, aiven, memory, gen, givenUp, secrets>>

DeleteSecret(a) ==
  /\ secret[a].phase = "live"
  /\ Change("delete")
  /\ secret' = [secret EXCEPT ![a] = Marked(@)]
  /\ due' = Notified(a, Marked(secret[a]))
  /\ task' = Outdate(CleanersOf(a))
  /\ UNCHANGED <<kind, aiven, memory, apps>>

\* What the process keeps in memory is lost; every application is queued.
Restart(p) ==
  /\ Fault("crash")
  /\ task' = [x \in Tasks |-> IF Process(x) = p THEN Idle ELSE task[x]]
  /\ cached' = [cached EXCEPT ![p] = Nobody]
  /\ known' = [known EXCEPT ![p] = FALSE]
  /\ todo' = [k \in Keys |-> todo[k] \/ k[2] = p]
  /\ due' = [k \in Keys |-> due[k] /\ k[2] # p]
  /\ UNCHANGED <<kind, aiven, gen, synced, givenUp, secret>>

Outside ==
  \/ \E a \in Apps : Deploy(a) \/ Redeploy(a) \/ DeleteSecret(a)
  \/ /\ \/ ServiceComesUp /\ UNCHANGED bounds
        \/ ServiceGoes /\ Change("gone")
     /\ UNCHANGED <<apps, secrets, task>>

Expiry ==
  /\ \E p \in Processes : (\E u \in Users : CacheExpires(p, u)) \/ AddressesExpire(p)
  /\ UNCHANGED <<kind, aiven, apps, secrets, task, bounds>>

Shared(x) ==
  Count(x) \/ CountFill(x) \/ ReadACL(x) \/ WriteACL(x) \/ ResolveName(x) \/ DeleteUser(x)

ApplyStep(k) ==
  \/ StartApply(k) \/ LookUp(k) \/ List(k) \/ Fill(k) \/ Create(k) \/ Update(k)
  \/ KeyStores(k) \/ SaveSecret(k) \/ UpdateStatus(k) \/ Shared(Apply(k))

CleanupStep(k) == StartCleanup(k) \/ Unfinalize(k) \/ Shared(Cleanup(k))

ProcessStep(p) == Shared(Counter(p)) \/ Resync(p) \/ Tick(p) \/ Restart(p)

\* Everything is new, or Secrets and Valkey users are there as an earlier
\* release has left them.
Init ==
  /\ kind \in KindsHere
  /\ acl = {}
  /\ cached = [p \in Processes |-> Nobody]
  /\ known = [p \in Processes |-> FALSE]
  /\ gen = [a \in Apps |-> 1]
  /\ todo = [k \in Keys |-> TRUE]
  /\ givenUp = [k \in Keys |-> 0]
  /\ due = [k \in Keys |-> FALSE]
  /\ task = [x \in Tasks |-> Idle]
  /\ changes = 0
  /\ faults = 0
  /\ \/ /\ service = IF kind = "kafka" THEN "running" ELSE "building"
        /\ users = Nobody
        /\ synced = [a \in Apps |-> 0]
        /\ secret = [a \in Apps |-> NoSecret]
     \/ /\ kind = "valkey"
        /\ service = "running"
        /\ users = [u \in Users |-> IF u[2] = 1 THEN "old" ELSE "none"]
        /\ synced = [a \in Apps |-> 1]
        /\ secret = [a \in Apps |-> [phase |-> "live", gen |-> 1, finalizer |-> TRUE]]

Next ==
  \/ \E k \in Keys : ApplyStep(k) \/ CleanupStep(k)
  \/ \E p \in Processes : ProcessStep(p)
  \/ Expiry \/ Outside

Spec == Init /\ [][Next]_vars

\* The workers of both controllers keep going and the resync comes round.
Fairness ==
  /\ \A p \in Processes : WF_vars(Resync(p))
  /\ \A k \in Keys : WF_vars(ApplyStep(k)) /\ WF_vars(CleanupStep(k))

FairSpec == Spec /\ Fairness

-----------------------------------------------------------------------------
TypeOK ==
  /\ ServiceTypeOK
  /\ gen \in [Apps -> Gens]
  /\ synced \in [Apps -> 0 .. MaxGen]
  /\ secret \in [Apps -> SecretObject]
  /\ todo \in [Keys -> BOOLEAN]
  /\ givenUp \in [Keys -> Statuses \cup {0}]
  /\ due \in [Keys -> BOOLEAN]
  /\ task \in [Tasks -> Task]
  /\ changes \in 0 .. MaxChanges
  /\ faults \in 0 .. MaxFaults

Named(a) == <<a, secret[a].gen>>

\* A run is given up, never to be tried again by itself, only for a reason that
\* does not pass: Aiven has refused a call, or the service is gone. It is not
\* given up for a user that is there already, which a retry of a call that has
\* had its effect, or a list answered late, might make it create twice. So it is
\* with one process; two may both list the users before either creates the same
\* one, and the second gets a 409. Updating a Valkey user that is still cached but
\* was deleted is the one other case.
GivenUpForGoodReason ==
  \A k \in Keys :
    /\ givenUp[k] # 409
    /\ givenUp[k] = 404 => service = "gone" \/ kind = "valkey"

\* A run that has still to come to an end, and a key that is to be tried again or
\* was given up.
Unfinished(k) ==
  \/ task[Apply(k)].pc # "idle" /\ task[Apply(k)].result \notin {"synced", "unchanged"}
  \/ todo[k]
  \/ givenUp[k] # 0

\* When the Secret goes, the user it names has gone before it, or a run of the
\* same application has made it anew meanwhile and is about to save it, will try
\* again or has been given up.
GoesCleanly(a) ==
  Present(secret[a]) /\ ~ Present(secret'[a])
    => users[Named(a)] = "none" \/ \E k \in KeysOf(a) : Unfinished(k)

\* No Secret of Kafka or OpenSearch goes and leaves its user behind: the
\* finalizer waits until the cleanup has succeeded (Valkey's cleanup only logs
\* that a deletion has failed). So it is with one process; a run of a second one
\* that crashes may leave the user it has made anew.
GoneSecretsLeaveNoUser ==
  [][\A a \in Apps : kind # "valkey" => GoesCleanly(a)]_vars

\* A Valkey user never has another access than asked for when the Secret that
\* names it is saved, although a cached user is taken at its word.
ValkeyUsersAreUpdated ==
  \A k \in Keys :
    kind = "valkey" /\ task[Apply(k)].pc = "save"
      => users[UserOf(Apply(k))] # "old"

\* An application that is reported synchronized with a live Secret has a user
\* to go with it, as long as the service is there.
SyncedSecretsHaveUsers ==
  \A a \in Apps :
    synced[a] = gen[a] /\ secret[a].phase = "live" /\ service = "running"
      => users[Named(a)] # "none"

\* Its OpenSearch user is let in by the access control list.
SyncedSecretsHaveAccess ==
  \A a \in Apps :
    /\ synced[a] = gen[a] /\ secret[a].phase = "live" /\ service = "running"
    /\ users[Named(a)] # "none"
    => Named(a) \in acl

\* Every generation that is queued gets its credentials into the Secret in the
\* end, whatever fails on the way, a lost status update included, unless a newer
\* generation replaces it, the service is not there or Aiven says that the
\* request is at fault. (That the hash is recorded as well is promised by
\* nothing: a status update that fails is not tried again.)
DeploymentsEnd ==
  \A k \in Keys : \A g \in Gens :
    gen[k[1]] = g /\ todo[k] ~>
      \/ Present(secret[k[1]]) /\ secret[k[1]].gen = g
      \/ gen[k[1]] # g
      \/ service # "running"
      \/ givenUp[k] \in {404, 429}

\* A deleted Secret goes in the end, except that OpenSearch's cleanup never
\* succeeds once the service is gone.
DeletedSecretsGo ==
  \A a \in Apps :
    secret[a].phase = "terminating" ~>
      ~ Present(secret[a]) \/ (kind = "opensearch" /\ service = "gone")
=============================================================================
