-------------------------- MODULE Revocation_proofs --------------------------
(***************************************************************************)
(* No Secret of Kafka or OpenSearch goes before the user it names, in one  *)
(* process and for any number of applications, generations, changes and    *)
(* faults; unless a run of the same application has made the user anew,    *)
(* and then the work on it is not done.                                    *)
(***************************************************************************)
EXTENDS Handlers_proofs

(***************************************************************************)
(* The invariant. A cleanup that has not seen its Secret change cleans up  *)
(* for the user the Secret names. Between its deletion of that user and    *)
(* the end of the Secret only the run of the same application can make the *)
(* user anew. So at every moment of that time either there is no such user *)
(* or the run is on, or it has ended without success. For the last to stay *)
(* so, the run must begin again when it is tried again, which it does as   *)
(* the application is not reported synchronized (Unsettled).               *)
(*                                                                         *)
(* The finalizer is taken off live Secrets, too. Such a Secret goes when   *)
(* it is deleted, without a cleanup, so it is like one that is cleaned up. *)
(***************************************************************************)
Runs(k)      == task[Apply(k)].pc \notin {"idle", "status"}
Unsettled(k) == synced[k[1]] # gen[k[1]] \/ ~ Present(secret[k[1]])

Undone(k) ==
  \/ todo[k] \/ givenUp[k] # 0
  \/ task[Apply(k)].pc = "status" /\ task[Apply(k)].result = "again"

Past == {"count", "count fill", "unfinalize"}

MayGo(k) ==
  \/ task[Cleanup(k)].fresh /\ task[Cleanup(k)].pc \in Past
  \/ Present(secret[k[1]]) /\ ~ secret[k[1]].finalizer

FreshIsTrue(k) ==
  task[Cleanup(k)].fresh
    => Present(secret[k[1]]) /\ task[Cleanup(k)].gen = secret[k[1]].gen

\* A run is on for an application that is not settled, and has come to nothing
\* yet; whatever queues the application anew makes its reading old.
RunsForReason(k) ==
  /\ Runs(k) => /\ Unsettled(k)
                /\ task[Apply(k)].goal # "none"
                /\ task[Apply(k)].result = "none"
                /\ givenUp[k] = 0
  /\ task[Apply(k)].pc # "idle" => task[Apply(k)].gen <= gen[k[1]]
  /\ task[Apply(k)].fresh => ~ todo[k]
  /\ task[Apply(k)].pc = "status" /\ task[Apply(k)].result = "synced" => givenUp[k] = 0

LeavesNoUser(k) ==
  MayGo(k) => \/ users[Named(k[1])] = "none"
              \/ Runs(k)
              \/ Undone(k) /\ Unsettled(k)

Revocation(k) ==
  /\ FreshIsTrue(k)
  /\ synced[k[1]] <= gen[k[1]]
  /\ RunsForReason(k)
  /\ kind # "valkey" => LeavesNoUser(k)

RevocationInv == IInv /\ \A k \in Keys : Revocation(k)

-----------------------------------------------------------------------------
(***************************************************************************)
(* What a step may do to an application without harm: its run goes on or   *)
(* ends with work undone, its cleanup goes on once the user is gone.       *)
(***************************************************************************)
OwnRunGoesOn(k) ==
  /\ task'[Apply(k)].gen = task[Apply(k)].gen
  /\ task'[Apply(k)].fresh = task[Apply(k)].fresh
  /\ \/ /\ task'[Apply(k)].pc \notin {"idle", "status"}
        /\ task'[Apply(k)].goal # "none"
        /\ task'[Apply(k)].result = "none"
        /\ givenUp'[k] = givenUp[k]
     \/ /\ task'[Apply(k)].pc = "status"
        /\ task'[Apply(k)].result # "synced"
        /\ task'[Apply(k)].result = "again" \/ givenUp'[k] # 0

Carries(k) ==
  /\ kind' = kind
  /\ gen'[k[1]] = gen[k[1]] /\ synced'[k[1]] = synced[k[1]]
  /\ secret'[k[1]] = secret[k[1]] /\ todo'[k] = todo[k]
  /\ task'[Cleanup(k)].fresh => /\ task[Cleanup(k)].fresh
                                /\ task'[Cleanup(k)].gen = task[Cleanup(k)].gen
  /\ kind # "valkey" /\ task'[Cleanup(k)].fresh /\ task'[Cleanup(k)].pc \in Past
       => task[Cleanup(k)].pc \in Past \/ users'[Named(k[1])] = "none"
  /\ Present(secret[k[1]]) /\ users[Named(k[1])] = "none"
       => users'[Named(k[1])] = "none" \/ Runs(k)
  /\ \/ task'[Apply(k)] = task[Apply(k)] /\ givenUp'[k] = givenUp[k]
     \/ Runs(k) /\ OwnRunGoesOn(k)

LEMMA Carried ==
  ASSUME NEW k \in Keys, Revocation(k), Carries(k)
  PROVE  Revocation(k)'
<1>1. FreshIsTrue(k)' /\ synced'[k[1]] <= gen'[k[1]]
  BY DEF Carries, Revocation, FreshIsTrue, Present
<1>2. Named(k[1])' = Named(k[1]) /\ (Unsettled(k)' <=> Unsettled(k))
  BY DEF Carries, Named, Unsettled, Present
<1>3. RunsForReason(k)' /\ (Runs(k) \/ Undone(k) => Runs(k)' \/ Undone(k)')
  <2>1. CASE task'[Apply(k)] = task[Apply(k)] /\ givenUp'[k] = givenUp[k]
    BY <1>2, <2>1 DEF Carries, Revocation, RunsForReason, Runs, Undone
  <2>2. CASE Runs(k) /\ OwnRunGoesOn(k)
    BY <1>2, <2>2 DEF Carries, OwnRunGoesOn, Revocation, RunsForReason, Runs, Undone
  <2> QED
    BY <2>1, <2>2 DEF Carries
<1>4. Runs(k) => Unsettled(k)
  BY DEF Revocation, RunsForReason
<1>5. ASSUME kind # "valkey", MayGo(k)'
      PROVE  \/ users'[Named(k[1])] = "none"
             \/ Runs(k)'
             \/ Undone(k)' /\ Unsettled(k)
  <2>1. Present(secret[k[1]])
    BY <1>5 DEF Carries, MayGo, Revocation, FreshIsTrue, Present
  <2>2. MayGo(k) \/ users'[Named(k[1])] = "none"
    BY <1>5 DEF Carries, MayGo, Present
  <2>3. MayGo(k) => \/ users[Named(k[1])] = "none"
                    \/ Runs(k)
                    \/ Undone(k) /\ Unsettled(k)
    BY <1>5 DEF Revocation, LeavesNoUser
  <2>4. users[Named(k[1])] = "none" => users'[Named(k[1])] = "none" \/ Runs(k)
    BY <2>1 DEF Carries
  <2> QED
    BY <1>3, <1>4, <2>2, <2>3, <2>4
<1>6. kind' # "valkey" => LeavesNoUser(k)'
  BY <1>2, <1>5 DEF LeavesNoUser, Carries
<1> QED
  BY <1>1, <1>3, <1>6 DEF Revocation

\* A user is there for a Secret of its own only.
LEMMA NamedUser ==
  ASSUME TypeInv, NEW a \in Apps, Present(secret[a])
  PROVE  Named(a) \in Users /\ Named(a)[1] = a
BY DEF TypeInv, SecretsFit, Named, Users

\* In the only process: other keys are those of other applications.
LEMMA OtherKeys ==
  ASSUME OneProcess, NEW k \in Keys, NEW j \in Keys, j # k
  PROVE  /\ j[1] # k[1]
         /\ Apply(j) \notin AppliersOf(k[1]) /\ Cleanup(j) \notin CleanersOf(k[1])
<1>1. j[1] # k[1]
  BY OnlyOne
<1>2. Apply(j) \notin AppliersOf(k[1])
  BY OnlyRun, TaskNames
<1>3. Cleanup(j) \notin CleanersOf(k[1])
  <2> SUFFICES ASSUME Cleanup(j) \in CleanersOf(k[1])
               PROVE  FALSE
    OBVIOUS
  <2>1. PICK i \in KeysOf(k[1]) : Cleanup(j) = Cleanup(i)
    BY DEF CleanersOf
  <2>2. i \in Keys /\ i[1] = k[1]
    BY TaskNames DEF KeysOf, Keys
  <2>3. i = j
    BY <2>1, <2>2, TaskNames
  <2> QED
    BY <1>1, <2>2, <2>3
<1> QED
  BY <1>1, <1>2, <1>3

LEMMA OwnKey ==
  ASSUME NEW k \in Keys
  PROVE  /\ Apply(k) \in AppliersOf(k[1]) /\ Cleanup(k) \in CleanersOf(k[1])
         /\ k \in KeysOf(k[1])
BY DEF AppliersOf, CleanersOf, KeysOf, Keys

\* What an outdated task is.
LEMMA OutdatedFacts ==
  ASSUME TypeInv, NEW those, NEW x \in Tasks
  PROVE  /\ x \in those => Outdate(those)[x] = Outdated(task[x])
         /\ x \notin those => Outdate(those)[x] = task[x]
         /\ Outdate(those) = [y \in Tasks |-> Outdate(those)[y]]
         /\ Outdated(task[x]).pc = task[x].pc
         /\ Outdated(task[x]).gen = task[x].gen
         /\ Outdated(task[x]).goal = task[x].goal
         /\ Outdated(task[x]).result = task[x].result
         /\ ~ Outdated(task[x]).fresh
BY DEF Outdate, Outdated

-----------------------------------------------------------------------------
(***************************************************************************)
(* The steps of a run, but its beginning, its saving of the Secret and its *)
(* status update.                                                          *)
(***************************************************************************)
RunGoesOn(k) ==
  /\ UNCHANGED <<gen, synced, secret, todo>>
  /\ \A y \in Tasks : y # Apply(k) => task'[y] = task[y]
  /\ \A j \in Keys \ {k} : givenUp'[j] = givenUp[j]
  /\ OwnRunGoesOn(k)

LEMMA MovesRunGoesOn ==
  ASSUME TypeInv, NEW k \in Keys, task[Apply(k)].goal # "none",
         NEW pc, pc \notin {"idle", "status"}, NEW listed, NEW entries,
         Moves(Apply(k), pc, listed, entries), Stays
  PROVE  RunGoesOn(k)
<1> DEFINE t == GoesOn(task[Apply(k)], pc, listed, entries)
<1>1. /\ t.pc = pc /\ t.goal = task[Apply(k)].goal /\ t.gen = task[Apply(k)].gen
      /\ t.fresh = task[Apply(k)].fresh /\ t.result = "none"
  BY DEF GoesOn
<1>2. task' = [task EXCEPT ![Apply(k)] = t]
  BY DEF Moves
<1> HIDE DEF t
<1>3. task'[Apply(k)] = t /\ \A y \in Tasks : y # Apply(k) => task'[y] = task[y]
  BY <1>2, TaskNames DEF TypeInv, TypeOK
<1> QED
  BY <1>1, <1>3 DEF RunGoesOn, OwnRunGoesOn, Stays, apps, secrets

LEMMA RestsFacts ==
  ASSUME TypeInv, NEW x \in Tasks, Rests(x)
  PROVE  task'[x] = Idle /\ \A y \in Tasks : y # x => task'[y] = task[y]
BY DEF TypeInv, TypeOK, Rests

LEMMA EndsFacts ==
  ASSUME TypeInv, NEW k \in Keys, NEW result, Ends(k, result)
  PROVE  /\ task'[Apply(k)].pc = "status" /\ task'[Apply(k)].result = result
         /\ task'[Apply(k)].gen = task[Apply(k)].gen
         /\ task'[Apply(k)].fresh = task[Apply(k)].fresh
         /\ \A y \in Tasks : y # Apply(k) => task'[y] = task[y]
<1> DEFINE t == Ended(task[Apply(k)], result)
<1>1. /\ t.pc = "status" /\ t.result = result /\ t.gen = task[Apply(k)].gen
      /\ t.fresh = task[Apply(k)].fresh
  BY DEF Ended
<1>2. task' = [task EXCEPT ![Apply(k)] = t]
  BY DEF Ends
<1> HIDE DEF t
<1>3. task'[Apply(k)] = t /\ \A y \in Tasks : y # Apply(k) => task'[y] = task[y]
  BY <1>2, TaskNames DEF TypeInv, TypeOK
<1> QED
  BY <1>1, <1>3

LEMMA FailsRunGoesOn ==
  ASSUME TypeInv, NEW k \in Keys, NEW status \in Statuses, NEW notFound,
         Fails(k, status, notFound)
  PROVE  RunGoesOn(k)
<1> DEFINE again == RequeuedAfter(UnwrapAivenError(status, notFound))
<1>1. givenUp \in [Keys -> Statuses \cup {0}]
  BY DEF TypeInv, TypeOK
<1>2. again \in BOOLEAN /\ status # 0
  BY DEF RequeuedAfter, Statuses
<1>3. /\ Ends(k, IF again THEN "again" ELSE "for good")
      /\ UNCHANGED <<gen, synced, secret, todo>>
      /\ givenUp' = [givenUp EXCEPT ![k] = IF again THEN 0 ELSE status]
  BY DEF Fails, secrets
<1> HIDE DEF again
<1>4. /\ task'[Apply(k)].pc = "status"
      /\ task'[Apply(k)].result = IF again THEN "again" ELSE "for good"
      /\ task'[Apply(k)].gen = task[Apply(k)].gen
      /\ task'[Apply(k)].fresh = task[Apply(k)].fresh
      /\ \A y \in Tasks : y # Apply(k) => task'[y] = task[y]
  BY <1>3, EndsFacts
<1>5. /\ givenUp'[k] = IF again THEN 0 ELSE status
      /\ \A j \in Keys \ {k} : givenUp'[j] = givenUp[j]
  BY <1>1, <1>3
<1> QED
  BY <1>2, <1>3, <1>4, <1>5 DEF RunGoesOn, OwnRunGoesOn

LEMMA RefusalRunGoesOn ==
  ASSUME TypeInv, NEW k \in Keys, Fails(k, 404, FALSE) \/ Fails(k, 409, FALSE)
  PROVE  RunGoesOn(k)
<1>1. 404 \in Statuses /\ 409 \in Statuses
  BY DEF Statuses
<1>2. CASE Fails(k, 404, FALSE)
  BY <1>1, <1>2, FailsRunGoesOn
<1>3. CASE Fails(k, 409, FALSE)
  BY <1>1, <1>3, FailsRunGoesOn
<1> QED
  BY <1>2, <1>3

LEMMA FailsLocallyRunGoesOn ==
  ASSUME TypeInv, NEW k \in Keys, FailsLocally(k)
  PROVE  RunGoesOn(k)
<1>1. Ends(k, "again") /\ UNCHANGED <<gen, synced, secret, todo, givenUp>>
  BY DEF FailsLocally, Stays, apps, secrets
<1>2. /\ task'[Apply(k)].pc = "status" /\ task'[Apply(k)].result = "again"
      /\ task'[Apply(k)].gen = task[Apply(k)].gen
      /\ task'[Apply(k)].fresh = task[Apply(k)].fresh
      /\ \A y \in Tasks : y # Apply(k) => task'[y] = task[y]
  BY <1>1, EndsFacts
<1> QED
  BY <1>1, <1>2 DEF RunGoesOn, OwnRunGoesOn

LEMMA CallFailsRunGoesOn ==
  ASSUME TypeInv, NEW k \in Keys,
         \/ \E status \in Statuses : CallFails(Apply(k), status)
         \/ Disturbed(Apply(k))
  PROVE  RunGoesOn(k)
<1>1. PICK status \in Statuses : CallFails(Apply(k), status)
  BY DEF Disturbed, Statuses
<1>2. Apply(k) \notin Cleaners /\ Apply(k)[1] = k
  BY TaskNames
<1>3. FailsLocally(k) \/ Fails(k, status, FALSE)
  BY <1>1, <1>2 DEF CallFails
<1> QED
  BY <1>3, FailsRunGoesOn, FailsLocallyRunGoesOn

LEMMA OutageRunGoesOn ==
  ASSUME TypeInv, NEW k \in Keys, Disturbed(Apply(k)) \/ CallFails(Apply(k), 503)
  PROVE  RunGoesOn(k)
<1>1. 503 \in Statuses
  BY DEF Statuses
<1> QED
  BY <1>1, CallFailsRunGoesOn

LEMMA CountedRunGoesOn ==
  ASSUME TypeInv, NEW k \in Keys, task[Apply(k)].goal # "none", Counted(Apply(k))
  PROVE  RunGoesOn(k)
<1> DEFINE x == Apply(k)
<1>1. /\ x \in Tasks /\ x \notin Cleaners /\ x[1] = k
      /\ task[x].goal \in {"provide", "revoke"} /\ kind \in Kinds
  BY TaskNames DEF TypeInv, TypeOK, Task, ServiceTypeOK
<1>2. CASE At(x, AfterUser("right")) /\ Stays
  <2>1. AfterUser("right") \notin {"idle", "status"}
    BY <1>1 DEF AfterUser, Kinds
  <2> QED
    BY <1>2, <2>1, MovesRunGoesOn DEF At
<1>3. CASE Revoked(x)
  BY <1>1, <1>3, FailsLocallyRunGoesOn DEF Revoked
<1> QED
  BY <1>1, <1>2, <1>3 DEF Counted

LEMMA SharedRunGoesOn ==
  ASSUME IInv, NEW k \in Keys, RunsForReason(k), Shared(Apply(k))
  PROVE  RunGoesOn(k) /\ Runs(k) /\ Serves(Apply(k))
<1> DEFINE x == Apply(k)
<1>1. TypeInv /\ x \in Tasks /\ x \notin Cleaners /\ x[1] = k
  BY TaskNames DEF IInv
<1>2. Serves(x)
  BY <1>1, CountSteps, CountFillSteps, ReadACLSteps, WriteACLSteps, ResolveNameSteps, DeleteUserSteps
     DEF Shared
<1>3. Runs(k) /\ task[x].goal # "none"
  <2>1. task[x].pc \notin {"idle", "status"}
    BY DEF Shared, Count, CountFill, ReadACL, WriteACL, ResolveName, DeleteUser
  <2> QED
    BY <2>1 DEF Runs, RunsForReason
<1>4. CASE Count(x) \/ CountFill(x)
  <2>1. Counted(x) \/ (Moves(x, "count fill", users, {}) /\ Stays)
    BY <1>4 DEF Count, CountFill
  <2> QED
    BY <1>1, <1>2, <1>3, <2>1, CountedRunGoesOn, MovesRunGoesOn
<1>5. CASE ReadACL(x)
  <2>1. \/ At(x, "delete") /\ Stays
        \/ Moves(x, "write acl", Nobody, acl) /\ Stays
        \/ CallFails(x, 404) \/ Disturbed(x)
    BY <1>5 DEF ReadACL
  <2>2. CASE At(x, "delete") /\ Stays
    BY <1>1, <1>2, <1>3, <2>2, MovesRunGoesOn DEF At
  <2>3. CASE Moves(x, "write acl", Nobody, acl) /\ Stays
    BY <1>1, <1>2, <1>3, <2>3, MovesRunGoesOn
  <2>4. CASE CallFails(x, 404) \/ Disturbed(x)
    BY <1>1, <1>2, <1>3, <2>4, CallFailsRunGoesOn DEF Statuses
  <2> QED
    BY <2>1, <2>2, <2>3, <2>4
<1>6. CASE WriteACL(x)
  <2>1. \/ At(x, IF task[x].goal = "revoke" THEN "delete" ELSE "save") /\ Stays
        \/ CallFails(x, 404) \/ CallFails(x, 503) \/ Disturbed(x)
    BY <1>6 DEF WriteACL
  <2>2. CASE At(x, IF task[x].goal = "revoke" THEN "delete" ELSE "save") /\ Stays
    BY <1>1, <1>2, <1>3, <2>2, MovesRunGoesOn DEF At
  <2>3. CASE CallFails(x, 404) \/ CallFails(x, 503) \/ Disturbed(x)
    BY <1>1, <1>2, <1>3, <2>3, CallFailsRunGoesOn DEF Statuses
  <2> QED
    BY <2>1, <2>2, <2>3
<1>7. CASE DeleteUser(x)
  <2>1. \/ At(x, "count") /\ Stays
        \/ FailsLocally(k)
        \/ CallFails(x, 503) \/ CallFails(x, 429)
    BY <1>1, <1>7 DEF DeleteUser, DeletionFails, Swallowed, Revoked
  <2>2. CASE At(x, "count") /\ Stays
    BY <1>1, <1>2, <1>3, <2>2, MovesRunGoesOn DEF At
  <2>3. CASE FailsLocally(k)
    BY <1>1, <1>2, <1>3, <2>3, FailsLocallyRunGoesOn
  <2>4. CASE CallFails(x, 503) \/ CallFails(x, 429)
    BY <1>1, <1>2, <1>3, <2>4, CallFailsRunGoesOn DEF Statuses
  <2> QED
    BY <2>1, <2>2, <2>3, <2>4
<1>8. CASE ResolveName(x)
  <2>1. CASE At(x, "delete") /\ Stays
    BY <1>1, <1>2, <1>3, <2>1, MovesRunGoesOn DEF At
  <2>2. CASE Disturbed(x)
    BY <1>1, <1>2, <1>3, <2>2, CallFailsRunGoesOn
  <2> QED
    BY <1>8, <2>1, <2>2 DEF ResolveName
<1> QED
  BY <1>4, <1>5, <1>6, <1>7, <1>8, <1>2, <1>3 DEF Shared

\* The steps up to the user, and the keystores.
LEMMA ProvidingRunGoesOn ==
  ASSUME IInv, NEW k \in Keys,
         LookUp(k) \/ List(k) \/ Fill(k) \/ Create(k) \/ Update(k) \/ KeyStores(k)
  PROVE  RunGoesOn(k) /\ Runs(k) /\ Serves(Apply(k))
<1> DEFINE x == Apply(k)
<1>1. TypeInv /\ x \in Tasks
  BY TaskNames DEF IInv
<1>2. Serves(x)
  BY LookUpSteps, ListSteps, FillSteps, CreateSteps, UpdateSteps, KeyStoresSteps
<1>3. task[x].pc \notin Counting /\ task[x].pc # "status"
  BY DEF LookUp, List, Fill, Create, Update, KeyStores, Counting
<1>4. Runs(k) /\ task[x].goal # "none" /\ kind \in Kinds
  BY <1>1, <1>3, Applying DEF Runs, Counting
<1>5. \A access : AfterUser(access) \notin {"idle", "status"}
  BY <1>4 DEF AfterUser, Kinds
<1>6. CASE LookUp(k)
  <2> DEFINE next == IF cached[k[2]][UserOf(x)] = "none" THEN CacheMiss
                     ELSE AfterUser(cached[k[2]][UserOf(x)])
  <2>1. next \notin {"idle", "status"}
    BY <1>5 DEF CacheMiss
  <2> HIDE DEF next
  <2>2. \/ At(x, next) /\ Stays
        \/ FailsLocally(k)
        \/ Fails(k, 404, kind = "valkey")
        \/ Disturbed(x)
    BY <1>6, Zenon DEF LookUp, next
  <2>3. CASE At(x, next) /\ Stays
    BY <1>1, <1>2, <1>4, <2>1, <2>3, MovesRunGoesOn DEF At
  <2>4. CASE FailsLocally(k)
    BY <1>1, <1>2, <1>4, <2>4, FailsLocallyRunGoesOn
  <2>5. CASE Fails(k, 404, kind = "valkey")
    <3>1. 404 \in Statuses
      BY DEF Statuses
    <3> QED
      BY <1>1, <1>2, <1>4, <2>5, <3>1, FailsRunGoesOn
  <2>6. CASE Disturbed(x)
    BY <1>1, <1>2, <1>4, <2>6, CallFailsRunGoesOn
  <2> QED
    BY <2>2, <2>3, <2>4, <2>5, <2>6
<1>7. CASE List(k)
  <2>1. \/ Moves(x, "fill", users, {}) /\ Stays
        \/ At(x, "create") /\ Stays
        \/ Disturbed(x)
    BY <1>7 DEF List
  <2>2. CASE Moves(x, "fill", users, {}) /\ Stays
    BY <1>1, <1>2, <1>4, <2>2, MovesRunGoesOn
  <2>3. CASE At(x, "create") /\ Stays
    BY <1>1, <1>2, <1>4, <2>3, MovesRunGoesOn DEF At
  <2>4. CASE Disturbed(x)
    BY <1>1, <1>2, <1>4, <2>4, CallFailsRunGoesOn
  <2> QED
    BY <2>1, <2>2, <2>3, <2>4
<1>8. CASE Fill(k)
  <2> DEFINE access == task[x].listed[UserOf(x)]
             next == IF access = "none" THEN "create" ELSE AfterUser(access)
  <2>2. next \notin {"idle", "status"}
    BY <1>5
  <2> HIDE DEF next
  <2>3. At(x, next) /\ Stays
    BY <1>8, Zenon DEF Fill, next
  <2> QED
    BY <1>1, <1>2, <1>4, <2>2, <2>3, MovesRunGoesOn DEF At
<1>9. CASE Create(k)
  <2> DEFINE Refused == Fails(k, 404, FALSE) \/ Fails(k, 409, FALSE)
             Made    == At(x, "count") /\ Stays
             Failed  == Disturbed(x) \/ CallFails(x, 503)
  <2>1. Refused \/ Made \/ Failed
    BY <1>9 DEF Create
  <2>2. CASE Refused
    BY <1>1, <1>2, <1>4, <2>2, RefusalRunGoesOn
  <2>3. CASE Made
    BY <1>1, <1>2, <1>4, <2>3, MovesRunGoesOn DEF At
  <2>4. CASE Failed
    BY <1>1, <1>2, <1>4, <2>4, OutageRunGoesOn
  <2> HIDE DEF Refused, Made, Failed
  <2> QED
    BY <2>1, <2>2, <2>3, <2>4
<1>10. CASE Update(k)
  <2>1. \/ Fails(k, 404, FALSE)
        \/ At(x, "save") /\ Stays
        \/ Disturbed(x) \/ CallFails(x, 503)
    BY <1>10 DEF Update
  <2>2. CASE Fails(k, 404, FALSE)
    BY <1>1, <1>2, <1>4, <2>2, RefusalRunGoesOn
  <2>3. CASE At(x, "save") /\ Stays
    BY <1>1, <1>2, <1>4, <2>3, MovesRunGoesOn DEF At
  <2>4. CASE Disturbed(x) \/ CallFails(x, 503)
    BY <1>1, <1>2, <1>4, <2>4, OutageRunGoesOn
  <2> QED
    BY <2>1, <2>2, <2>3, <2>4
<1>11. CASE KeyStores(k)
  <2>1. CASE At(x, "save") /\ Stays
    BY <1>1, <1>2, <1>4, <2>1, MovesRunGoesOn DEF At
  <2>2. CASE /\ task' = [task EXCEPT ![x] = Undoes(task[x], CleanupBegins)]
             /\ Stays
    <3> DEFINE pc == CleanupBegins
               t == Undoes(task[x], pc)
    <3>1. pc \notin {"idle", "status"}
      BY <1>4, CleanupBeginsType
    <3> HIDE DEF pc
    <3>2. /\ t.pc = pc /\ t.goal = "revoke" /\ t.gen = task[x].gen
          /\ t.fresh = task[x].fresh /\ t.result = "none"
      BY DEF Undoes
    <3> HIDE DEF t
    <3>3. task' = [task EXCEPT ![x] = t]
      BY <2>2 DEF t, pc
    <3>4. task'[x] = t /\ \A y \in Tasks : y # x => task'[y] = task[y]
      BY <1>1, <3>3 DEF TypeInv, TypeOK
    <3> QED
      BY <1>2, <1>4, <2>2, <3>1, <3>2, <3>4
      DEF RunGoesOn, OwnRunGoesOn, Stays, apps, secrets
  <2> QED
    BY <1>11, <2>1, <2>2 DEF KeyStores, Stays
<1> QED
  BY <1>6, <1>7, <1>8, <1>9, <1>10, <1>11

LEMMA RunCarries ==
  ASSUME OneProcess, RevocationInv, NEW k \in Keys, NEW j \in Keys,
         RunGoesOn(k), Runs(k), Serves(Apply(k))
  PROVE  Carries(j)
<1>1. TypeInv /\ Revocation(j)
  BY DEF RevocationInv, IInv
<1>2. /\ Cleanup(j) # Apply(k) /\ Cleanup(j) \in Tasks /\ Apply(j) \in Tasks
      /\ Apply(j) = Apply(k) => j = k
      /\ j[1] \in Apps
  BY TaskNames
<1>3. task'[Cleanup(j)] = task[Cleanup(j)]
  BY <1>2 DEF RunGoesOn
<1>4. Present(secret[j[1]]) /\ users[Named(j[1])] = "none"
        => users'[Named(j[1])] = "none" \/ Runs(j)
  <2> SUFFICES ASSUME Present(secret[j[1]]), users[Named(j[1])] = "none"
               PROVE  users'[Named(j[1])] = "none" \/ Runs(j)
    OBVIOUS
  <2>1. Named(j[1]) \in Users /\ Named(j[1])[1] = j[1]
    BY <1>1, <1>2, NamedUser
  <2>2. users'[Named(j[1])] \in {users[Named(j[1])], "none"} \/ Apply(k) \in AppliersOf(j[1])
    BY <2>1 DEF Serves
  <2>3. CASE Apply(k) \in AppliersOf(j[1])
    BY <1>2, <2>3, OnlyRun
  <2> QED
    BY <2>2, <2>3
<1>5. CASE j = k
  BY <1>3, <1>4, <1>5 DEF Carries, RunGoesOn, Serves
<1>6. CASE j # k
  <2>1. task'[Apply(j)] = task[Apply(j)] /\ givenUp'[j] = givenUp[j]
    BY <1>2, <1>6 DEF RunGoesOn
  <2> QED
    BY <1>1, <1>3, <1>4, <2>1 DEF Carries, RunGoesOn, Serves
<1> QED
  BY <1>5, <1>6

-----------------------------------------------------------------------------
(***************************************************************************)
(* The steps of a cleanup, but its beginning and its end.                  *)
(***************************************************************************)
CleanupGoesOn(k) ==
  /\ UNCHANGED <<apps, secret>>
  /\ \A y \in Tasks : y # Cleanup(k) => task'[y] = task[y]
  /\ task'[Cleanup(k)].fresh => /\ task[Cleanup(k)].fresh
                                /\ task'[Cleanup(k)].gen = task[Cleanup(k)].gen
  /\ kind # "valkey" /\ task'[Cleanup(k)].pc \in Past
       => task[Cleanup(k)].pc \in Past \/ users'[UserOf(Cleanup(k))] = "none"

LEMMA MovesCleanupGoesOn ==
  ASSUME TypeInv, NEW k \in Keys, NEW pc, NEW listed, NEW entries,
         Moves(Cleanup(k), pc, listed, entries), UNCHANGED <<apps, secret>>,
         kind # "valkey" /\ pc \in Past
           => task[Cleanup(k)].pc \in Past \/ users'[UserOf(Cleanup(k))] = "none"
  PROVE  CleanupGoesOn(k)
<1> DEFINE t == GoesOn(task[Cleanup(k)], pc, listed, entries)
<1>1. /\ t.pc = pc /\ t.gen = task[Cleanup(k)].gen
      /\ t.fresh = task[Cleanup(k)].fresh
  BY DEF GoesOn
<1>2. task' = [task EXCEPT ![Cleanup(k)] = t]
  BY DEF Moves
<1> HIDE DEF t
<1>3. task'[Cleanup(k)] = t /\ \A y \in Tasks : y # Cleanup(k) => task'[y] = task[y]
  BY <1>2, TaskNames DEF TypeInv, TypeOK
<1> QED
  BY <1>1, <1>3 DEF CleanupGoesOn

LEMMA FailsCleanupGoesOn ==
  ASSUME TypeInv, NEW k \in Keys,
         (\E status : CallFails(Cleanup(k), status)) \/ Disturbed(Cleanup(k))
  PROVE  CleanupGoesOn(k)
<1>1. Cleanup(k) \in Cleaners /\ Cleanup(k)[1] = k /\ Cleanup(k) \in Tasks
  BY TaskNames
<1>2. CleanupFails(k)
  BY <1>1 DEF CallFails, Disturbed
<1>3. /\ task'[Cleanup(k)] = Idle
      /\ \A y \in Tasks : y # Cleanup(k) => task'[y] = task[y]
      /\ UNCHANGED <<apps, secret>>
  BY <1>1, <1>2, RestsFacts DEF CleanupFails
<1>4. Idle.pc = "idle" /\ ~ Idle.fresh
  BY DEF Idle
<1> QED
  BY <1>3, <1>4 DEF CleanupGoesOn, Past

LEMMA RevokedCleanupGoesOn ==
  ASSUME TypeInv, NEW k \in Keys, Revoked(Cleanup(k)),
         \/ kind = "valkey" \/ task[Cleanup(k)].pc \in Past
         \/ users'[UserOf(Cleanup(k))] = "none"
  PROVE  CleanupGoesOn(k)
<1>1. At(Cleanup(k), "unfinalize") /\ UNCHANGED <<apps, secret>>
  BY TaskNames DEF Revoked, Stays, secrets
<1> QED
  BY <1>1, MovesCleanupGoesOn DEF At

LEMMA SharedCleanupGoesOn ==
  ASSUME IInv, NEW k \in Keys, Shared(Cleanup(k))
  PROVE  CleanupGoesOn(k) /\ Serves(Cleanup(k))
<1> DEFINE x == Cleanup(k)
<1>1. TypeInv /\ x \in Tasks /\ x \in Cleaners
  BY TaskNames DEF IInv
<1>2. Serves(x)
  BY <1>1, CountSteps, CountFillSteps, ReadACLSteps, WriteACLSteps, ResolveNameSteps, DeleteUserSteps
     DEF Shared
<1>3. Stays => UNCHANGED <<apps, secret>>
  BY DEF Stays, secrets
<1>4. CASE Count(x) \/ CountFill(x)
  <2>1. task[x].pc \in Past
    BY <1>4 DEF Count, CountFill, Past
  <2>2. CASE Counted(x)
    <3>1. CASE Revoked(x)
      BY <1>1, <1>2, <2>1, <3>1, RevokedCleanupGoesOn
    <3>2. CASE At(x, AfterUser("right")) /\ Stays
      BY <1>1, <1>2, <1>3, <2>1, <3>2, MovesCleanupGoesOn DEF At
    <3>3. CASE Rests(x) /\ Stays
      <4>1. Idle.pc = "idle" /\ ~ Idle.fresh
        BY DEF Idle
      <4> QED
        BY <1>1, <1>2, <1>3, <3>3, <4>1, RestsFacts DEF CleanupGoesOn, Past
    <3> QED
      <4>1. task[x].goal \in {"none", "provide", "revoke"}
        BY <1>1, TaskFacts DEF Task
      <4> QED
        BY <2>2, <3>1, <3>2, <3>3, <4>1 DEF Counted
  <2>3. CASE Moves(x, "count fill", users, {}) /\ Stays
    BY <1>1, <1>2, <1>3, <2>1, <2>3, MovesCleanupGoesOn
  <2> QED
    BY <1>2, <1>4, <2>2, <2>3 DEF Count, CountFill
<1>5. CASE ReadACL(x)
  <2>1. \/ At(x, "delete") /\ Stays
        \/ Moves(x, "write acl", Nobody, acl) /\ Stays
        \/ CallFails(x, 404) \/ Disturbed(x)
    BY <1>5 DEF ReadACL
  <2>2. CASE At(x, "delete") /\ Stays
    BY <1>1, <1>2, <1>3, <2>2, MovesCleanupGoesOn DEF At, Past
  <2>3. CASE Moves(x, "write acl", Nobody, acl) /\ Stays
    BY <1>1, <1>2, <1>3, <2>3, MovesCleanupGoesOn DEF Past
  <2>4. CASE CallFails(x, 404) \/ Disturbed(x)
    BY <1>1, <1>2, <2>4, FailsCleanupGoesOn
  <2> QED
    BY <2>1, <2>2, <2>3, <2>4
<1>6. CASE WriteACL(x)
  <2>1. \/ At(x, IF task[x].goal = "revoke" THEN "delete" ELSE "save") /\ Stays
        \/ CallFails(x, 404) \/ CallFails(x, 503) \/ Disturbed(x)
    BY <1>6 DEF WriteACL
  <2>2. CASE At(x, IF task[x].goal = "revoke" THEN "delete" ELSE "save") /\ Stays
    BY <1>1, <1>2, <1>3, <2>2, MovesCleanupGoesOn DEF At, Past
  <2>3. CASE CallFails(x, 404) \/ CallFails(x, 503) \/ Disturbed(x)
    BY <1>1, <1>2, <2>3, FailsCleanupGoesOn
  <2> QED
    BY <2>1, <2>2, <2>3
<1>7. CASE DeleteUser(x)
  <2>1. CASE users' = Deleted(UserOf(x)) /\ At(x, "count") /\ Stays
    <3>1. UserOf(x) \in Users /\ users \in [Users -> Access]
      BY <1>1, <1>7, OwnUser, TaskFacts
         DEF DeleteUser, Counting, TypeInv, TypeOK, ServiceTypeOK
    <3>2. users'[UserOf(x)] = "none"
      BY <2>1, <3>1 DEF Deleted
    <3> QED
      BY <1>1, <1>2, <1>3, <2>1, <3>2, MovesCleanupGoesOn DEF At
  <2>2. CASE users' = users /\ users[UserOf(x)] = "none" /\ Revoked(x)
    BY <1>1, <1>2, <2>2, RevokedCleanupGoesOn
  <2>3. CASE DeletionFails(x, 503) \/ DeletionFails(x, 429)
    <3>1. \/ kind = "valkey" /\ Revoked(x)
          \/ CallFails(x, 503) \/ CallFails(x, 429)
      BY <2>3 DEF DeletionFails, Swallowed
    <3> QED
      BY <1>1, <1>2, <3>1, RevokedCleanupGoesOn, FailsCleanupGoesOn
  <2> QED
    BY <1>7, <2>1, <2>2, <2>3 DEF DeleteUser
<1>8. CASE ResolveName(x)
  <2>1. CASE At(x, "delete") /\ Stays
    BY <1>1, <1>2, <1>3, <2>1, MovesCleanupGoesOn DEF At, Past
  <2>2. CASE Disturbed(x)
    BY <1>1, <1>2, <2>2, FailsCleanupGoesOn
  <2> QED
    BY <1>8, <2>1, <2>2 DEF ResolveName
<1> QED
  BY <1>4, <1>5, <1>6, <1>7, <1>8, <1>2 DEF Shared

LEMMA CleanupCarries ==
  ASSUME RevocationInv, NEW k \in Keys, NEW j \in Keys,
         CleanupGoesOn(k), Serves(Cleanup(k))
  PROVE  Carries(j)
<1>1. TypeInv /\ Revocation(k) /\ Revocation(j)
  BY DEF RevocationInv, IInv
<1>2. /\ Apply(j) # Cleanup(k) /\ Apply(j) \in Tasks /\ Cleanup(j) \in Tasks
      /\ Cleanup(j) = Cleanup(k) => j = k
      /\ Cleanup(k)[1] = k /\ j[1] \in Apps
  BY TaskNames
<1>3. /\ task'[Apply(j)] = task[Apply(j)]
      /\ UNCHANGED <<gen, synced, todo, givenUp, secret>>
  BY <1>2 DEF CleanupGoesOn, apps
<1>4. Present(secret[j[1]]) /\ users[Named(j[1])] = "none" => users'[Named(j[1])] = "none"
  <2> SUFFICES ASSUME Present(secret[j[1]]), users[Named(j[1])] = "none"
               PROVE  users'[Named(j[1])] = "none"
    OBVIOUS
  <2>1. Named(j[1]) \in Users
    BY <1>1, <1>2, NamedUser
  <2>2. Cleanup(k) \notin AppliersOf(Named(j[1])[1])
    BY TaskNames DEF AppliersOf, KeysOf, Apply, Cleanup
  <2> QED
    BY <2>1, <2>2 DEF Serves
<1>5. CASE j = k
  <2>1. task[Cleanup(k)].fresh => UserOf(Cleanup(k)) = Named(k[1])
    BY <1>1, <1>2 DEF Revocation, FreshIsTrue, UserOf, Named
  <2> QED
    BY <1>3, <1>4, <1>5, <2>1 DEF Carries, CleanupGoesOn, Serves
<1>6. CASE j # k
  <2>1. task'[Cleanup(j)] = task[Cleanup(j)]
    BY <1>2, <1>6 DEF CleanupGoesOn
  <2> QED
    BY <1>3, <1>4, <2>1 DEF Carries, Serves
<1> QED
  BY <1>5, <1>6

-----------------------------------------------------------------------------
(***************************************************************************)
(* The other steps, for the application they are about ...                 *)
(***************************************************************************)
LEMMA AppTypes ==
  ASSUME TypeInv, NEW k \in Keys
  PROVE  /\ k[1] \in Apps /\ k[2] \in Processes
         /\ gen[k[1]] \in Gens /\ gen[k[1]] \in Nat /\ gen[k[1]] # 0
         /\ synced[k[1]] \in Nat /\ secret[k[1]] \in SecretObject
         /\ Apply(k) \in Tasks /\ Cleanup(k) \in Tasks /\ Apply(k) # Cleanup(k)
         /\ task \in [Tasks -> Task]
         /\ todo \in [Keys -> BOOLEAN] /\ givenUp \in [Keys -> Statuses \cup {0}]
         /\ task[Apply(k)].gen \in Nat
<1>1. /\ Apply(k) \in Tasks /\ Cleanup(k) \in Tasks /\ Apply(k) # Cleanup(k)
      /\ k[1] \in Apps /\ k[2] \in Processes
  BY TaskNames
<1>2. task[Apply(k)] \in Task /\ MaxGen \in Nat
  BY <1>1, GenAssumption DEF TypeInv, TypeOK
<1>3. task[Apply(k)].gen \in Nat
  <2>1. \A t \in Task : t.gen \in 0 .. MaxGen
    BY DEF Task
  <2> QED
    BY <1>2, <2>1
<1> QED
  BY <1>1, <1>2, <1>3 DEF TypeInv, TypeOK, Gens

\* A run begins, or finds that there is nothing to do; then the application is
\* synchronized, and was no excuse for a user.
LEMMA StartApplyRevocation ==
  ASSUME TypeInv, NEW k \in Keys, Revocation(k), StartApply(k)
  PROVE  Revocation(k)'
<1> DEFINE g == gen[k[1]]
<1>1. /\ UNCHANGED <<kind, users, gen, synced, secret>>
      /\ ~ Runs(k) /\ ~ todo'[k]
  <2>1. UNCHANGED <<kind, users, gen, synced, secret>>
    BY DEF StartApply, aiven, secrets
  <2>2. task[Apply(k)] = Idle /\ todo' = [todo EXCEPT ![k] = FALSE]
    BY DEF StartApply
  <2>3. task[Apply(k)].pc = "idle"
    BY <2>2 DEF Idle
  <2>4. todo'[k] = FALSE
    BY <2>2, AppTypes
  <2> QED
    BY <2>1, <2>3, <2>4 DEF Runs
<1>2. g \in Nat
  BY AppTypes
<1>3. CASE synced[k[1]] = g /\ Present(secret[k[1]])
  <2> DEFINE t == Ended(Begun("status", g, "provide"), "unchanged")
  <2>1. t.pc = "status" /\ t.gen = g /\ t.result = "unchanged"
    BY DEF Ended, Begun
  <2>2. task' = [task EXCEPT ![Apply(k)] = t] /\ givenUp' = givenUp
    BY <1>3 DEF StartApply
  <2> HIDE DEF t
  <2>3. task'[Apply(k)] = t /\ task'[Cleanup(k)] = task[Cleanup(k)]
    BY <2>2, AppTypes
  <2>4. ~ Unsettled(k)
    BY <1>3 DEF Unsettled
  <2>5. FreshIsTrue(k)' /\ RunsForReason(k)'
    BY <1>1, <1>2, <2>1, <2>3 DEF Revocation, FreshIsTrue, RunsForReason, Runs, Present
  <2>6. kind # "valkey" => LeavesNoUser(k)'
    BY <1>1, <2>3, <2>4 DEF Revocation, LeavesNoUser, MayGo, Named, Present
  <2> QED
    BY <1>1, <2>5, <2>6 DEF Revocation
<1>4. CASE ~ (synced[k[1]] = g /\ Present(secret[k[1]]))
  <2> DEFINE t == Begun("look up", g, "provide")
  <2>1. t.pc = "look up" /\ t.goal = "provide" /\ t.gen = g /\ t.result = "none"
    BY DEF Begun
  <2>2. task' = [task EXCEPT ![Apply(k)] = t] /\ givenUp' = [givenUp EXCEPT ![k] = 0]
    BY <1>4 DEF StartApply
  <2> HIDE DEF t
  <2>3. /\ task'[Apply(k)] = t /\ task'[Cleanup(k)] = task[Cleanup(k)]
        /\ givenUp'[k] = 0
    BY <2>2, AppTypes
  <2>4. Unsettled(k)' /\ Runs(k)'
    BY <1>1, <1>4, <2>1, <2>3 DEF Unsettled, Present, Runs
  <2>5. gen'[k[1]] = g /\ g <= g
    BY <1>1, <1>2
  <2> HIDE DEF g
  <2>6. RunsForReason(k)'
    BY <1>1, <2>1, <2>3, <2>4, <2>5 DEF RunsForReason
  <2>7. LeavesNoUser(k)'
    BY <2>4 DEF LeavesNoUser
  <2> QED
    BY <1>1, <2>3, <2>6, <2>7 DEF Revocation, FreshIsTrue, Present
<1> QED
  BY <1>3, <1>4

\* A saved Secret has its finalizer, and no cleanup has read it.
LEMMA SaveRevocation ==
  ASSUME TypeInv, NEW k \in Keys, Revocation(k), SaveSecret(k)
  PROVE  Revocation(k)'
<1> DEFINE x == Apply(k)
           o == Saved(secret[k[1]], task[x].gen)
<1>1. Runs(k) /\ UNCHANGED <<kind, users, gen, synced, todo, givenUp>>
  BY DEF SaveSecret, Runs, aiven, apps
<1>2. Unsettled(k) /\ task[x].gen <= gen[k[1]] /\ givenUp[k] = 0
  BY <1>1 DEF Revocation, RunsForReason, Runs
<1>3. ASSUME NEW result \in {"synced", "again"},
             secret' = [secret EXCEPT ![k[1]] = o],
             task' = [Outdate(CleanersOf(k[1])) EXCEPT ![x] = Ended(task[x], result)]
      PROVE  Revocation(k)'
  <2> DEFINE t == Ended(task[x], result)
             before == Outdate(CleanersOf(k[1]))
  <2>1. Present(o) /\ o.finalizer
    BY DEF Saved, Present
  <2>2. /\ t.pc = "status" /\ t.result = result /\ t.gen = task[x].gen
        /\ t.fresh = task[x].fresh
    BY DEF Ended
  <2> HIDE DEF o, t
  <2>3. secret'[k[1]] = o
    BY <1>3, AppTypes DEF TypeInv, TypeOK, o
  <2>4. task'[x] = t /\ ~ task'[Cleanup(k)].fresh
    <3>1. /\ before = [y \in Tasks |-> before[y]]
          /\ ~ before[Cleanup(k)].fresh
      BY AppTypes, OwnKey, OutdatedFacts
    <3>2. task' = [before EXCEPT ![x] = t]
      BY <1>3 DEF t
    <3> HIDE DEF before
    <3> QED
      BY <3>1, <3>2, AppTypes
  <2>5. ~ MayGo(k)' /\ FreshIsTrue(k)'
    BY <2>1, <2>3, <2>4 DEF MayGo, FreshIsTrue
  <2>6. RunsForReason(k)'
    BY <1>1, <1>2, <2>2, <2>4 DEF Revocation, RunsForReason, Runs
  <2> QED
    BY <1>1, <2>5, <2>6 DEF Revocation, LeavesNoUser
<1>4. CASE Ends(k, "again") /\ UNCHANGED secrets
  <2>1. /\ task'[x].pc = "status" /\ task'[x].result = "again"
        /\ task'[x].gen = task[x].gen /\ task'[x].fresh = task[x].fresh
        /\ task'[Cleanup(k)] = task[Cleanup(k)]
    BY <1>4, EndsFacts, AppTypes
  <2>2. Undone(k)' /\ Unsettled(k)' /\ secret' = secret
    BY <1>1, <1>2, <1>4, <2>1 DEF Undone, Unsettled, Present, secrets
  <2>3. RunsForReason(k)'
    BY <1>1, <1>2, <2>1 DEF Revocation, RunsForReason, Runs
  <2>4. FreshIsTrue(k)' /\ LeavesNoUser(k)'
    BY <2>1, <2>2 DEF Revocation, FreshIsTrue, LeavesNoUser, Present
  <2> QED
    BY <1>1, <2>3, <2>4 DEF Revocation
<1> QED
  BY <1>3, <1>4, Zenon DEF SaveSecret

\* A run ends with its status update. What it could not do stays to be done, and
\* it reports the application synchronized only if nothing was queued meanwhile.
LEMMA UpdateStatusRevocation ==
  ASSUME TypeInv, NEW k \in Keys, Revocation(k), UpdateStatus(k)
  PROVE  Revocation(k)'
<1> DEFINE x == Apply(k)
           t == task[x]
<1>1. /\ UNCHANGED <<kind, users, gen, secret, givenUp>> /\ t.pc = "status"
      /\ ~ Runs(k) /\ t.gen <= gen[k[1]]
      /\ todo' = [todo EXCEPT ![k] = todo[k] \/ t.result = "again"]
  BY DEF UpdateStatus, aiven, secrets, Runs, Revocation, RunsForReason
<1>2. task' = [Outdate(AppliersOf(k[1])) EXCEPT ![x] = Idle]
      \/ task' = [task EXCEPT ![x] = Idle]
  BY Zenon DEF UpdateStatus, Rests
<1>3. task'[x] = Idle /\ task'[Cleanup(k)] = task[Cleanup(k)]
  <2> DEFINE before == Outdate(AppliersOf(k[1]))
  <2>1. Cleanup(k) \notin AppliersOf(k[1])
    BY DEF AppliersOf, Apply, Cleanup
  <2>2. before = [y \in Tasks |-> before[y]] /\ before[Cleanup(k)] = task[Cleanup(k)]
    BY <2>1, AppTypes, OutdatedFacts
  <2>3. task' = [before EXCEPT ![x] = Idle] \/ task' = [task EXCEPT ![x] = Idle]
    BY <1>2
  <2> HIDE DEF before
  <2> QED
    BY <2>2, <2>3, AppTypes
<1>4. Idle.pc = "idle" /\ ~ Idle.fresh
  BY DEF Idle
<1>5. FreshIsTrue(k)' /\ RunsForReason(k)' /\ (MayGo(k)' <=> MayGo(k))
  BY <1>1, <1>3, <1>4
     DEF Revocation, FreshIsTrue, RunsForReason, Runs, MayGo, Present
<1>6. Undone(k) => Undone(k)'
  BY <1>1, AppTypes DEF Undone
<1>7. CASE synced' = synced
  <2>1. Unsettled(k)' <=> Unsettled(k)
    BY <1>1, <1>7 DEF Unsettled, Present
  <2>2. kind # "valkey" => LeavesNoUser(k)'
    BY <1>1, <1>5, <1>6, <2>1 DEF Revocation, LeavesNoUser, Named
  <2> QED
    BY <1>1, <1>5, <1>7, <2>2 DEF Revocation
<1>8. CASE t.fresh /\ t.result = "synced" /\ synced' = [synced EXCEPT ![k[1]] = t.gen]
  <2>1. ~ Undone(k)
    BY <1>1, <1>8 DEF Revocation, RunsForReason, Undone
  <2>2. synced'[k[1]] = t.gen
    BY <1>8, AppTypes DEF TypeInv, TypeOK
  <2>3. kind # "valkey" => LeavesNoUser(k)'
    BY <1>1, <1>5, <2>1 DEF Revocation, LeavesNoUser, Named
  <2> QED
    BY <1>1, <1>5, <2>2, <2>3 DEF Revocation
<1> QED
  BY <1>7, <1>8, Zenon DEF UpdateStatus

LEMMA StartCleanupRevocation ==
  ASSUME TypeInv, NEW k \in Keys, Revocation(k), StartCleanup(k)
  PROVE  Revocation(k)'
<1> DEFINE x == Cleanup(k)
           t == Begun(CleanupBegins, secret[k[1]].gen, "revoke")
<1>1. UNCHANGED <<kind, users, gen, synced, todo, givenUp, secret>>
  BY DEF StartCleanup, aiven, apps
<1>2. task'[Apply(k)] = task[Apply(k)]
  BY AppTypes DEF StartCleanup
<1>3. CASE task' = task
  BY <1>1, <1>3
     DEF Revocation, FreshIsTrue, RunsForReason, LeavesNoUser, MayGo, Runs, Undone,
         Unsettled, Named, Present
<1>4. CASE Present(secret[k[1]]) /\ task' = [task EXCEPT ![x] = t]
  <2>1. t.pc = CleanupBegins /\ t.gen = secret[k[1]].gen
    BY DEF Begun
  <2>2. CleanupBegins \notin Past
    BY CleanupBeginsType DEF Past, TypeInv, TypeOK, ServiceTypeOK
  <2> HIDE DEF t
  <2>3. task'[x] = t
    BY <1>4, AppTypes
  <2> QED
    BY <1>1, <1>2, <1>4, <2>1, <2>2, <2>3
       DEF Revocation, FreshIsTrue, RunsForReason, LeavesNoUser, MayGo, Runs, Undone,
           Unsettled, Named, Present
<1> QED
  BY <1>3, <1>4 DEF StartCleanup

\* A Secret that loses its finalizer was cleaned up for; if it lives on it can
\* go without another cleanup.
LEMMA UnfinalizeRevocation ==
  ASSUME TypeInv, NEW k \in Keys, Revocation(k), Unfinalize(k)
  PROVE  Revocation(k)'
<1> DEFINE x == Cleanup(k)
           o == Unfinalized(secret[k[1]])
           those == IF o = secret[k[1]] THEN {} ELSE CleanersOf(k[1])
<1>1. /\ UNCHANGED <<kind, users, gen, synced, todo, givenUp>>
      /\ task[x].pc \in Past
  BY DEF Unfinalize, aiven, apps, Past
<1>2. \/ secret' = secret
      \/ task[x].fresh /\ secret' = [secret EXCEPT ![k[1]] = o]
  BY Zenon DEF Unfinalize
<1>3. task'[x] = Idle /\ task'[Apply(k)] = task[Apply(k)]
  <2> DEFINE before == Outdate(those)
  <2>1. Apply(k) \notin those
    BY DEF CleanersOf, Apply, Cleanup
  <2>2. before = [y \in Tasks |-> before[y]] /\ before[Apply(k)] = task[Apply(k)]
    BY <2>1, AppTypes, OutdatedFacts
  <2>3. task' = [before EXCEPT ![x] = Idle] \/ task' = [task EXCEPT ![x] = Idle]
    BY Zenon DEF Unfinalize, Rests
  <2> HIDE DEF before
  <2> QED
    BY <2>2, <2>3, AppTypes
<1> HIDE DEF those
<1>4. ~ Idle.fresh
  BY DEF Idle
<1>5. CASE secret' = secret
  BY <1>1, <1>3, <1>4, <1>5
     DEF Revocation, FreshIsTrue, RunsForReason, LeavesNoUser, MayGo, Runs, Undone,
         Unsettled, Named, Present
<1>6. CASE task[x].fresh /\ secret' = [secret EXCEPT ![k[1]] = o]
  <2>1. MayGo(k) /\ Present(secret[k[1]])
    BY <1>1, <1>6 DEF MayGo, Revocation, FreshIsTrue
  <2>2. secret[k[1]].phase \in {"live", "terminating"}
    BY <2>1, AppTypes DEF SecretObject, Present
  <2>3. ~ Present(o) \/ (Present(o) /\ o.gen = secret[k[1]].gen)
    BY <2>2 DEF Unfinalized, NoSecret, Present
  <2> HIDE DEF o
  <2>4. secret'[k[1]] = o
    BY <1>6, AppTypes DEF TypeInv, TypeOK
  <2>5. Unsettled(k) => Unsettled(k)'
    BY <1>1, <2>1, <2>4 DEF Unsettled
  <2>6. kind # "valkey" => LeavesNoUser(k)'
    <3>1. CASE ~ Present(o)
      BY <1>3, <1>4, <2>4, <3>1 DEF LeavesNoUser, MayGo
    <3>2. CASE Present(o) /\ o.gen = secret[k[1]].gen
      <4>1. Named(k[1])' = Named(k[1])
        BY <2>4, <3>2 DEF Named
      <4> QED
        BY <1>1, <1>3, <2>1, <2>5, <4>1 DEF Revocation, LeavesNoUser, Runs, Undone
    <3> QED
      BY <2>3, <3>1, <3>2
  <2> QED
    BY <1>1, <1>3, <1>4, <2>5, <2>6 DEF Revocation, FreshIsTrue, RunsForReason, Runs
<1> QED
  BY <1>2, <1>5, <1>6

\* A new generation, or an emptied hash, is work to do.
LEMMA DeployRevocation ==
  ASSUME TypeInv, NEW k \in Keys, Revocation(k), Deploy(k[1]) \/ Redeploy(k[1])
  PROVE  Revocation(k)'
<1>1. UNCHANGED <<kind, users, secret, givenUp>> /\ task' = Outdate(AppliersOf(k[1]))
  BY DEF Deploy, Redeploy, aiven, secrets
<1>2. /\ synced'[k[1]] < gen'[k[1]] /\ gen[k[1]] <= gen'[k[1]] /\ todo'[k]
      /\ gen'[k[1]] \in Nat /\ synced'[k[1]] \in Nat
  <2>1. /\ gen \in [Apps -> Gens] /\ synced \in [Apps -> 0 .. MaxGen]
        /\ k[1] \in Apps /\ gen[k[1]] \in Nat /\ gen[k[1]] # 0
        /\ synced[k[1]] \in Nat /\ synced[k[1]] <= gen[k[1]]
    BY AppTypes DEF TypeInv, TypeOK, Revocation
  <2>2. todo'[k]
    BY DEF Deploy, Redeploy, Queued
  <2>3. CASE gen' = [gen EXCEPT ![k[1]] = @ + 1] /\ synced' = synced
    <3>1. gen'[k[1]] = gen[k[1]] + 1 /\ synced'[k[1]] = synced[k[1]]
      BY <2>1, <2>3
    <3> QED
      BY <2>1, <2>2, <3>1
  <2>4. CASE gen' = gen /\ synced' = [synced EXCEPT ![k[1]] = 0]
    <3>1. gen'[k[1]] = gen[k[1]] /\ synced'[k[1]] = 0
      BY <2>1, <2>4
    <3> QED
      BY <2>1, <2>2, <3>1
  <2> QED
    BY <2>3, <2>4 DEF Deploy, Redeploy
<1>3. /\ task'[Cleanup(k)] = task[Cleanup(k)] /\ ~ task'[Apply(k)].fresh
      /\ task'[Apply(k)].pc = task[Apply(k)].pc
      /\ task'[Apply(k)].gen = task[Apply(k)].gen
      /\ task'[Apply(k)].goal = task[Apply(k)].goal
      /\ task'[Apply(k)].result = task[Apply(k)].result
  <2>1. Cleanup(k) \notin AppliersOf(k[1])
    BY DEF AppliersOf, Apply, Cleanup
  <2> QED
    BY <1>1, <2>1, AppTypes, OwnKey, OutdatedFacts
<1>4. Unsettled(k)' /\ Undone(k)'
  BY <1>2 DEF Unsettled, Undone
<1>5. FreshIsTrue(k)' /\ LeavesNoUser(k)'
  BY <1>1, <1>3, <1>4 DEF Revocation, FreshIsTrue, LeavesNoUser, Present
<1>6. RunsForReason(k)'
  <2>1. task[Apply(k)].gen \in Nat /\ gen[k[1]] \in Nat
    BY AppTypes
  <2> QED
    BY <1>1, <1>2, <1>3, <1>4, <2>1 DEF Revocation, RunsForReason, Runs
<1> QED
  BY <1>2, <1>5, <1>6 DEF Revocation

LEMMA DeleteSecretRevocation ==
  ASSUME TypeInv, NEW k \in Keys, Revocation(k), DeleteSecret(k[1])
  PROVE  Revocation(k)'
<1> DEFINE o == Marked(secret[k[1]])
<1>1. /\ UNCHANGED <<kind, users, gen, synced, todo, givenUp>>
      /\ Present(secret[k[1]])
  BY DEF DeleteSecret, aiven, apps, Present
<1>2. Present(o) => o.finalizer
  BY DEF Marked, NoSecret, Present
<1>3. /\ secret' = [secret EXCEPT ![k[1]] = o] /\ task' = Outdate(CleanersOf(k[1]))
  BY DEF DeleteSecret
<1> HIDE DEF o
<1>4. secret'[k[1]] = o
  BY <1>3, AppTypes DEF TypeInv, TypeOK
<1>5. ~ task'[Cleanup(k)].fresh /\ task'[Apply(k)] = task[Apply(k)]
  <2>1. Apply(k) \notin CleanersOf(k[1])
    BY DEF CleanersOf, Apply, Cleanup
  <2> QED
    BY <1>3, <2>1, AppTypes, OwnKey, OutdatedFacts
<1>6. ~ MayGo(k)' /\ FreshIsTrue(k)'
  BY <1>2, <1>4, <1>5 DEF MayGo, FreshIsTrue
<1>7. Unsettled(k) => Unsettled(k)'
  BY <1>1 DEF Unsettled
<1> QED
  BY <1>1, <1>5, <1>6, <1>7 DEF Revocation, RunsForReason, Runs, LeavesNoUser

LEMMA RestartRevocation ==
  ASSUME TypeInv, NEW k \in Keys, Revocation(k), Restart(k[2])
  PROVE  Revocation(k)'
<1>1. UNCHANGED <<kind, users, gen, synced, secret, givenUp>> /\ todo'[k]
  BY DEF Restart, aiven
<1>2. /\ task'[Apply(k)] = Idle /\ task'[Cleanup(k)] = Idle
      /\ ~ Idle.fresh /\ Idle.pc = "idle"
  BY AppTypes DEF Restart, Idle, Process, Apply, Cleanup
<1>3. MayGo(k)' => MayGo(k)
  BY <1>1, <1>2 DEF MayGo, Present
<1>4. Runs(k) => Unsettled(k)
  BY DEF Revocation, RunsForReason
<1>5. FreshIsTrue(k)' /\ RunsForReason(k)'
  BY <1>2 DEF FreshIsTrue, RunsForReason, Runs
<1>6. kind # "valkey" => LeavesNoUser(k)'
  BY <1>1, <1>3, <1>4 DEF Revocation, LeavesNoUser, Undone, Unsettled, Named, Present
<1> QED
  BY <1>1, <1>5, <1>6 DEF Revocation

-----------------------------------------------------------------------------
(***************************************************************************)
(* ... and for those they are not about.                                   *)
(***************************************************************************)
Untouched(k) ==
  /\ kind' = kind
  /\ gen'[k[1]] = gen[k[1]] /\ synced'[k[1]] = synced[k[1]]
  /\ secret'[k[1]] = secret[k[1]]
  /\ todo'[k] = todo[k] /\ givenUp'[k] = givenUp[k]
  /\ task'[Apply(k)] = task[Apply(k)] /\ task'[Cleanup(k)] = task[Cleanup(k)]
  /\ \A u \in Users : users[u] = "none" => users'[u] = "none"

LEMMA UntouchedCarries ==
  ASSUME RevocationInv, NEW k \in Keys, Untouched(k)
  PROVE  Carries(k)
<1>1. Present(secret[k[1]]) => Named(k[1]) \in Users
  BY TaskNames, NamedUser DEF RevocationInv, IInv
<1> QED
  BY <1>1 DEF Untouched, Carries

\* What is done to the tasks of one application is done to no others.
LEMMA OtherTasks ==
  ASSUME OneProcess, TypeInv, NEW k \in Keys, NEW j \in Keys, j # k,
         NEW those \in {{}, AppliersOf(k[1]), CleanersOf(k[1])},
         NEW x \in {Apply(k), Cleanup(k)}, NEW t,
         \/ task' = Outdate(those)
         \/ task' = [Outdate(those) EXCEPT ![x] = t]
         \/ task' = [task EXCEPT ![x] = t]
  PROVE  task'[Apply(j)] = task[Apply(j)] /\ task'[Cleanup(j)] = task[Cleanup(j)]
<1> DEFINE before == Outdate(those)
<1>1. /\ Apply(j) \in Tasks /\ Cleanup(j) \in Tasks
      /\ Apply(j) # x /\ Cleanup(j) # x
  BY TaskNames
<1>2. Apply(j) \notin those /\ Cleanup(j) \notin those
  <2>1. Apply(j) \notin AppliersOf(k[1]) /\ Cleanup(j) \notin CleanersOf(k[1])
    BY OtherKeys
  <2>2. Apply(j) \notin CleanersOf(k[1]) /\ Cleanup(j) \notin AppliersOf(k[1])
    BY DEF AppliersOf, CleanersOf, Apply, Cleanup
  <2> QED
    BY <2>1, <2>2
<1>3. /\ before = [y \in Tasks |-> before[y]]
      /\ before[Apply(j)] = task[Apply(j)] /\ before[Cleanup(j)] = task[Cleanup(j)]
  BY <1>1, <1>2, OutdatedFacts
<1>4. task \in [Tasks -> Task]
  BY DEF TypeInv, TypeOK
<1>5. \/ task' = before
      \/ task' = [before EXCEPT ![x] = t]
      \/ task' = [task EXCEPT ![x] = t]
  OBVIOUS
<1> HIDE DEF before
<1> QED
  BY <1>1, <1>3, <1>4, <1>5

LEMMA OthersUntouched ==
  ASSUME OneProcess, TypeInv, NEW k \in Keys, NEW j \in Keys, j # k,
         \/ StartApply(k) \/ SaveSecret(k) \/ UpdateStatus(k)
         \/ StartCleanup(k) \/ Unfinalize(k)
         \/ Deploy(k[1]) \/ Redeploy(k[1]) \/ DeleteSecret(k[1])
  PROVE  Untouched(j)
<1>0. j # k
  OBVIOUS
<1>1. j[1] # k[1]
  BY OtherKeys
<1>2. task'[Apply(j)] = task[Apply(j)] /\ task'[Cleanup(j)] = task[Cleanup(j)]
  <2>1. CASE \E x \in {Apply(k), Cleanup(k)} : \E t : task' = [task EXCEPT ![x] = t]
    <3>1. PICK x \in {Apply(k), Cleanup(k)} : \E t : task' = [task EXCEPT ![x] = t]
      BY <2>1, Zenon
    <3>2. PICK t : task' = [task EXCEPT ![x] = t]
      BY <3>1, Zenon
    <3>3. {} \in {{}, AppliersOf(k[1]), CleanersOf(k[1])}
      OBVIOUS
    <3> QED
      BY <1>0, <3>2, <3>3, OtherTasks, Zenon
  <2>2. CASE \E those \in {{}, AppliersOf(k[1]), CleanersOf(k[1])} :
               \/ task' = Outdate(those)
               \/ \E x \in {Apply(k), Cleanup(k)} : \E t :
                    task' = [Outdate(those) EXCEPT ![x] = t]
    BY <2>2, OtherTasks
  <2>3. CASE task' = task
    BY <2>3
  <2>4. CASE StartApply(k) \/ StartCleanup(k)
    BY <2>1, <2>3, <2>4 DEF StartApply, StartCleanup
  <2>5. CASE SaveSecret(k)
    BY <2>1, <2>2, <2>5 DEF SaveSecret, Ends
  <2>6. CASE UpdateStatus(k)
    BY <2>1, <2>2, <2>6 DEF UpdateStatus, Rests
  <2>7. CASE Unfinalize(k)
    BY <2>1, <2>2, <2>7 DEF Unfinalize, Rests
  <2>8. CASE Deploy(k[1]) \/ Redeploy(k[1]) \/ DeleteSecret(k[1])
    BY <2>2, <2>8 DEF Deploy, Redeploy, DeleteSecret
  <2> QED
    BY <2>4, <2>5, <2>6, <2>7, <2>8
<1>3. UNCHANGED <<kind, users>>
  BY DEF StartApply, SaveSecret, UpdateStatus, StartCleanup, Unfinalize, Deploy, Redeploy,
         DeleteSecret, aiven
<1>4. /\ gen'[j[1]] = gen[j[1]] /\ synced'[j[1]] = synced[j[1]]
      /\ secret'[j[1]] = secret[j[1]]
      /\ todo'[j] = todo[j] /\ givenUp'[j] = givenUp[j]
  <2>1. /\ gen = [a \in Apps |-> gen[a]] /\ synced = [a \in Apps |-> synced[a]]
        /\ secret = [a \in Apps |-> secret[a]]
        /\ todo \in [Keys -> BOOLEAN] /\ givenUp = [i \in Keys |-> givenUp[i]]
        /\ j[1] \in Apps
    BY TaskNames DEF TypeInv, TypeOK
  <2>2. CASE StartApply(k)
    BY <1>1, <2>1, <2>2 DEF StartApply, secrets
  <2>3. CASE SaveSecret(k)
    BY <1>1, <2>1, <2>3 DEF SaveSecret, apps, secrets
  <2>4. CASE UpdateStatus(k)
    BY <1>1, <2>1, <2>4 DEF UpdateStatus, secrets
  <2>5. CASE StartCleanup(k) \/ Unfinalize(k)
    BY <1>1, <2>1, <2>5 DEF StartCleanup, Unfinalize, apps
  <2>6. CASE Deploy(k[1])
    BY <1>1, <2>1, <2>6 DEF Deploy, Queued, secrets
  <2>7. CASE Redeploy(k[1])
    BY <1>1, <2>1, <2>7 DEF Redeploy, Queued, secrets
  <2>8. CASE DeleteSecret(k[1])
    BY <1>1, <2>1, <2>8 DEF DeleteSecret, apps
  <2> QED
    BY <2>2, <2>3, <2>4, <2>5, <2>6, <2>7, <2>8
<1> QED
  BY <1>2, <1>3, <1>4 DEF Untouched

\* A counter only counts, and lists what is there.
LEMMA CounterUntouched ==
  ASSUME IInv, NEW k \in Keys, NEW p \in Processes, Shared(Counter(p))
  PROVE  Untouched(k)
<1> DEFINE x == Counter(p)
<1>1. /\ TypeInv /\ x \in Tasks /\ Apply(k) \in Tasks /\ Cleanup(k) \in Tasks
      /\ x \notin {Apply(k), Cleanup(k)} /\ x \notin Appliers \cup Cleaners
      /\ x \in Counters
  BY TaskNames DEF IInv
<1> HIDE DEF x
<1>2. task[x].pc \in Counting /\ task[x].goal = "none"
  BY <1>1, TaskFacts DEF TypeInv, TasksFit, Purposeful
<1>3. Count(x) \/ CountFill(x)
  BY <1>2 DEF Shared, ReadACL, WriteACL, ResolveName, DeleteUser, Counting, x
<1>4. UNCHANGED <<kind, users, apps, secrets>>
  BY <1>2, <1>3 DEF Count, CountFill, Counted, Stays, aiven
<1>5. \A y \in Tasks : y # x => task'[y] = task[y]
  BY <1>1, <1>2, <1>3
     DEF Count, CountFill, Counted, Rests, Moves, TypeInv, TypeOK
<1> QED
  BY <1>1, <1>4, <1>5 DEF Untouched, apps, secrets

LEMMA QuietUntouched ==
  ASSUME TypeInv, NEW k \in Keys,
         \/ \E p \in Processes : Resync(p) \/ Tick(p)
         \/ Expiry
         \/ ServiceComesUp /\ UNCHANGED <<apps, secrets, task>>
         \/ ServiceGoes /\ UNCHANGED <<apps, secrets, task>>
         \/ UNCHANGED vars
  PROVE  Untouched(k)
<1>1. UNCHANGED <<kind, apps, secret>>
  BY DEF Resync, Tick, Expiry, ServiceComesUp, ServiceGoes, vars, secrets
<1>2. \A u \in Users : users[u] = "none" => users'[u] = "none"
  BY NobodyType DEF Resync, Tick, Expiry, ServiceComesUp, ServiceGoes, vars, aiven
<1>3. task'[Apply(k)] = task[Apply(k)] /\ task'[Cleanup(k)] = task[Cleanup(k)]
  <2>1. \A p \in Processes : Counter(p) \notin {Apply(k), Cleanup(k)}
    BY TaskNames
  <2>2. \/ task' = task
        \/ \E p \in Processes : task' = [task EXCEPT ![Counter(p)] = Begun("count", 0, "none")]
    BY DEF Resync, Tick, Expiry, vars
  <2> QED
    BY <2>1, <2>2, AppTypes
<1> QED
  BY <1>1, <1>2, <1>3 DEF Untouched, apps

-----------------------------------------------------------------------------
LEMMA RevocationInit == Init => RevocationInv
<1> SUFFICES ASSUME Init PROVE RevocationInv
  OBVIOUS
<1>1. IInv /\ TypeInv
  BY Initially DEF IInv
<1> SUFFICES ASSUME NEW k \in Keys PROVE Revocation(k)
  BY <1>1 DEF RevocationInv
<1>2. /\ gen[k[1]] = 1 /\ task[Apply(k)] = Idle /\ task[Cleanup(k)] = Idle
      /\ ~ Idle.fresh /\ Idle.pc = "idle"
  BY <1>1, AppTypes DEF Init, Idle
<1>3. \/ synced[k[1]] = 0 /\ ~ Present(secret[k[1]])
      \/ synced[k[1]] = 1 /\ kind = "valkey"
  BY TaskNames DEF Init, NoSecret, Present
<1> QED
  BY <1>2, <1>3 DEF Revocation, FreshIsTrue, RunsForReason, LeavesNoUser, MayGo, Runs

LEMMA RevocationStep ==
  ASSUME OneProcess
  PROVE  RevocationInv /\ [Next]_vars => RevocationInv'
<1> SUFFICES ASSUME RevocationInv, [Next]_vars PROVE RevocationInv'
  OBVIOUS
<1>1. IInv /\ TypeInv /\ IInv'
  BY Inductive DEF RevocationInv, IInv
<1> SUFFICES ASSUME NEW j \in Keys PROVE Revocation(j)'
  BY <1>1 DEF RevocationInv
<1>2. Revocation(j) /\ (Carries(j) => Revocation(j)')
  BY Carried DEF RevocationInv
<1>3. ASSUME NEW k \in Keys, ApplyStep(k) PROVE Revocation(j)'
  <2>1. Revocation(k)
    BY DEF RevocationInv
  <2>2. CASE StartApply(k) \/ SaveSecret(k) \/ UpdateStatus(k)
    <3>1. CASE j = k
      BY <1>1, <2>1, <2>2, <3>1, StartApplyRevocation, SaveRevocation,
         UpdateStatusRevocation
    <3>2. CASE j # k
      BY <1>1, <1>2, <2>2, <3>2, OthersUntouched, UntouchedCarries
    <3> QED
      BY <3>1, <3>2
  <2>3. CASE LookUp(k) \/ List(k) \/ Fill(k) \/ Create(k) \/ Update(k) \/ KeyStores(k)
    BY <1>1, <1>2, <2>3, ProvidingRunGoesOn, RunCarries
  <2>4. CASE Shared(Apply(k))
    BY <1>1, <1>2, <2>1, <2>4, SharedRunGoesOn, RunCarries DEF Revocation
  <2> QED
    BY <1>3, <2>2, <2>3, <2>4 DEF ApplyStep
<1>4. ASSUME NEW k \in Keys, CleanupStep(k) PROVE Revocation(j)'
  <2>1. CASE StartCleanup(k) \/ Unfinalize(k)
    <3>1. CASE j = k
      BY <1>1, <1>2, <2>1, <3>1, StartCleanupRevocation, UnfinalizeRevocation
    <3>2. CASE j # k
      BY <1>1, <1>2, <2>1, <3>2, OthersUntouched, UntouchedCarries
    <3> QED
      BY <3>1, <3>2
  <2>2. CASE Shared(Cleanup(k))
    BY <1>1, <1>2, <2>2, SharedCleanupGoesOn, CleanupCarries
  <2> QED
    BY <1>4, <2>1, <2>2 DEF CleanupStep
<1>5. ASSUME NEW p \in Processes, ProcessStep(p) PROVE Revocation(j)'
  <2>1. CASE Shared(Counter(p))
    BY <1>1, <1>2, <2>1, CounterUntouched, UntouchedCarries
  <2>2. CASE Resync(p) \/ Tick(p)
    BY <1>1, <1>2, <2>2, QuietUntouched, UntouchedCarries
  <2>3. CASE Restart(p)
    <3>1. p = j[2]
      BY TaskNames DEF OneProcess
    <3> QED
      BY <1>1, <1>2, <2>3, <3>1, RestartRevocation
  <2> QED
    BY <1>5, <2>1, <2>2, <2>3 DEF ProcessStep
<1>6. CASE Expiry \/ UNCHANGED vars
  BY <1>1, <1>2, <1>6, QuietUntouched, UntouchedCarries
<1>7. CASE Outside
  <2>1. ASSUME NEW a \in Apps, Deploy(a) \/ Redeploy(a) \/ DeleteSecret(a)
        PROVE  Revocation(j)'
    <3>1. CASE a = j[1]
      BY <1>1, <1>2, <2>1, <3>1, DeployRevocation, DeleteSecretRevocation
    <3>2. CASE a # j[1]
      <4>1. <<a, j[2]>> \in Keys /\ <<a, j[2]>>[1] = a
        BY TaskNames DEF Keys
      <4>2. PICK k \in Keys : k[1] = a /\ k # j
        BY <3>2, <4>1
      <4> QED
        BY <1>1, <1>2, <2>1, <4>2, OthersUntouched, UntouchedCarries
    <3> QED
      BY <3>1, <3>2
  <2>2. CASE (ServiceComesUp \/ ServiceGoes) /\ UNCHANGED <<apps, secrets, task>>
    BY <1>1, <1>2, <2>2, QuietUntouched, UntouchedCarries
  <2> QED
    BY <1>7, <2>1, <2>2 DEF Outside
<1> QED
  BY <1>3, <1>4, <1>5, <1>6, <1>7 DEF Next

\* A Secret goes at the end of a cleanup that read it as it is, or at once when
\* it has no finalizer.
LEMMA GoesWhenItMay ==
  ASSUME OneProcess, RevocationInv, [Next]_vars, NEW j \in Keys,
         Present(secret[j[1]]), ~ Present(secret'[j[1]])
  PROVE  MayGo(j)
<1>1. TypeInv /\ secret'[j[1]] # secret[j[1]] /\ j[1] \in Apps
  BY TaskNames DEF RevocationInv, IInv
<1>2. ASSUME NEW k \in Keys,
             \/ StartApply(k) \/ SaveSecret(k) \/ UpdateStatus(k)
             \/ StartCleanup(k) \/ Unfinalize(k)
             \/ Deploy(k[1]) \/ Redeploy(k[1]) \/ DeleteSecret(k[1])
      PROVE  MayGo(j)
  <2>1. j = k
    BY <1>1, <1>2, OthersUntouched DEF Untouched
  <2>2. ~ (\/ StartApply(k) \/ UpdateStatus(k) \/ StartCleanup(k)
           \/ Deploy(k[1]) \/ Redeploy(k[1]))
    BY <1>1 DEF StartApply, UpdateStatus, StartCleanup, Deploy, Redeploy, secrets
  <2>3. ~ SaveSecret(k)
    <3>1. Present(Saved(secret[j[1]], task[Apply(j)].gen))
      BY DEF Saved, Present
    <3> QED
      BY <1>1, <2>1, <3>1 DEF SaveSecret, secrets, TypeInv, TypeOK
  <2>4. CASE Unfinalize(k)
    <3>1. task[Cleanup(k)].fresh /\ task[Cleanup(k)].pc = "unfinalize"
      BY <1>1, <2>4 DEF Unfinalize
    <3> QED
      BY <2>1, <3>1 DEF MayGo, Past
  <2>5. CASE DeleteSecret(k[1])
    <3>1. secret'[j[1]] = Marked(secret[j[1]])
      BY <1>1, <2>1, <2>5 DEF DeleteSecret, TypeInv, TypeOK
    <3>2. ~ secret[j[1]].finalizer
      BY <3>1 DEF Marked, Present
    <3> QED
      BY <3>2 DEF MayGo
  <2> QED
    BY <1>2, <2>2, <2>3, <2>4, <2>5
<1>3. ASSUME NEW k \in Keys, RunGoesOn(k) \/ CleanupGoesOn(k) PROVE FALSE
  BY <1>1, <1>3 DEF RunGoesOn, CleanupGoesOn
<1>4. ASSUME NEW k \in Keys, ApplyStep(k) \/ CleanupStep(k) PROVE MayGo(j)
  <2>1. IInv /\ RunsForReason(k)
    BY DEF RevocationInv, Revocation
  <2> QED
    BY <1>2, <1>3, <1>4, <2>1, ProvidingRunGoesOn, SharedRunGoesOn, SharedCleanupGoesOn
       DEF ApplyStep, CleanupStep
<1>5. ASSUME NEW p \in Processes, ProcessStep(p) PROVE FALSE
  <2>1. CASE Shared(Counter(p))
    BY <1>1, <2>1, CounterUntouched DEF RevocationInv, Untouched
  <2>2. CASE Resync(p) \/ Tick(p) \/ Restart(p)
    BY <1>1, <2>2 DEF Resync, Tick, Restart, secrets
  <2> QED
    BY <1>5, <2>1, <2>2 DEF ProcessStep
<1>6. CASE Expiry \/ UNCHANGED vars
  BY <1>1, <1>6 DEF Expiry, vars, secrets
<1>7. CASE Outside
  <2>1. ASSUME NEW a \in Apps, Deploy(a) \/ Redeploy(a) \/ DeleteSecret(a)
        PROVE  MayGo(j)
    <3>1. PICK k \in Keys : k[1] = a
      <4>1. <<a, j[2]>> \in Keys /\ <<a, j[2]>>[1] = a
        BY TaskNames DEF Keys
      <4> QED
        BY <4>1
    <3> QED
      BY <1>2, <2>1, <3>1
  <2> QED
    BY <1>1, <1>7, <2>1 DEF Outside, secrets
<1> QED
  BY <1>4, <1>5, <1>6, <1>7 DEF Next

\* In one process, when a Secret goes the user it names has gone before it, or a
\* run of the same application has made it anew and is still at it, will try
\* again or has been given up: for Kafka and OpenSearch, whatever runs,
\* cleanups, counters and outside changes come between the calls of the cleanup,
\* whichever calls and status updates fail, and also when the finalizer had been
\* taken off before the deletion.
THEOREM UsersGoFirst ==
  ASSUME OneProcess
  PROVE  Spec => GoneSecretsLeaveNoUser
<1>1. ASSUME RevocationInv, [Next]_vars
      PROVE  \A a \in Apps : kind # "valkey" => GoesCleanly(a)
  <2> SUFFICES ASSUME NEW a \in Apps, kind # "valkey",
                      Present(secret[a]), ~ Present(secret'[a])
               PROVE  users[Named(a)] = "none" \/ \E k \in KeysOf(a) : Unfinished(k)
    BY DEF GoesCleanly
  <2>1. PICK k \in Keys : k[1] = a
    <3>1. PICK p : p \in Processes
      BY DEF OneProcess
    <3>2. <<a, p>> \in Keys /\ <<a, p>>[1] = a
      BY <3>1 DEF Keys
    <3> QED
      BY <3>2
  <2>2. MayGo(k) /\ Revocation(k)
    BY <1>1, <2>1, GoesWhenItMay DEF RevocationInv
  <2>3. users[Named(a)] = "none" \/ Runs(k) \/ Undone(k)
    BY <2>1, <2>2 DEF Revocation, LeavesNoUser
  <2>4. Runs(k) \/ Undone(k) => Unfinished(k)
    BY <2>2 DEF Revocation, RunsForReason, Runs, Undone, Unfinished
  <2> QED
    BY <2>1, <2>3, <2>4, OwnKey
<1>2. RevocationInv /\ [Next]_vars => RevocationInv'
  BY RevocationStep
<1>3. RevocationInv /\ [Next]_vars => [\A a \in Apps : kind # "valkey" => GoesCleanly(a)]_vars
  BY <1>1
<1> QED
  BY <1>2, <1>3, RevocationInit, PTL DEF Spec, GoneSecretsLeaveNoUser
=============================================================================
