--------------------------- MODULE Handlers_proofs ---------------------------
(***************************************************************************)
(* What holds of the handlers for any number of processes, applications,   *)
(* generations, changes and faults: the types of their state, that a run   *)
(* is given up only for a reason that does not pass (as long as there is   *)
(* one process), and that a Valkey user has the access asked for when it   *)
(* is saved.                                                               *)
(***************************************************************************)
EXTENDS Handlers, TLAPS

-----------------------------------------------------------------------------
(***************************************************************************)
(* The invariant. A task that has something to do has it for a user, which *)
(* the counter has not, and at the steps only Apply has it is to provide   *)
(* that user. In the only process, a run that goes by an answer which did  *)
(* not show its user is right to do so: nobody else makes that user,       *)
(* whatever else happens to the service meanwhile.                         *)
(***************************************************************************)
OneProcess == \E p \in Processes : Processes = {p}

Counting == {"idle", "count", "count fill"}

Supplying == {"look up", "list", "fill", "create", "update", "keystores", "save"}

Purposeful(x, t) ==
  /\ t.pc \in Supplying => t.goal = "provide"
  /\ t.pc \notin Counting => t.goal # "none"
  /\ t.goal # "none" => x \notin Counters /\ t.gen \in Gens

TasksFit == \A x \in Tasks : Purposeful(x, task[x])

SecretsFit == \A a \in Apps : Present(secret[a]) => secret[a].gen \in Gens

TypeInv == TypeOK /\ TasksFit /\ SecretsFit

Missing(t, u) ==
  \/ t.pc = "create"
  \/ t.pc = "fill" /\ t.listed[u] = "none"

AnswerHolds(k) ==
  /\ OneProcess /\ Missing(task[Apply(k)], UserOf(Apply(k)))
       => users[UserOf(Apply(k))] = "none"
  /\ task[Apply(k)].pc = "update" => kind = "valkey"

GoneLeavesNothing == service = "gone" => \A u \in Users : users[u] = "none"

\* A user never gets an old access back. So, whoever has listed or cached it
\* with the right access, and whatever has become of it, it has no other; and
\* a run that is past the providing of its user has seen that.
Shows(listed) == \A u \in Users : listed[u] = "right" => users[u] # "old"

Providing == {"count", "count fill", "keystores", "read acl", "write acl", "save"}

Provided(x) ==
  task[x].goal = "provide" /\ task[x].pc \in Providing
    => users[UserOf(x)] # "old"

ReasonsHold ==
  \A k \in Keys :
    /\ OneProcess => givenUp[k] # 409
    /\ givenUp[k] = 404 => service = "gone" \/ kind = "valkey"

NoneOlder ==
  /\ \A u \in Users : users[u] = "old" => kind = "valkey"
  /\ \A p \in Processes : Shows(cached[p])
  /\ \A x \in Tasks : Shows(task[x].listed) /\ Provided(x)

IInv ==
  /\ TypeInv
  /\ GoneLeavesNothing
  /\ NoneOlder
  /\ \A k \in Keys : AnswerHolds(k)
  /\ ReasonsHold

-----------------------------------------------------------------------------
(***************************************************************************)
(* Tasks and what they are made of.                                        *)
(***************************************************************************)
PCs == {"idle", "look up", "list", "fill", "create", "update", "count",
        "count fill", "keystores", "resolve", "read acl", "write acl", "delete",
        "save", "status", "unfinalize"}

Goals == {"none", "provide", "revoke"}

Results == {"none", "synced", "unchanged", "again", "for good"}

LEMMA Numbers == 0 \in 0 .. MaxGen /\ Gens \subseteq 0 .. MaxGen
BY GenAssumption DEF Gens

LEMMA NobodyType == Nobody \in [Users -> Access] /\ \A u \in Users : Nobody[u] = "none"
BY DEF Nobody, Access

LEMMA TaskNames ==
  /\ \A p \in Processes :
       /\ Counter(p) \in Counters /\ Counter(p) \in Tasks
       /\ Counter(p) \notin Cleaners /\ Counter(p) \notin Appliers
       /\ Process(Counter(p)) = p
  /\ \A x \in Tasks : Process(x) \in Processes
  /\ \A k \in Keys :
       /\ k[1] \in Apps /\ k[2] \in Processes
       /\ Apply(k) \in Appliers /\ Apply(k) \in Tasks /\ Apply(k) \notin Cleaners
       /\ Apply(k) \notin Counters /\ Apply(k)[1] = k
       /\ Cleanup(k) \in Cleaners /\ Cleanup(k) \in Tasks
       /\ Cleanup(k) \notin Counters /\ Cleanup(k)[1] = k
       /\ \A j \in Keys : Apply(k) # Cleanup(j) /\ (Apply(k) = Apply(j) => k = j)
<1>1. \A k \in Keys : k[1] \in Apps /\ k[2] \in Processes
  BY DEF Keys
<1>2. \A k, j : Apply(k) # Cleanup(j) /\ Apply(k)[1] = k /\ Cleanup(k)[1] = k
  BY DEF Apply, Cleanup
<1>3. \A k, p : Apply(k) # Counter(p) /\ Cleanup(k) # Counter(p)
  BY DEF Apply, Cleanup, Counter
<1>4. \A p : Counter(p)[1][2] = p
  BY DEF Counter
<1> QED
  BY <1>1, <1>2, <1>3, <1>4 DEF Appliers, Cleaners, Counters, Tasks, Process

\* The only process has no other run for the application.
LEMMA OnlyOne ==
  ASSUME OneProcess, NEW k \in Keys, NEW j \in Keys, j[1] = k[1]
  PROVE  j = k
BY DEF OneProcess, Keys

LEMMA OnlyRun ==
  ASSUME OneProcess, NEW k \in Keys, NEW x \in AppliersOf(k[1])
  PROVE  x = Apply(k)
<1>1. PICK j \in KeysOf(k[1]) : x = Apply(j)
  BY DEF AppliersOf
<1>2. j \in Keys /\ j[1] = k[1]
  BY TaskNames DEF KeysOf, Keys
<1> QED
  BY <1>1, <1>2, OnlyOne

LEMMA IdleType ==
  /\ Idle \in Task /\ \A x : Purposeful(x, Idle)
  /\ Idle.pc = "idle" /\ Idle.listed = Nobody
BY Numbers, NobodyType DEF Idle, Task, Purposeful, Counting, Supplying

LEMMA BegunType ==
  ASSUME NEW pc \in PCs, NEW g \in 0 .. MaxGen, NEW goal \in Goals
  PROVE  /\ Begun(pc, g, goal) \in Task
         /\ Begun(pc, g, goal).pc = pc
         /\ Begun(pc, g, goal).gen = g
         /\ Begun(pc, g, goal).goal = goal
         /\ Begun(pc, g, goal).listed = Nobody
BY NobodyType DEF Begun, Task, PCs, Goals

LEMMA BegunFits ==
  ASSUME NEW x, x \notin Counters, NEW pc \in PCs, NEW g \in Gens,
         NEW goal \in {"provide", "revoke"}, pc \in Supplying => goal = "provide"
  PROVE  /\ Begun(pc, g, goal) \in Task
         /\ Begun(pc, g, goal).pc = pc
         /\ Purposeful(x, Begun(pc, g, goal))
         /\ Begun(pc, g, goal).goal = goal
         /\ Begun(pc, g, goal).listed = Nobody
<1>1. g \in 0 .. MaxGen /\ goal \in Goals /\ goal # "none"
  BY Numbers DEF Goals
<1> QED
  BY <1>1, BegunType DEF Purposeful

LEMMA GoesOnType ==
  ASSUME NEW t \in Task, NEW pc \in PCs, NEW listed \in [Users -> Access],
         NEW entries \in SUBSET Users
  PROVE  /\ GoesOn(t, pc, listed, entries) \in Task
         /\ GoesOn(t, pc, listed, entries).pc = pc
         /\ GoesOn(t, pc, listed, entries).gen = t.gen
         /\ GoesOn(t, pc, listed, entries).goal = t.goal
         /\ GoesOn(t, pc, listed, entries).listed = listed
BY DEF GoesOn, Task, PCs

LEMMA EndedType ==
  ASSUME NEW t \in Task, NEW result \in Results
  PROVE  /\ Ended(t, result) \in Task
         /\ Ended(t, result).pc = "status"
         /\ Ended(t, result).gen = t.gen
         /\ Ended(t, result).goal = t.goal
         /\ Ended(t, result).listed = Nobody
         /\ Ended(t, result).result = result
BY NobodyType DEF Ended, Task, Results

LEMMA UndoesType ==
  ASSUME NEW t \in Task, NEW pc \in PCs
  PROVE  /\ Undoes(t, pc) \in Task
         /\ Undoes(t, pc).pc = pc
         /\ Undoes(t, pc).gen = t.gen
         /\ Undoes(t, pc).goal = "revoke"
         /\ Undoes(t, pc).listed = Nobody
BY NobodyType DEF Undoes, Task, PCs

LEMMA CleanupBeginsType ==
  ASSUME kind \in Kinds
  PROVE  CleanupBegins \in {"resolve", "read acl", "delete"}
BY DEF CleanupBegins, Kinds

LEMMA OutdatedType ==
  ASSUME NEW t \in Task
  PROVE  /\ Outdated(t) \in Task
         /\ Outdated(t).pc = t.pc
         /\ Outdated(t).gen = t.gen
         /\ Outdated(t).goal = t.goal
         /\ Outdated(t).listed = t.listed
<1>1. Outdated(t) \in Task
  BY DEF Outdated, Task
<1>2. /\ Outdated(t).pc = t.pc /\ Outdated(t).gen = t.gen
      /\ Outdated(t).goal = t.goal /\ Outdated(t).listed = t.listed
  BY DEF Outdated
<1> QED
  BY <1>1, <1>2

LEMMA SecretTypes ==
  ASSUME NEW o \in SecretObject, NEW g \in 0 .. MaxGen
  PROVE  /\ Saved(o, g) \in SecretObject /\ Saved(o, g).gen = g
         /\ Unfinalized(o) \in SecretObject
         /\ Present(Unfinalized(o)) => Unfinalized(o).gen = o.gen /\ Present(o)
         /\ Marked(o) \in SecretObject
         /\ Present(Marked(o)) => Marked(o).gen = o.gen
BY Numbers
DEF SecretObject, Saved, Unfinalized, Marked, NoSecret, Present

LEMMA AfterUserType ==
  ASSUME NEW access \in Access, kind \in Kinds
  PROVE  /\ AfterUser(access) \in PCs
         /\ AfterUser(access) \notin {"create", "fill"}
         /\ AfterUser(access) = "update" => kind = "valkey" /\ access # "right"
         /\ AfterUser(access) \notin Counting
         /\ AfterUser(access) \in Providing => access = "right" \/ kind # "valkey"
BY DEF AfterUser, Kinds, Access, PCs, Counting, Providing

-----------------------------------------------------------------------------
(***************************************************************************)
(* What a task does besides its call to Aiven, in whatever way the call    *)
(* has ended: it turns to another place, with an answer that holds after   *)
(* the step, and may queue or give up the application.                     *)
(***************************************************************************)
Sound(x, t) ==
  /\ OneProcess /\ Missing(t, <<x[1][1], t.gen>>) => users'[<<x[1][1], t.gen>>] = "none"
  /\ t.pc = "update" => kind = "valkey"
  /\ \A u \in Users : t.listed[u] = "right" => users'[u] # "old"
  /\ t.goal = "provide" /\ t.pc \in Providing => users'[<<x[1][1], t.gen>>] # "old"

TurnsTo(x, t) == t \in Task /\ Purposeful(x, t) /\ task' = [task EXCEPT ![x] = t]

Turns(x) == \E t : TurnsTo(x, t) /\ Sound(x, t)

GoodReason(status) ==
  /\ OneProcess => status # 409
  /\ status = 404 => service = "gone" \/ kind = "valkey"

Queues ==
  /\ UNCHANGED <<gen, synced, secret>>
  /\ todo' \in [Keys -> BOOLEAN]
  /\ due' \in [Keys -> BOOLEAN]
  /\ givenUp' \in [Keys -> Statuses \cup {0}]
  /\ \A j \in Keys : givenUp'[j] = givenUp[j] \/ GoodReason(givenUp'[j])

Proceeds(x) == Turns(x) /\ Queues

LEMMA StaysQueues ==
  ASSUME TypeInv, Stays
  PROVE  Queues
BY DEF TypeInv, TypeOK, Stays, apps, secrets, Queues

LEMMA MovesTurns ==
  ASSUME TypeInv, NEW x \in Tasks, NEW pc \in PCs,
         NEW listed \in [Users -> Access], NEW entries \in SUBSET Users,
         Moves(x, pc, listed, entries),
         pc \notin {"create", "fill"}, pc = "update" => kind = "valkey",
         pc \in Counting \/ task[x].goal # "none",
         pc \in Supplying => task[x].goal = "provide",
         \A u \in Users : listed[u] = "right" => users'[u] # "old",
         task[x].goal = "provide" /\ pc \in Providing => users'[UserOf(x)] # "old"
  PROVE  Turns(x)
<1> DEFINE t == GoesOn(task[x], pc, listed, entries)
<1>1. task[x] \in Task /\ Purposeful(x, task[x])
  BY DEF TypeInv, TypeOK, TasksFit
<1>2. /\ t \in Task /\ t.pc = pc /\ t.gen = task[x].gen /\ t.goal = task[x].goal
      /\ t.listed = listed
  BY <1>1, GoesOnType
<1>3. task' = [task EXCEPT ![x] = t]
  BY DEF Moves
<1> HIDE DEF t
<1>4. Purposeful(x, t)
  BY <1>1, <1>2 DEF Purposeful
<1>5. Sound(x, t)
  BY <1>2 DEF Sound, Missing, UserOf
<1> QED
  BY <1>2, <1>3, <1>4, <1>5 DEF Turns, TurnsTo

LEMMA AtTurns ==
  ASSUME TypeInv, NEW x \in Tasks, NEW pc \in PCs, At(x, pc),
         pc \notin {"create", "fill"}, pc = "update" => kind = "valkey",
         pc \in Counting \/ task[x].goal # "none",
         pc \in Supplying => task[x].goal = "provide",
         task[x].goal = "provide" /\ pc \in Providing => users'[UserOf(x)] # "old"
  PROVE  Turns(x)
<1>1. Moves(x, pc, Nobody, {}) /\ {} \in SUBSET Users
  BY DEF At
<1>2. \A u \in Users : Nobody[u] = "right" => users'[u] # "old"
  BY NobodyType
<1> QED
  BY <1>1, <1>2, NobodyType, MovesTurns

LEMMA RestsTurns ==
  ASSUME NEW x, Rests(x)
  PROVE  Turns(x)
<1>1. Sound(x, Idle)
  BY IdleType, NobodyType DEF Sound, Missing, Providing
<1> QED
  BY <1>1, IdleType DEF Rests, Turns, TurnsTo

LEMMA EndsTurns ==
  ASSUME TypeInv, NEW k \in Keys, NEW result \in Results, Ends(k, result),
         task[Apply(k)].goal # "none"
  PROVE  Turns(Apply(k))
<1> DEFINE x == Apply(k)
           t == Ended(task[x], result)
<1>1. task[x] \in Task /\ Purposeful(x, task[x]) /\ task[x].goal # "none"
  BY TaskNames DEF TypeInv, TypeOK, TasksFit
<1>2. /\ t \in Task /\ t.pc = "status" /\ t.gen = task[x].gen /\ t.goal = task[x].goal
      /\ t.listed = Nobody
  BY <1>1, EndedType
<1>3. task' = [task EXCEPT ![x] = t]
  BY DEF Ends
<1> HIDE DEF t, x
<1>4. Purposeful(x, t)
  BY <1>1, <1>2 DEF Purposeful, Supplying
<1>5. Sound(x, t)
  BY <1>2, NobodyType DEF Sound, Missing, Providing
<1> QED
  BY <1>2, <1>3, <1>4, <1>5 DEF Turns, TurnsTo, x

LEMMA FailsProceeds ==
  ASSUME TypeInv, NEW k \in Keys, NEW status \in Statuses, NEW notFound,
         Fails(k, status, notFound), GoodReason(status), task[Apply(k)].goal # "none"
  PROVE  Proceeds(Apply(k))
<1> DEFINE again == RequeuedAfter(UnwrapAivenError(status, notFound))
<1>1. /\ Ends(k, IF again THEN "again" ELSE "for good")
      /\ givenUp' = [givenUp EXCEPT ![k] = IF again THEN 0 ELSE status]
      /\ UNCHANGED <<gen, synced, todo, secrets>>
  BY DEF Fails
<1> HIDE DEF again
<1>2. todo \in [Keys -> BOOLEAN] /\ due \in [Keys -> BOOLEAN]
      /\ givenUp \in [Keys -> Statuses \cup {0}]
  BY DEF TypeInv, TypeOK
<1>3. GoodReason(0)
  BY DEF GoodReason
<1>4. /\ givenUp' \in [Keys -> Statuses \cup {0}]
      /\ \A j \in Keys : givenUp'[j] = givenUp[j] \/ GoodReason(givenUp'[j])
  BY <1>1, <1>2, <1>3
<1>5. Turns(Apply(k))
  <2>1. (IF again THEN "again" ELSE "for good") \in Results
    BY DEF Results
  <2> QED
    BY <1>1, <2>1, EndsTurns
<1> QED
  BY <1>1, <1>2, <1>4, <1>5 DEF Proceeds, Queues, secrets

LEMMA FailsLocallyProceeds ==
  ASSUME TypeInv, NEW k \in Keys, FailsLocally(k), task[Apply(k)].goal # "none"
  PROVE  Proceeds(Apply(k))
<1>1. Ends(k, "again") /\ Stays /\ "again" \in Results
  BY DEF FailsLocally, Results
<1> QED
  BY <1>1, EndsTurns, StaysQueues DEF Proceeds

LEMMA NotFoundProceeds ==
  ASSUME TypeInv, NEW k \in Keys, Fails(k, 404, FALSE), GoodReason(404),
         task[Apply(k)].goal # "none"
  PROVE  Proceeds(Apply(k))
<1>1. 404 \in Statuses
  BY DEF Statuses
<1> QED
  BY <1>1, FailsProceeds

LEMMA CleanupFailsProceeds ==
  ASSUME TypeInv, NEW k \in Keys, CleanupFails(k)
  PROVE  Proceeds(Cleanup(k))
<1>1. Turns(Cleanup(k))
  BY RestsTurns DEF CleanupFails
<1>2. Queues
  BY DEF CleanupFails, TypeInv, TypeOK, Queues, apps
<1> QED
  BY <1>1, <1>2 DEF Proceeds

LEMMA CallFailsProceeds ==
  ASSUME TypeInv, NEW x \in Appliers \cup Cleaners, NEW status \in Statuses,
         CallFails(x, status), GoodReason(status), task[x].goal # "none"
  PROVE  Proceeds(x)
<1>1. CASE x \in Appliers
  <2>1. PICK k \in Keys : x = Apply(k)
    BY <1>1 DEF Appliers
  <2>2. x \notin Cleaners /\ x[1] = k
    BY <2>1, TaskNames
  <2>3. FailsLocally(k) \/ Fails(k, status, FALSE)
    BY <2>2 DEF CallFails
  <2> QED
    BY <2>1, <2>3, FailsProceeds, FailsLocallyProceeds
<1>2. CASE x \in Cleaners
  <2>1. PICK k \in Keys : x = Cleanup(k)
    BY <1>2 DEF Cleaners
  <2>2. x[1] = k
    BY <2>1, TaskNames
  <2>3. CleanupFails(k)
    BY <1>2, <2>2 DEF CallFails
  <2> QED
    BY <2>1, <2>3, CleanupFailsProceeds
<1> QED
  BY <1>1, <1>2

LEMMA DisturbedProceeds ==
  ASSUME TypeInv, NEW x \in Appliers \cup Cleaners, Disturbed(x),
         task[x].goal # "none"
  PROVE  Proceeds(x)
<1>1. GoodReason(503) /\ GoodReason(429) /\ 503 \in Statuses /\ 429 \in Statuses
  BY DEF GoodReason, Statuses
<1> QED
  BY <1>1, CallFailsProceeds DEF Disturbed

LEMMA RevokedProceeds ==
  ASSUME TypeInv, NEW x \in Appliers \cup Cleaners, Revoked(x),
         task[x].goal # "none"
  PROVE  Proceeds(x)
<1>1. CASE x \in Cleaners
  <2>1. At(x, "unfinalize") /\ Stays
    BY <1>1 DEF Revoked, Stays
  <2>2. "unfinalize" \in PCs /\ x \in Tasks
        /\ "unfinalize" \notin Providing /\ "unfinalize" \notin Supplying
    BY DEF PCs, Providing, Supplying, Tasks
  <2> QED
    BY <2>1, <2>2, AtTurns, StaysQueues DEF Proceeds
<1>2. CASE x \notin Cleaners
  <2>1. PICK k \in Keys : x = Apply(k)
    BY <1>2 DEF Appliers
  <2>2. FailsLocally(k)
    BY <1>2, <2>1, TaskNames DEF Revoked
  <2> QED
    BY <2>1, <2>2, FailsLocallyProceeds
<1> QED
  BY <1>1, <1>2

LEMMA CountedProceeds ==
  ASSUME TypeInv, NEW x \in Tasks, Counted(x),
         task[x].goal = "provide" => users'[UserOf(x)] # "old"
  PROVE  Proceeds(x)
<1>1. /\ task[x].goal \in {"none", "provide", "revoke"}
      /\ task[x].goal # "none" => x \notin Counters
      /\ kind \in Kinds
  BY DEF TypeInv, TypeOK, Task, TasksFit, Purposeful, ServiceTypeOK
<1>2. CASE task[x].goal = "provide"
  <2>1. At(x, AfterUser("right")) /\ Stays
    BY <1>2 DEF Counted
  <2>2. "right" \in Access
    BY DEF Access
  <2>3. /\ AfterUser("right") \in PCs
        /\ AfterUser("right") \notin {"create", "fill"}
        /\ AfterUser("right") # "update"
    BY <1>1, <2>2, AfterUserType
  <2> QED
    BY <1>2, <2>1, <2>3, AtTurns, StaysQueues DEF Proceeds
<1>3. CASE task[x].goal = "revoke"
  <2>1. Revoked(x) /\ x \in Appliers \cup Cleaners
    BY <1>1, <1>3 DEF Counted, Tasks
  <2> QED
    BY <1>3, <2>1, RevokedProceeds
<1>4. CASE task[x].goal = "none"
  <2>1. Rests(x) /\ Stays
    BY <1>4 DEF Counted
  <2> QED
    BY <2>1, RestsTurns, StaysQueues DEF Proceeds
<1> QED
  BY <1>1, <1>2, <1>3, <1>4


-----------------------------------------------------------------------------
(***************************************************************************)
(* What a call does to the service, the caches and the bounds; and what    *)
(* the two together keep.                                                  *)
(***************************************************************************)
Bounded == changes' \in 0 .. MaxChanges /\ faults' \in 0 .. MaxFaults

Serves(x) ==
  /\ kind' = kind
  /\ service = "gone" => service' = "gone"
  /\ ServiceTypeOK'
  /\ GoneLeavesNothing'
  /\ \A u \in Users :
       /\ users'[u] \in {users[u], "none"} \/ x \in AppliersOf(u[1])
       /\ users'[u] = "old" => users[u] = "old"
  /\ \A p \in Processes : Shows(cached[p])'
  /\ Bounded

\* The task is where it was, for the user it was for.
Unmoved(x) ==
  /\ task'[x].pc = task[x].pc
  /\ task'[x].gen = task[x].gen
  /\ task'[x].goal = task[x].goal
  /\ task'[x].listed = task[x].listed

LEMMA AnswerKept ==
  ASSUME TypeInv, NEW k \in Keys, AnswerHolds(k), kind' = kind,
         Unmoved(Apply(k)),
         OneProcess =>
           \A u \in Users : u[1] = k[1] => users'[u] \in {users[u], "none"}
  PROVE  AnswerHolds(k)'
<1> DEFINE t == task[Apply(k)]
           u == <<k[1], t.gen>>
<1>1. UserOf(Apply(k)) = u /\ UserOf(Apply(k))' = u
  BY TaskNames DEF UserOf, Unmoved
<1>2. Purposeful(Apply(k), t)
  BY TaskNames DEF TypeInv, TasksFit
<1>3. Missing(t, u) => u \in Users /\ u[1] = k[1]
  BY <1>2, TaskNames DEF Missing, Purposeful, Counting, Users
<1> QED
  BY <1>1, <1>3 DEF AnswerHolds, Unmoved, Missing

LEMMA ReasonsKept ==
  ASSUME ReasonsHold, kind' = kind, service = "gone" => service' = "gone",
         \A j \in Keys : givenUp'[j] = givenUp[j] \/ GoodReason(givenUp'[j])
  PROVE  ReasonsHold'
BY DEF ReasonsHold, GoodReason

LEMMA TurnsKeepTypes ==
  ASSUME TypeInv, NEW x \in Tasks, Turns(x)
  PROVE  task' \in [Tasks -> Task] /\ TasksFit'
<1>1. PICK t : TurnsTo(x, t)
  BY DEF Turns
<1>2. t \in Task /\ Purposeful(x, t) /\ task' = [task EXCEPT ![x] = t]
  BY <1>1 DEF TurnsTo
<1>3. task \in [Tasks -> Task] /\ \A y \in Tasks : Purposeful(y, task[y])
  BY DEF TypeInv, TypeOK, TasksFit
<1>4. \A y \in Tasks : task'[y] = IF y = x THEN t ELSE task[y]
  BY <1>2, <1>3
<1>5. \A y \in Tasks : Purposeful(y, task'[y])
  BY <1>2, <1>3, <1>4
<1> QED
  BY <1>2, <1>3, <1>5, Zenon DEF TasksFit, Purposeful

\* What tells of right access still does, when no user gets an old one.
LEMMA OldnessKept ==
  ASSUME TypeInv, NoneOlder, kind' = kind,
         \A p \in Processes : Shows(cached[p])',
         \A u \in Users : users'[u] = "old" => users[u] = "old",
         \A x \in Tasks :
           /\ \A u \in Users : task'[x].listed[u] = "right" => users'[u] # "old"
           /\ \/ /\ task'[x].goal = task[x].goal
                 /\ task'[x].pc = task[x].pc
                 /\ task'[x].gen = task[x].gen
              \/ task'[x].goal = "provide" /\ task'[x].pc \in Providing
                   => users'[<<x[1][1], task'[x].gen>>] # "old"
  PROVE  NoneOlder'
<1>1. ASSUME NEW x \in Tasks
      PROVE  Provided(x)'
  <2>1. UserOf(x)' = <<x[1][1], task'[x].gen>> /\ UserOf(x) = <<x[1][1], task[x].gen>>
    BY DEF UserOf
  <2>2. CASE /\ task'[x].goal = task[x].goal
             /\ task'[x].pc = task[x].pc
             /\ task'[x].gen = task[x].gen
    <3>1. task[x].goal = "provide" => UserOf(x) \in Users
      BY TaskNames DEF TypeInv, TasksFit, Purposeful, UserOf, Users, Tasks, Appliers, Cleaners
    <3> QED
      BY <2>1, <2>2, <3>1 DEF NoneOlder, Provided
  <2>3. CASE task'[x].goal = "provide" /\ task'[x].pc \in Providing
               => users'[<<x[1][1], task'[x].gen>>] # "old"
    BY <2>1, <2>3 DEF Provided
  <2> QED
    BY <2>2, <2>3
<1>2. \A x \in Tasks : Shows(task[x].listed)'
  BY DEF Shows
<1> QED
  BY <1>1, <1>2 DEF NoneOlder

\* A task's own step keeps the invariant.
LEMMA OwnSteps ==
  ASSUME IInv, NEW x \in Tasks, Proceeds(x), Serves(x)
  PROVE  IInv'
<1>1. TypeInv /\ Turns(x) /\ Queues
  BY DEF IInv, Proceeds
<1>2. task' \in [Tasks -> Task] /\ TasksFit'
  BY <1>1, TurnsKeepTypes
<1>3. TypeOK'
  BY <1>1, <1>2 DEF TypeInv, TypeOK, Queues, Serves, Bounded
<1>4. SecretsFit'
  BY <1>1 DEF TypeInv, SecretsFit, Queues
<1>5. ASSUME NEW k \in Keys
      PROVE  AnswerHolds(k)'
  <2>1. CASE x = Apply(k)
    <3>1. PICK t : TurnsTo(x, t) /\ Sound(x, t)
      BY <1>1 DEF Turns
    <3>2. task'[Apply(k)] = t
      BY <1>1, <2>1, <3>1, TaskNames DEF TurnsTo, TypeInv, TypeOK
    <3>3. UserOf(Apply(k))' = <<x[1][1], t.gen>>
      BY <2>1, <3>2, TaskNames DEF UserOf
    <3>4. kind' = kind
      BY DEF Serves
    <3> QED
      BY <3>1, <3>2, <3>3, <3>4 DEF AnswerHolds, Sound
  <2>2. CASE x # Apply(k)
    <3>1. task'[Apply(k)] = task[Apply(k)]
      <4>1. PICK t : TurnsTo(x, t)
        BY <1>1 DEF Turns
      <4> QED
        BY <1>1, <2>2, <4>1, TaskNames DEF TurnsTo, TypeInv, TypeOK
    <3>2. Unmoved(Apply(k))
      BY <3>1 DEF Unmoved
    <3>3. OneProcess => \A u \in Users : u[1] = k[1] => users'[u] \in {users[u], "none"}
      BY <2>2, OnlyRun DEF Serves
    <3> QED
      BY <1>1, <3>2, <3>3, AnswerKept DEF IInv, Serves
  <2> QED
    BY <2>1, <2>2
<1>6. ReasonsHold'
  BY <1>1, ReasonsKept DEF IInv, Serves, Queues
<1>7. NoneOlder'
  <2>1. PICK t : TurnsTo(x, t) /\ Sound(x, t)
    BY <1>1 DEF Turns
  <2>2. \A y \in Tasks : task'[y] = IF y = x THEN t ELSE task[y]
    BY <1>1, <2>1 DEF TurnsTo, TypeInv, TypeOK
  <2>3. \A y \in Tasks \ {x} : \A u \in Users : task'[y].listed[u] = "right" => users'[u] # "old"
    BY <2>2 DEF IInv, NoneOlder, Shows, Serves
  <2>4. \A u \in Users : users'[u] = "old" => users[u] = "old"
    BY DEF Serves
  <2> QED
    BY <1>1, <2>1, <2>2, <2>3, <2>4, OldnessKept DEF IInv, Sound, Serves
<1> QED
  BY <1>2, <1>3, <1>4, <1>5, <1>6, <1>7 DEF IInv, TypeInv, Serves

LEMMA FaultBounded ==
  ASSUME TypeInv, NEW what, Fault(what)
  PROVE  Bounded
BY HandlersAssumption DEF TypeInv, TypeOK, Fault, Bounded

LEMMA ChangeBounded ==
  ASSUME TypeInv, NEW what, Change(what)
  PROVE  Bounded
BY HandlersAssumption DEF TypeInv, TypeOK, Change, Bounded

LEMMA SameBounded ==
  ASSUME TypeInv, UNCHANGED bounds
  PROVE  Bounded
BY DEF TypeInv, TypeOK, bounds, Bounded

LEMMA DisturbedBounded ==
  ASSUME TypeInv, NEW x, Disturbed(x)
  PROVE  Bounded
BY FaultBounded DEF Disturbed

\* A call that changes nothing in Aiven.
LEMMA ReadsServe ==
  ASSUME IInv, NEW x, UNCHANGED <<kind, aiven>>, Bounded,
         known' \in [Processes -> BOOLEAN],
         \/ cached' = cached
         \/ \E p \in Processes : \E y \in Tasks : cached' = FillCache(p, task[y].listed)
  PROVE  Serves(x)
<1>1. users' = users
  BY DEF aiven
<1>2. /\ cached \in [Processes -> [Users -> Access]]
      /\ \A y \in Tasks : task[y].listed \in [Users -> Access]
      /\ \A p \in Processes : Shows(cached[p])
      /\ \A y \in Tasks : Shows(task[y].listed)
  BY DEF IInv, TypeInv, TypeOK, ServiceTypeOK, Task, NoneOlder
<1>3. /\ \A p \in Processes : Shows(cached[p])'
      /\ cached' \in [Processes -> [Users -> Access]]
  <2>1. CASE cached' = cached
    BY <1>1, <1>2, <2>1 DEF Shows
  <2>2. ASSUME NEW p \in Processes, NEW y \in Tasks, cached' = FillCache(p, task[y].listed)
        PROVE  /\ \A q \in Processes : Shows(cached[q])'
               /\ cached' \in [Processes -> [Users -> Access]]
    <3>1. Filled(cached[p], task[y].listed) \in [Users -> Access]
      BY <1>2 DEF Filled
    <3>2. \A u \in Users : Filled(cached[p], task[y].listed)[u] = "right" => users[u] # "old"
      BY <1>2 DEF Filled, Shows
    <3>3. cached' = [cached EXCEPT ![p] = Filled(cached[p], task[y].listed)]
      BY <2>2 DEF FillCache
    <3>4. \A q \in Processes : Shows(cached[q])'
      BY <1>1, <1>2, <3>2, <3>3 DEF Shows
    <3> QED
      BY <1>2, <3>1, <3>3, <3>4
  <2> QED
    BY <2>1, <2>2
<1> QED
  BY <1>1, <1>3 DEF IInv, TypeInv, TypeOK, ServiceTypeOK, GoneLeavesNothing, aiven, Serves

LEMMA CacheTypes ==
  ASSUME TypeInv
  PROVE  /\ cached \in [Processes -> [Users -> Access]]
         /\ known \in [Processes -> BOOLEAN]
         /\ \A p, u : Recached(p, u) \in [Processes -> [Users -> Access]]
         /\ \A p, u : Uncached(p, u) \in [Processes -> [Users -> Access]]
         /\ \A p : AskedFor(p) \in [Processes -> BOOLEAN]
<1>1. /\ cached \in [Processes -> [Users -> Access]]
      /\ known \in [Processes -> BOOLEAN]
      /\ "right" \in Access /\ "none" \in Access
  BY DEF TypeInv, TypeOK, ServiceTypeOK, Access
<1>2. ASSUME NEW p, NEW u, NEW access \in Access
      PROVE  [cached EXCEPT ![p] = [cached[p] EXCEPT ![u] = access]]
               \in [Processes -> [Users -> Access]]
  <2>1. p \in Processes => [cached[p] EXCEPT ![u] = access] \in [Users -> Access]
    BY <1>1
  <2> QED
    BY <1>1, <2>1
<1> QED
  BY <1>1, <1>2 DEF Recached, Uncached, AskedFor

-----------------------------------------------------------------------------
(***************************************************************************)
(* The calls of a task.                                                    *)
(***************************************************************************)
LEMMA TaskFacts ==
  ASSUME TypeInv, NEW x \in Tasks
  PROVE  /\ task[x] \in Task
         /\ task[x].pc \notin Counting => /\ x \in Appliers \cup Cleaners
                                          /\ task[x].goal # "none"
                                          /\ task[x].gen \in Gens
         /\ UserOf(x) = <<x[1][1], task[x].gen>>
<1>1. task[x] \in Task /\ Purposeful(x, task[x])
  BY DEF TypeInv, TypeOK, TasksFit
<1> QED
  BY <1>1, TaskNames DEF Purposeful, Tasks, UserOf

LEMMA OwnUser ==
  ASSUME TypeInv, NEW x \in Appliers \cup Cleaners, task[x].gen \in Gens
  PROVE  UserOf(x) \in Users
<1>1. x[1][1] \in Apps
  BY TaskNames DEF Appliers, Cleaners
<1> QED
  BY <1>1 DEF UserOf, Users

\* A run that is past the providing of its user still is after a step that
\* changes no user.
LEMMA StillProvided ==
  ASSUME IInv, NEW x \in Tasks, users' = users, task[x].pc \in Providing
  PROVE  task[x].goal = "provide" => users'[UserOf(x)] # "old"
BY DEF IInv, NoneOlder, Provided

LEMMA CountSteps ==
  ASSUME IInv, NEW x \in Tasks, Count(x)
  PROVE  Proceeds(x) /\ Serves(x)
<1>1. TypeInv /\ task[x] \in Task /\ users \in [Users -> Access]
  BY TaskFacts DEF IInv, TypeInv, TypeOK, ServiceTypeOK
<1>2. Bounded
  BY <1>1, SameBounded, FaultBounded DEF Count
<1>3. Serves(x)
  BY <1>1, <1>2, ReadsServe, CacheTypes DEF Count, memory
<1>4. users' = users /\ task[x].pc \in Providing
  BY DEF Count, aiven, Providing
<1>5. CASE Moves(x, "count fill", users, {}) /\ Stays
  <2>1. /\ {} \in SUBSET Users /\ "count fill" \in PCs /\ "count fill" \in Counting
        /\ "count fill" \notin Supplying
    BY DEF PCs, Counting, Supplying
  <2>2. Turns(x)
    BY <1>1, <1>4, <1>5, <2>1, StillProvided, MovesTurns
  <2> QED
    BY <1>1, <1>3, <1>5, <2>2, StaysQueues DEF Proceeds
<1>6. CASE Counted(x)
  BY <1>1, <1>3, <1>4, <1>6, StillProvided, CountedProceeds
<1> QED
  BY <1>3, <1>5, <1>6 DEF Count

LEMMA CountFillSteps ==
  ASSUME IInv, NEW x \in Tasks, CountFill(x)
  PROVE  Proceeds(x) /\ Serves(x)
<1>1. TypeInv /\ task[x].listed \in [Users -> Access]
  BY TaskFacts DEF IInv, Task
<1>2. Bounded
  BY <1>1, SameBounded DEF CountFill
<1>3. known' \in [Processes -> BOOLEAN] /\ Process(x) \in Processes
  BY <1>1, CacheTypes, TaskNames DEF CountFill
<1>4. Serves(x)
  BY <1>2, <1>3, ReadsServe DEF CountFill
<1>5. users' = users /\ task[x].pc \in Providing
  BY DEF CountFill, aiven, Providing
<1> QED
  BY <1>1, <1>4, <1>5, StillProvided, CountedProceeds DEF CountFill

LEMMA ReadACLSteps ==
  ASSUME IInv, NEW x \in Tasks, ReadACL(x)
  PROVE  Proceeds(x) /\ Serves(x)
<1>1. TypeInv /\ acl \in SUBSET Users
  BY DEF IInv, TypeInv, TypeOK, ServiceTypeOK
<1>2. /\ task[x] \in Task /\ task[x].goal # "none"
      /\ x \in Appliers \cup Cleaners /\ task[x].gen \in Gens
  BY <1>1, TaskFacts DEF ReadACL, Counting
<1>3. Bounded
  BY <1>1, SameBounded, DisturbedBounded DEF ReadACL
<1>4. Serves(x)
  BY <1>1, <1>3, ReadsServe, CacheTypes DEF ReadACL, memory
<1>5. CASE At(x, "delete") /\ Stays
  BY <1>1, <1>2, <1>4, <1>5, AtTurns, StaysQueues DEF PCs, Providing, Supplying, Proceeds
<1>6. CASE Moves(x, "write acl", Nobody, acl) /\ Stays
  <2>1. "write acl" \in PCs /\ users' = users /\ task[x].pc \in Providing
        /\ "write acl" \notin Supplying
        /\ \A u \in Users : Nobody[u] = "right" => users'[u] # "old"
    BY NobodyType DEF PCs, ReadACL, aiven, Providing, Supplying
  <2>2. Turns(x)
    BY <1>1, <1>2, <1>6, <2>1, NobodyType, StillProvided, MovesTurns
  <2> QED
    BY <1>1, <1>4, <1>6, <2>2, StaysQueues DEF Proceeds
<1>7. CASE service = "gone" /\ CallFails(x, 404)
  BY <1>1, <1>2, <1>4, <1>7, CallFailsProceeds DEF GoodReason, Statuses
<1>8. CASE Disturbed(x)
  BY <1>1, <1>2, <1>4, <1>8, DisturbedProceeds
<1> QED
  BY <1>4, <1>5, <1>6, <1>7, <1>8 DEF ReadACL

LEMMA WriteACLSteps ==
  ASSUME IInv, NEW x \in Tasks, WriteACL(x)
  PROVE  Proceeds(x) /\ Serves(x)
<1>1. TypeInv /\ acl \in SUBSET Users
  BY DEF IInv, TypeInv, TypeOK, ServiceTypeOK
<1>2. /\ task[x] \in Task /\ task[x].goal # "none" /\ task[x].acl \in SUBSET Users
      /\ x \in Appliers \cup Cleaners /\ task[x].gen \in Gens
  BY <1>1, TaskFacts DEF WriteACL, Counting, Task
<1>3. Bounded
  BY <1>1, SameBounded, FaultBounded, DisturbedBounded DEF WriteACL
<1>4. NewACL(x) \in SUBSET Users
  BY <1>1, <1>2, OwnUser DEF NewACL
<1>5. acl' \in SUBSET Users /\ UNCHANGED <<kind, service, users, memory>>
  BY <1>1, <1>4 DEF WriteACL
<1>6. Serves(x)
  <2>1. \A p \in Processes : Shows(cached[p])'
    BY <1>5 DEF IInv, NoneOlder, Shows, memory
  <2> QED
    BY <1>3, <1>5, <2>1 DEF IInv, TypeInv, TypeOK, ServiceTypeOK, GoneLeavesNothing, memory, Serves
<1>7. CASE At(x, IF task[x].goal = "revoke" THEN "delete" ELSE "save") /\ Stays
  <2>1. At(x, "delete") \/ (At(x, "save") /\ task[x].goal = "provide")
    BY <1>2, <1>7 DEF Task
  <2>2. users' = users /\ task[x].pc \in Providing /\ "delete" \notin Supplying
    BY <1>5 DEF WriteACL, Providing, Supplying
  <2> QED
    BY <1>1, <1>2, <1>6, <1>7, <2>1, <2>2, StillProvided, AtTurns, StaysQueues
    DEF PCs, Proceeds
<1>8. CASE service = "gone" /\ CallFails(x, 404)
  BY <1>1, <1>2, <1>6, <1>8, CallFailsProceeds DEF GoodReason, Statuses
<1>9. CASE Disturbed(x)
  BY <1>1, <1>2, <1>6, <1>9, DisturbedProceeds
<1>10. CASE CallFails(x, 503)
  BY <1>1, <1>2, <1>6, <1>10, CallFailsProceeds DEF GoodReason, Statuses
<1> QED
  BY <1>6, <1>7, <1>8, <1>9, <1>10 DEF WriteACL

LEMMA DeletionServes ==
  ASSUME IInv, NEW x, NEW u, NEW p, users' \in {users, Deleted(u)},
         UNCHANGED <<kind, service, acl, known>>,
         cached' \in {cached, Uncached(p, u)}, Bounded
  PROVE  Serves(x)
<1>1. /\ users \in [Users -> Access] /\ "none" \in Access
      /\ cached \in [Processes -> [Users -> Access]]
  BY DEF IInv, TypeInv, TypeOK, ServiceTypeOK, Access
<1>2. /\ users' \in [Users -> Access]
      /\ \A v \in Users : users'[v] \in {users[v], "none"}
  BY <1>1 DEF Deleted
<1>3. GoneLeavesNothing'
  BY <1>2 DEF IInv, GoneLeavesNothing
<1>4. cached' \in [Processes -> [Users -> Access]]
  BY CacheTypes DEF IInv
<1>5. \A q \in Processes : \A v \in Users :
        cached'[q][v] = "right" => cached[q][v] = "right"
  BY <1>1 DEF Uncached
<1>6. \A q \in Processes : Shows(cached[q])'
  BY <1>2, <1>5 DEF IInv, NoneOlder, Shows
<1> QED
  BY <1>2, <1>3, <1>4, <1>6 DEF IInv, TypeInv, TypeOK, ServiceTypeOK, Serves

LEMMA DeletionFailsProceeds ==
  ASSUME TypeInv, NEW x \in Appliers \cup Cleaners, task[x].goal # "none",
         NEW status \in {503, 429}, DeletionFails(x, status)
  PROVE  Proceeds(x)
<1>1. status \in Statuses /\ GoodReason(status)
  BY DEF Statuses, GoodReason
<1>2. Revoked(x) \/ CallFails(x, status)
  BY DEF DeletionFails
<1> QED
  BY <1>1, <1>2, RevokedProceeds, CallFailsProceeds

LEMMA DeleteUserSteps ==
  ASSUME IInv, NEW x \in Tasks, DeleteUser(x)
  PROVE  Proceeds(x) /\ Serves(x)
<1>1. TypeInv
  BY DEF IInv
<1>2. /\ task[x] \in Task /\ task[x].goal # "none" /\ x \in Appliers \cup Cleaners
  BY <1>1, TaskFacts DEF DeleteUser, Counting
<1>3. Bounded
  BY <1>1, SameBounded, FaultBounded DEF DeleteUser
<1>4. /\ users' \in {users, Deleted(UserOf(x))}
      /\ cached' \in {cached, Uncached(Process(x), UserOf(x))}
      /\ UNCHANGED <<kind, service, acl, known>>
  BY DEF DeleteUser
<1>5. Serves(x)
  BY <1>3, <1>4, DeletionServes
<1>6. CASE users' = Deleted(UserOf(x)) /\ At(x, "count") /\ Stays
  <2>1. UserOf(x) \in Users /\ users \in [Users -> Access]
    BY <1>1, OwnUser, TaskFacts DEF DeleteUser, Counting, TypeInv, TypeOK, ServiceTypeOK
  <2>2. users'[UserOf(x)] = "none"
    BY <1>6, <2>1 DEF Deleted
  <2>3. /\ "count" \in PCs /\ "count" \notin {"create", "fill"}
        /\ "count" \in Counting /\ "count" \notin Supplying
    BY DEF PCs, Counting, Supplying
  <2> QED
    BY <1>1, <1>5, <1>6, <2>2, <2>3, AtTurns, StaysQueues DEF Proceeds
<1>7. CASE Revoked(x)
  BY <1>1, <1>2, <1>5, <1>7, RevokedProceeds
<1>8. CASE DeletionFails(x, 503) \/ DeletionFails(x, 429)
  BY <1>1, <1>2, <1>5, <1>8, DeletionFailsProceeds
<1> QED
  BY <1>5, <1>6, <1>7, <1>8 DEF DeleteUser

LEMMA ResolveNameSteps ==
  ASSUME IInv, NEW x \in Tasks, ResolveName(x)
  PROVE  Proceeds(x) /\ Serves(x)
<1>1. TypeInv
  BY DEF IInv
<1>2. /\ x \in Appliers \cup Cleaners /\ task[x].goal # "none"
  BY <1>1, TaskFacts DEF ResolveName, Counting
<1>3. Bounded
  BY <1>1, SameBounded, DisturbedBounded DEF ResolveName
<1>4. Serves(x)
  BY <1>1, <1>3, ReadsServe, CacheTypes DEF ResolveName, memory
<1>5. CASE At(x, "delete") /\ Stays
  BY <1>1, <1>2, <1>4, <1>5, AtTurns, StaysQueues DEF PCs, Providing, Supplying, Proceeds
<1>6. CASE Disturbed(x)
  BY <1>1, <1>2, <1>4, <1>6, DisturbedProceeds
<1> QED
  BY <1>4, <1>5, <1>6 DEF ResolveName

LEMMA SharedSteps ==
  ASSUME IInv, NEW x \in Tasks, Shared(x)
  PROVE  IInv'
BY OwnSteps, CountSteps, CountFillSteps, ReadACLSteps, WriteACLSteps,
   ResolveNameSteps, DeleteUserSteps DEF Shared

-----------------------------------------------------------------------------
(***************************************************************************)
(* Apply.                                                                  *)
(***************************************************************************)
LEMMA Applying ==
  ASSUME TypeInv, NEW k \in Keys, task[Apply(k)].pc \notin Counting
  PROVE  /\ Apply(k) \in Tasks /\ Apply(k) \in Appliers \cup Cleaners
         /\ task[Apply(k)] \in Task
         /\ task[Apply(k)].goal # "none"
         /\ task[Apply(k)].pc \in Supplying => task[Apply(k)].goal = "provide"
         /\ task[Apply(k)].gen \in Gens
         /\ UserOf(Apply(k)) = <<k[1], task[Apply(k)].gen>>
         /\ UserOf(Apply(k)) \in Users
         /\ kind \in Kinds
<1>1. Apply(k) \in Tasks /\ Apply(k) \in Appliers \cup Cleaners /\ Apply(k)[1] = k
  BY TaskNames
<1>2. kind \in Kinds
  BY DEF TypeInv, TypeOK, ServiceTypeOK
<1>3. task[Apply(k)].pc \in Supplying => task[Apply(k)].goal = "provide"
  BY <1>1 DEF TypeInv, TasksFit, Purposeful
<1> QED
  BY <1>1, <1>2, <1>3, TaskFacts, OwnUser

\* It goes on to a place that goes by no answer.
LEMMA ApplyGoesOn ==
  ASSUME TypeInv, NEW k \in Keys, task[Apply(k)].pc \notin Counting,
         task[Apply(k)].pc \in Supplying,
         NEW pc \in PCs, pc \notin {"create", "fill"}, pc = "update" => kind = "valkey",
         At(Apply(k), pc), Stays,
         pc \in Providing => users'[UserOf(Apply(k))] # "old"
  PROVE  Proceeds(Apply(k))
BY Applying, AtTurns, StaysQueues DEF Proceeds

LEMMA LookUpSteps ==
  ASSUME IInv, NEW k \in Keys, LookUp(k)
  PROVE  Proceeds(Apply(k)) /\ Serves(Apply(k))
<1> DEFINE x == Apply(k)
           next == IF cached[k[2]][UserOf(x)] = "none" THEN CacheMiss
                   ELSE AfterUser(cached[k[2]][UserOf(x)])
<1>1. TypeInv /\ task[x].pc \notin Counting
  BY DEF IInv, LookUp, Counting
<1>2. task[x].pc \in Supplying
  BY DEF LookUp, Supplying
<1>3. /\ x \in Appliers \cup Cleaners /\ kind \in Kinds /\ k[2] \in Processes
      /\ task[x].goal # "none"
      /\ cached[k[2]][UserOf(x)] \in Access
  BY <1>1, Applying, CacheTypes, TaskNames
<1>4. /\ next \in PCs /\ next \notin {"create", "fill"} /\ (next = "update" => kind = "valkey")
      /\ next \in Providing => cached[k[2]][UserOf(x)] = "right" \/ kind # "valkey"
  BY <1>3, AfterUserType DEF CacheMiss, PCs, Providing
<1>5. Bounded
  BY <1>1, SameBounded, DisturbedBounded DEF LookUp
<1>6. Serves(x)
  BY <1>1, <1>5, ReadsServe, CacheTypes DEF LookUp
<1> HIDE DEF next
<1>7. CASE At(x, next) /\ Stays
  <2>1. UserOf(x) \in Users /\ users' = users
    BY <1>1, Applying DEF LookUp, aiven
  <2>2. next \in Providing => users'[UserOf(x)] # "old"
    BY <1>3, <1>4, <2>1 DEF IInv, NoneOlder, Shows
  <2> QED
    BY <1>1, <1>2, <1>4, <1>6, <1>7, <2>2, ApplyGoesOn
<1>8. CASE FailsLocally(k)
  BY <1>1, <1>3, <1>6, <1>8, FailsLocallyProceeds
<1>9. CASE service = "gone" /\ Fails(k, 404, kind = "valkey")
  <2>1. 404 \in Statuses /\ GoodReason(404)
    BY <1>9 DEF Statuses, GoodReason
  <2> QED
    BY <1>1, <1>3, <1>6, <1>9, <2>1, FailsProceeds
<1>10. CASE Disturbed(x)
  BY <1>1, <1>3, <1>6, <1>10, DisturbedProceeds
<1> QED
  BY <1>7, <1>8, <1>9, <1>10, Zenon DEF LookUp, next

LEMMA ListSteps ==
  ASSUME IInv, NEW k \in Keys, List(k)
  PROVE  Proceeds(Apply(k)) /\ Serves(Apply(k))
<1> DEFINE x == Apply(k)
           u == UserOf(x)
<1>1. TypeInv /\ task[x].pc \notin Counting
  BY DEF IInv, List, Counting
<1>2. /\ x \in Tasks /\ x \in Appliers \cup Cleaners /\ u \in Users /\ x[1] = k
      /\ u = <<k[1], task[x].gen>> /\ task[x] \in Task
      /\ Purposeful(x, task[x]) /\ task[x].goal = "provide"
      /\ users \in [Users -> Access] /\ users' = users
  BY <1>1, Applying, TaskNames
     DEF TypeInv, TypeOK, TasksFit, ServiceTypeOK, List, aiven, Supplying
<1>3. Bounded
  BY <1>1, SameBounded, DisturbedBounded DEF List
<1>4. Serves(x)
  BY <1>1, <1>3, ReadsServe, CacheTypes DEF List, memory
<1>5. ASSUME NEW pc \in {"fill", "create"}, NEW listed \in [Users -> Access],
             Moves(x, pc, listed, {}), Stays,
             pc = "create" \/ listed[u] = "none" => users[u] = "none",
             \A v \in Users : listed[v] = "right" => users[v] # "old"
      PROVE  Proceeds(x)
  <2> DEFINE t == GoesOn(task[x], pc, listed, {})
  <2>1. pc \in PCs /\ {} \in SUBSET Users
    BY DEF PCs
  <2>2. /\ t \in Task /\ t.pc = pc /\ t.gen = task[x].gen /\ t.goal = task[x].goal
        /\ t.listed = listed
    BY <1>2, <2>1, GoesOnType
  <2>3. task' = [task EXCEPT ![x] = t]
    BY <1>5 DEF Moves
  <2> HIDE DEF t
  <2>4. Purposeful(x, t)
    BY <1>2, <2>2 DEF Purposeful
  <2>5. Sound(x, t)
    BY <1>2, <1>5, <2>2 DEF Sound, Missing, Providing
  <2> QED
    BY <1>1, <1>5, <2>2, <2>3, <2>4, <2>5, StaysQueues DEF Proceeds, Turns, TurnsTo
<1>6. CASE Moves(x, "fill", users, {}) /\ Stays
  <2>1. \A v \in Users : users[v] = "right" => users[v] # "old"
    OBVIOUS
  <2> QED
    BY <1>2, <1>4, <1>5, <1>6, <2>1
<1>7. CASE service = "gone" /\ At(x, "create") /\ Stays
  <2>1. users[u] = "none"
    BY <1>2, <1>7 DEF IInv, GoneLeavesNothing
  <2> QED
    BY <1>4, <1>5, <1>7, <2>1, NobodyType DEF At
<1>8. CASE Disturbed(x)
  BY <1>1, <1>2, <1>4, <1>8, DisturbedProceeds
<1> QED
  BY <1>6, <1>7, <1>8 DEF List

LEMMA FillSteps ==
  ASSUME IInv, NEW k \in Keys, Fill(k)
  PROVE  Proceeds(Apply(k)) /\ Serves(Apply(k))
<1> DEFINE x == Apply(k)
           u == UserOf(x)
           access == task[x].listed[u]
<1>1. TypeInv /\ task[x].pc \notin Counting /\ task[x].pc = "fill" /\ Stays
  BY DEF IInv, Fill, Counting, Stays
<1>2. /\ x \in Tasks /\ x[1] = k /\ k[2] \in Processes /\ u \in Users /\ kind \in Kinds
      /\ u = <<k[1], task[x].gen>> /\ task[x] \in Task
      /\ Purposeful(x, task[x]) /\ task[x].goal = "provide"
      /\ task[x].listed \in [Users -> Access]
      /\ users' = users
  BY <1>1, Applying, TaskNames
     DEF TypeInv, TypeOK, TasksFit, Task, Fill, aiven, Supplying
<1>3. access \in Access
  BY <1>2
<1>4. Bounded
  BY <1>1, SameBounded DEF Fill
<1>5. Serves(x)
  BY <1>1, <1>2, <1>4, ReadsServe, CacheTypes DEF Fill
<1>6. At(x, IF access = "none" THEN "create" ELSE AfterUser(access))
  BY DEF Fill
<1>7. CASE access = "none"
  <2> DEFINE t == GoesOn(task[x], "create", Nobody, {})
  <2>1. "create" \in PCs /\ {} \in SUBSET Users
    BY DEF PCs
  <2>2. /\ t \in Task /\ t.pc = "create" /\ t.gen = task[x].gen /\ t.goal = task[x].goal
        /\ t.listed = Nobody
    BY <1>2, <2>1, NobodyType, GoesOnType
  <2>3. task' = [task EXCEPT ![x] = t]
    BY <1>6, <1>7 DEF At, Moves
  <2> HIDE DEF t
  <2>4. OneProcess => users[u] = "none"
    BY <1>1, <1>7 DEF IInv, AnswerHolds, Missing
  <2>5. Purposeful(x, t)
    BY <1>2, <2>2 DEF Purposeful
  <2>6. Sound(x, t)
    BY <1>2, <2>2, <2>4, NobodyType DEF Sound, Providing
  <2> QED
    BY <1>1, <1>5, <2>2, <2>3, <2>5, <2>6, StaysQueues DEF Proceeds, Turns, TurnsTo
<1>8. CASE access # "none"
  <2>1. At(x, AfterUser(access))
    BY <1>6, <1>8
  <2>2. AfterUser(access) \in Providing => users'[u] # "old"
    BY <1>2, <1>3, AfterUserType DEF IInv, NoneOlder, Shows
  <2> QED
    BY <1>1, <1>2, <1>3, <1>5, <2>1, <2>2, AfterUserType, ApplyGoesOn DEF Supplying
<1> QED
  BY <1>7, <1>8

\* A call that makes or changes the run's own user.
LEMMA UserServes ==
  ASSUME IInv, NEW k \in Keys, task[Apply(k)].pc \notin Counting,
         users' = users \/ (service # "gone" /\ users' = Created(UserOf(Apply(k)))),
         UNCHANGED <<kind, service, acl, known>>, Bounded,
         \/ cached' = cached
         \/ /\ cached' = Recached(k[2], UserOf(Apply(k)))
            /\ users' = Created(UserOf(Apply(k)))
  PROVE  Serves(Apply(k))
<1> DEFINE u == UserOf(Apply(k))
<1>1. /\ users \in [Users -> Access] /\ "right" \in Access
      /\ cached \in [Processes -> [Users -> Access]]
      /\ u = <<k[1], task[Apply(k)].gen>>
  BY Applying DEF IInv, TypeInv, TypeOK, ServiceTypeOK, Access
<1>2. u[1] = k[1] /\ Apply(k) \in AppliersOf(k[1])
  BY <1>1 DEF AppliersOf, KeysOf, Keys
<1> HIDE DEF u
<1>3. users' = users \/ users' = [users EXCEPT ![u] = "right"]
  BY DEF Created, u
<1>4. /\ users' \in [Users -> Access]
      /\ \A v \in Users : users'[v] = users[v] \/ v = u
  BY <1>1, <1>3
<1>5. GoneLeavesNothing'
  BY DEF IInv, GoneLeavesNothing
<1>6. \A v \in Users : users'[v] = "old" => users[v] = "old"
  BY <1>1, <1>3
<1>7. cached' \in [Processes -> [Users -> Access]]
  BY CacheTypes DEF IInv
<1>8. \A p \in Processes : Shows(cached[p])'
  <2>1. CASE cached' = cached
    BY <1>1, <1>6, <2>1 DEF IInv, NoneOlder, Shows
  <2>2. CASE /\ cached' = [cached EXCEPT ![k[2]] = [cached[k[2]] EXCEPT ![u] = "right"]]
             /\ users' = [users EXCEPT ![u] = "right"]
    <3>1. \A p \in Processes : \A v \in Users : cached'[p][v] = cached[p][v] \/ v = u
      BY <1>1, <2>2
    <3>2. \A v \in Users : v = u => users'[v] = "right"
      BY <1>1, <2>2
    <3> QED
      BY <1>6, <3>1, <3>2 DEF IInv, NoneOlder, Shows
  <2> QED
    BY <2>1, <2>2 DEF Recached, Created, u
<1> QED
  BY <1>2, <1>4, <1>5, <1>6, <1>7, <1>8
  DEF IInv, TypeInv, TypeOK, ServiceTypeOK, Serves

LEMMA CreateSteps ==
  ASSUME IInv, NEW k \in Keys, Create(k)
  PROVE  Proceeds(Apply(k)) /\ Serves(Apply(k))
<1> DEFINE x == Apply(k)
           u == UserOf(x)
<1>1. TypeInv /\ task[x].pc \notin Counting /\ task[x].pc = "create"
  BY DEF IInv, Create, Counting
<1>2. /\ x \in Appliers \cup Cleaners /\ task[x].goal # "none"
      /\ OneProcess => users[u] = "none"
  BY <1>1, Applying DEF IInv, AnswerHolds, Missing
<1>3. Bounded
  BY <1>1, SameBounded, FaultBounded, DisturbedBounded DEF Create
<1>4. cached' = cached
  BY DEF Create, memory
<1>5. users' = users \/ (service # "gone" /\ users' = Created(u))
  BY DEF Create
<1>6. Serves(x)
  BY <1>1, <1>3, <1>4, <1>5, UserServes DEF Create, memory
<1>7. CASE service = "gone" /\ Fails(k, 404, FALSE)
  <2>1. 404 \in Statuses /\ GoodReason(404)
    BY <1>7 DEF Statuses, GoodReason
  <2> QED
    BY <1>1, <1>2, <1>6, <1>7, <2>1, NotFoundProceeds
<1>8. CASE users' = Created(u) /\ At(x, "count") /\ Stays
  <2>1. users'[u] = "right"
    BY <1>1, <1>8, Applying DEF Created, TypeInv, TypeOK, ServiceTypeOK
  <2> QED
    BY <1>1, <1>6, <1>8, <2>1, ApplyGoesOn DEF PCs, Supplying
<1>9. CASE Disturbed(x)
  BY <1>1, <1>2, <1>6, <1>9, DisturbedProceeds
<1>10. CASE CallFails(x, 503)
  BY <1>1, <1>2, <1>6, <1>10, CallFailsProceeds DEF Statuses, GoodReason
<1>11. CASE users[u] # "none" /\ Fails(k, 409, FALSE)
  <2>1. 409 \in Statuses /\ GoodReason(409)
    BY <1>2, <1>11 DEF Statuses, GoodReason
  <2> QED
    BY <1>1, <1>2, <1>6, <1>11, <2>1, FailsProceeds
<1> QED
  BY <1>7, <1>8, <1>9, <1>10, <1>11 DEF Create

LEMMA UpdateSteps ==
  ASSUME IInv, NEW k \in Keys, Update(k)
  PROVE  Proceeds(Apply(k)) /\ Serves(Apply(k))
<1> DEFINE x == Apply(k)
           u == UserOf(x)
<1>1. TypeInv /\ task[x].pc \notin Counting /\ task[x].pc = "update"
  BY DEF IInv, Update, Counting
<1>2. /\ x \in Appliers \cup Cleaners /\ kind = "valkey" /\ u \in Users
      /\ task[x].goal # "none"
  BY <1>1, Applying DEF IInv, AnswerHolds
<1>3. Bounded
  BY <1>1, SameBounded, FaultBounded, DisturbedBounded DEF Update
<1>4. cached' = cached \/ (cached' = Recached(k[2], u) /\ users' = Created(u))
  BY DEF Update, Updated, Created
<1>5. users[u] # "none" => service # "gone"
  BY <1>2 DEF IInv, GoneLeavesNothing
<1>6. users' = users \/ (service # "gone" /\ users' = Created(u))
  BY <1>5 DEF Update, Updated, Created
<1>7. Serves(x)
  BY <1>1, <1>3, <1>4, <1>6, UserServes DEF Update
<1>8. CASE Fails(k, 404, FALSE)
  <2>1. 404 \in Statuses /\ GoodReason(404)
    BY <1>2 DEF Statuses, GoodReason
  <2> QED
    BY <1>1, <1>2, <1>7, <1>8, <2>1, NotFoundProceeds
<1>9. CASE users' = Updated(u) /\ At(x, "save") /\ Stays
  <2>1. users'[u] = "right"
    BY <1>1, <1>2, <1>9 DEF Updated, TypeInv, TypeOK, ServiceTypeOK
  <2> QED
    BY <1>1, <1>7, <1>9, <2>1, ApplyGoesOn DEF PCs, Supplying
<1>10. CASE Disturbed(x)
  BY <1>1, <1>2, <1>7, <1>10, DisturbedProceeds
<1>11. CASE CallFails(x, 503)
  BY <1>1, <1>2, <1>7, <1>11, CallFailsProceeds DEF Statuses, GoodReason
<1> QED
  BY <1>8, <1>9, <1>10, <1>11 DEF Update

LEMMA KeyStoresSteps ==
  ASSUME IInv, NEW k \in Keys, KeyStores(k)
  PROVE  Proceeds(Apply(k)) /\ Serves(Apply(k))
<1> DEFINE x == Apply(k)
<1>1. TypeInv /\ task[x].pc \notin Counting /\ Stays
  BY DEF IInv, KeyStores, Counting, Stays
<1>2. /\ x \in Tasks /\ x \notin Counters /\ task[x].gen \in Gens /\ task[x] \in Task
      /\ kind \in Kinds
  BY <1>1, Applying, TaskNames
<1>3. Bounded
  BY <1>1, SameBounded, FaultBounded DEF KeyStores
<1>4. Serves(x)
  BY <1>1, <1>3, ReadsServe, CacheTypes DEF KeyStores, memory
<1>5. CASE At(x, "save")
  <2>1. users' = users /\ task[x].pc \in Providing /\ task[x].pc \in Supplying
    BY DEF KeyStores, aiven, Providing, Supplying
  <2>2. task[x].goal = "provide" => users'[UserOf(x)] # "old"
    BY <1>2, <2>1, StillProvided
  <2> QED
    BY <1>1, <1>2, <1>4, <1>5, <2>1, <2>2, AtTurns, StaysQueues, Applying DEF PCs, Proceeds
<1>6. CASE task' = [task EXCEPT ![x] = Undoes(task[x], CleanupBegins)]
  <2> DEFINE pc == CleanupBegins
             t == Undoes(task[x], pc)
  <2>1. pc \in PCs /\ pc \notin Supplying /\ pc \notin {"create", "fill", "update"}
    BY <1>2, CleanupBeginsType DEF PCs, Supplying
  <2> HIDE DEF pc
  <2>2. /\ t \in Task /\ t.pc = pc /\ t.goal = "revoke" /\ t.gen = task[x].gen
        /\ t.listed = Nobody
    BY <1>2, <2>1, UndoesType
  <2> HIDE DEF t
  <2>3. Sound(x, t)
    BY <2>1, <2>2, NobodyType DEF Sound, Missing
  <2>4. Purposeful(x, t)
    BY <1>2, <2>1, <2>2 DEF Purposeful
  <2> QED
    BY <1>1, <1>4, <1>6, <2>2, <2>3, <2>4, StaysQueues DEF Proceeds, Turns, TurnsTo, t, pc
<1> QED
  BY <1>5, <1>6 DEF KeyStores

-----------------------------------------------------------------------------
(***************************************************************************)
(* Steps that start or end a task, and those of nobody's task.             *)
(***************************************************************************)

\* It is there still, or at a place where it goes by no answer and is not past
\* the providing of its user.
Quiet(x) ==
  \/ Unmoved(x)
  \/ /\ task'[x].listed = Nobody
     /\ task'[x].pc \notin {"create", "fill", "update"}
     /\ task'[x].goal = "provide" => task'[x].pc \notin Providing

\* A step that leaves the service alone keeps the invariant when it keeps the
\* types, and when every task is quiet.
LEMMA QuietSteps ==
  ASSUME IInv, TypeInv', UNCHANGED <<kind, service, users>>,
         \A p \in Processes : \A u \in Users :
           cached'[p][u] = "right" => cached[p][u] = "right",
         \A x \in Tasks : task'[x] = task[x] \/ Quiet(x),
         \A j \in Keys : givenUp'[j] = givenUp[j] \/ GoodReason(givenUp'[j])
  PROVE  IInv'
<1>1. \A x \in Tasks : Quiet(x)
  BY DEF Quiet, Unmoved
<1>2. ASSUME NEW k \in Keys
      PROVE  AnswerHolds(k)'
  <2>1. Apply(k) \in Tasks
    BY TaskNames
  <2>2. CASE Unmoved(Apply(k))
    BY <2>2, AnswerKept DEF IInv
  <2>3. CASE task'[Apply(k)].pc \notin {"create", "fill", "update"}
    BY <2>3 DEF AnswerHolds, Missing
  <2> QED
    BY <1>1, <2>1, <2>2, <2>3 DEF Quiet
<1>3. ReasonsHold'
  BY ReasonsKept DEF IInv
<1>4. NoneOlder'
  <2>1. \A p \in Processes : Shows(cached[p])'
    BY DEF IInv, NoneOlder, Shows
  <2>2. ASSUME NEW x \in Tasks
        PROVE  \A u \in Users : task'[x].listed[u] = "right" => users'[u] # "old"
    <3>1. CASE task'[x].listed = task[x].listed
      BY <3>1 DEF IInv, NoneOlder, Shows
    <3>2. CASE task'[x].listed = Nobody
      BY <3>2, NobodyType
    <3> QED
      BY <1>1, <3>1, <3>2 DEF Quiet, Unmoved
  <2>3. \A u \in Users : users'[u] = "old" => users[u] = "old"
    OBVIOUS
  <2> QED
    BY <1>1, <2>1, <2>2, <2>3, OldnessKept DEF IInv, Quiet, Unmoved
<1> QED
  BY <1>2, <1>3, <1>4 DEF IInv, GoneLeavesNothing

\* A task is given another place; the types are kept.
LEMMA PlaceKeepsTypes ==
  ASSUME TypeInv, NEW x \in Tasks, NEW t \in Task, Purposeful(x, t),
         task' = [task EXCEPT ![x] = t]
  PROVE  /\ task' \in [Tasks -> Task] /\ TasksFit'
         /\ task'[x] = t
         /\ \A y \in Tasks : y # x => task'[y] = task[y]
<1>1. task \in [Tasks -> Task] /\ \A y \in Tasks : Purposeful(y, task[y])
  BY DEF TypeInv, TypeOK, TasksFit
<1>2. \A y \in Tasks : task'[y] = IF y = x THEN t ELSE task[y]
  BY <1>1
<1>3. \A y \in Tasks : Purposeful(y, task'[y])
  BY <1>1, <1>2
<1> QED
  BY <1>1, <1>2, <1>3, Zenon DEF TasksFit, Purposeful

\* What is read gets out of date, and one task may get another place.
LEMMA OutdateKeepsTypes ==
  ASSUME TypeInv, NEW those
  PROVE  /\ Outdate(those) \in [Tasks -> Task]
         /\ \A y \in Tasks :
              /\ Purposeful(y, Outdate(those)[y])
              /\ Outdate(those)[y].pc = task[y].pc
              /\ Outdate(those)[y].gen = task[y].gen
              /\ Outdate(those)[y].goal = task[y].goal
              /\ Outdate(those)[y].listed = task[y].listed
<1>1. \A y \in Tasks : task[y] \in Task /\ Purposeful(y, task[y])
  BY DEF TypeInv, TypeOK, TasksFit
<1>2. \A y \in Tasks : Outdate(those)[y] \in {task[y], Outdated(task[y])}
  BY DEF Outdate
<1>3. ASSUME NEW y \in Tasks
      PROVE  /\ Outdate(those)[y] \in Task
             /\ Outdate(those)[y].pc = task[y].pc
             /\ Outdate(those)[y].gen = task[y].gen
             /\ Outdate(those)[y].goal = task[y].goal
             /\ Outdate(those)[y].listed = task[y].listed
  <2>1. task[y] \in Task
    BY <1>1
  <2>2. CASE Outdate(those)[y] = task[y]
    BY <2>1, <2>2
  <2>3. CASE Outdate(those)[y] = Outdated(task[y])
    BY <2>1, <2>3, OutdatedType
  <2> QED
    BY <1>2, <2>2, <2>3
<1>4. Outdate(those) = [y \in Tasks |-> Outdate(those)[y]]
  BY DEF Outdate
<1>5. \A y \in Tasks : Purposeful(y, Outdate(those)[y])
  BY <1>1, <1>3 DEF Purposeful
<1>6. Outdate(those) \in [Tasks -> Task]
  BY <1>3, <1>4
<1> QED
  BY <1>3, <1>5, <1>6

LEMMA OutdateSteps ==
  ASSUME TypeInv, NEW those, task' = Outdate(those)
  PROVE  task' \in [Tasks -> Task] /\ TasksFit' /\ \A y \in Tasks : Quiet(y)
<1>1. \A y \in Tasks : Purposeful(y, task'[y])
  BY OutdateKeepsTypes
<1> QED
  BY <1>1, OutdateKeepsTypes, Zenon DEF TasksFit, Purposeful, Quiet, Unmoved

\* A task comes to a quiet place while others' reading may get out of date.
LEMMA PlaceAndOutdate ==
  ASSUME TypeInv, NEW those, NEW x \in Tasks, NEW t \in Task, Purposeful(x, t),
         t.listed = Nobody, t.pc \in {"status", "idle"},
         \/ task' = [Outdate(those) EXCEPT ![x] = t]
         \/ task' = [task EXCEPT ![x] = t]
  PROVE  task' \in [Tasks -> Task] /\ TasksFit' /\ \A y \in Tasks : Quiet(y)
<1> DEFINE before == Outdate(those)
<1>1. /\ before \in [Tasks -> Task]
      /\ \A y \in Tasks :
           /\ Purposeful(y, before[y])
           /\ before[y].pc = task[y].pc /\ before[y].gen = task[y].gen
           /\ before[y].goal = task[y].goal /\ before[y].listed = task[y].listed
  BY OutdateKeepsTypes
<1>2. task \in [Tasks -> Task] /\ \A y \in Tasks : Purposeful(y, task[y])
  BY DEF TypeInv, TypeOK, TasksFit
<1> HIDE DEF before
<1>3. \/ \A y \in Tasks : task'[y] = IF y = x THEN t ELSE before[y]
      \/ \A y \in Tasks : task'[y] = IF y = x THEN t ELSE task[y]
  BY <1>1, <1>2 DEF before
<1>4. task' \in [Tasks -> Task]
  BY <1>1, <1>2 DEF before
<1>5. \A y \in Tasks : Purposeful(y, task'[y])
  BY <1>1, <1>2, <1>3
<1>6. ASSUME NEW y \in Tasks
      PROVE  Quiet(y)
  <2>1. CASE y = x
    BY <1>3, <2>1 DEF Quiet, Providing
  <2>2. CASE y # x
    BY <1>1, <1>3, <2>2 DEF Quiet, Unmoved
  <2> QED
    BY <2>1, <2>2
<1> QED
  BY <1>4, <1>5, <1>6, Zenon DEF TasksFit, Purposeful

LEMMA SameTasks ==
  ASSUME TypeInv, task' = task
  PROVE  task' \in [Tasks -> Task] /\ TasksFit'
BY DEF TypeInv, TypeOK, TasksFit, Purposeful

LEMMA SameService ==
  ASSUME TypeInv, UNCHANGED <<kind, aiven, memory>>
  PROVE  ServiceTypeOK' /\ UNCHANGED <<kind, service, users, cached>>
BY DEF TypeInv, TypeOK, ServiceTypeOK, aiven, memory

LEMMA StartApplySteps ==
  ASSUME IInv, NEW k \in Keys, StartApply(k)
  PROVE  IInv'
<1> DEFINE x == Apply(k)
           g == gen[k[1]]
           begun == Begun("look up", g, "provide")
           ended == Ended(Begun("status", g, "provide"), "unchanged")
<1>1. TypeInv
  BY DEF IInv
<1>2. /\ ServiceTypeOK' /\ UNCHANGED <<kind, service, users, cached>>
      /\ UNCHANGED <<gen, synced, secret, due, changes, faults>>
  BY <1>1, SameService DEF StartApply, secrets, bounds
<1>3. todo' \in [Keys -> BOOLEAN]
  BY <1>1 DEF StartApply, TypeInv, TypeOK
<1>4. /\ x \in Tasks /\ x \notin Counters /\ g \in Gens
      /\ "look up" \in PCs /\ "status" \in PCs /\ "status" \notin Supplying
      /\ "provide" \in {"provide", "revoke"} /\ "unchanged" \in Results
  BY <1>1, TaskNames DEF TypeInv, TypeOK, PCs, Supplying, Results
<1>5. CASE task' = [task EXCEPT ![x] = ended] /\ givenUp' = givenUp
  <2> DEFINE t == Begun("status", g, "provide")
  <2>1. t \in Task /\ Purposeful(x, t) /\ t.goal = "provide"
    <3>1. x \notin Counters /\ g \in Gens /\ "status" \in PCs
      BY <1>4
    <3> HIDE DEF x, g
    <3> QED
      BY <3>1, BegunFits
  <2>2. t.gen = g
    BY DEF Begun
  <2> HIDE DEF t
  <2>3. /\ Ended(t, "unchanged") \in Task /\ Ended(t, "unchanged").pc = "status"
        /\ Ended(t, "unchanged").goal = "provide" /\ Ended(t, "unchanged").gen = g
        /\ Ended(t, "unchanged").listed = Nobody
    BY <1>4, <2>1, <2>2, EndedType
  <2>4. Purposeful(x, Ended(t, "unchanged"))
    BY <1>4, <2>3 DEF Purposeful, Supplying
  <2>5. task' = [task EXCEPT ![x] = Ended(t, "unchanged")]
    BY <1>5 DEF t
  <2>6. task' \in [Tasks -> Task] /\ TasksFit' /\ \A y \in Tasks : Quiet(y)
    BY <1>1, <1>4, <2>3, <2>4, <2>5, PlaceAndOutdate
  <2>7. TypeInv'
    BY <1>1, <1>2, <1>3, <1>5, <2>6 DEF TypeInv, TypeOK, SecretsFit
  <2> QED
    BY <1>2, <1>5, <2>6, <2>7, QuietSteps
<1>6. CASE /\ task' = [task EXCEPT ![x] = begun]
           /\ givenUp' = [givenUp EXCEPT ![k] = 0]
  <2>1. begun \in Task /\ Purposeful(x, begun)
    BY <1>4, BegunFits
  <2>2. begun.pc = "look up" /\ begun.listed = Nobody
    BY DEF Begun
  <2> HIDE DEF begun
  <2>3. /\ task' \in [Tasks -> Task] /\ TasksFit'
        /\ task'[x] = begun
        /\ \A y \in Tasks : y # x => task'[y] = task[y]
    BY <1>1, <1>4, <1>6, <2>1, PlaceKeepsTypes
  <2>4. GoodReason(0) /\ givenUp \in [Keys -> Statuses \cup {0}]
    BY <1>1 DEF GoodReason, TypeInv, TypeOK
  <2>5. /\ givenUp' \in [Keys -> Statuses \cup {0}]
        /\ \A j \in Keys : givenUp'[j] = givenUp[j] \/ GoodReason(givenUp'[j])
    BY <1>6, <2>4
  <2>6. TypeInv'
    BY <1>1, <1>2, <1>3, <2>3, <2>5 DEF TypeInv, TypeOK, SecretsFit
  <2>7. Quiet(x)
    BY <2>1, <2>2, <2>3 DEF Quiet, Providing
  <2> QED
    BY <1>2, <2>3, <2>5, <2>6, <2>7, QuietSteps
<1> QED
  BY <1>5, <1>6, Zenon DEF StartApply, begun, ended

LEMMA SaveSecretSteps ==
  ASSUME IInv, NEW k \in Keys, SaveSecret(k)
  PROVE  IInv'
<1> DEFINE x == Apply(k)
           a == k[1]
           g == task[x].gen
           o == Saved(secret[a], g)
<1>1. TypeInv /\ task[x].pc \notin Counting
  BY DEF IInv, SaveSecret, Counting
<1>2. /\ ServiceTypeOK' /\ UNCHANGED <<kind, service, users, cached>>
      /\ UNCHANGED <<gen, synced, todo, givenUp>>
  BY <1>1, SameService DEF SaveSecret, apps
<1>3. /\ g \in Gens /\ g \in 0 .. MaxGen /\ x \in Tasks /\ a \in Apps
      /\ task[x] \in Task /\ task[x].goal # "none" /\ x \notin Counters
  BY <1>1, Applying, TaskNames, Numbers
<1>4. /\ secret \in [Apps -> SecretObject] /\ secret[a] \in SecretObject
      /\ \A b \in Apps : Present(secret[b]) => secret[b].gen \in Gens
      /\ due \in [Keys -> BOOLEAN]
  BY <1>1, <1>3 DEF TypeInv, TypeOK, SecretsFit
<1>5. o \in SecretObject /\ o.gen \in Gens
  BY <1>3, <1>4, SecretTypes
<1>6. Bounded
  BY <1>1, SameBounded, FaultBounded DEF SaveSecret
<1>7. ASSUME NEW result \in {"synced", "again"}
      PROVE  /\ Ended(task[x], result) \in Task
             /\ Ended(task[x], result).pc = "status"
             /\ Ended(task[x], result).listed = Nobody
             /\ Purposeful(x, Ended(task[x], result))
  <2>1. result \in Results
    BY DEF Results
  <2>2. Ended(task[x], result).gen = g /\ Ended(task[x], result).goal = task[x].goal
    BY <1>3, <2>1, EndedType
  <2> QED
    BY <1>3, <2>1, <2>2, EndedType DEF Purposeful, Supplying
<1> HIDE DEF o
<1>8. CASE \E result \in {"synced", "again"} :
             /\ secret' = [secret EXCEPT ![a] = o]
             /\ due' = Notified(a, o)
             /\ task' = [Outdate(CleanersOf(a)) EXCEPT ![x] = Ended(task[x], result)]
  <2>1. PICK result \in {"synced", "again"} :
          task' = [Outdate(CleanersOf(a)) EXCEPT ![x] = Ended(task[x], result)]
    BY <1>8
  <2>2. task' \in [Tasks -> Task] /\ TasksFit' /\ \A y \in Tasks : Quiet(y)
    BY <1>1, <1>3, <1>7, <2>1, PlaceAndOutdate
  <2>3. secret' \in [Apps -> SecretObject] /\ SecretsFit'
    BY <1>4, <1>5, <1>8 DEF SecretsFit, Present
  <2>4. due' \in [Keys -> BOOLEAN]
    BY <1>4, <1>8 DEF Notified, EventPasses
  <2>5. TypeInv'
    BY <1>1, <1>2, <1>6, <2>2, <2>3, <2>4 DEF TypeInv, TypeOK, Bounded
  <2> QED
    BY <1>2, <2>2, <2>5, QuietSteps
<1>9. CASE Ends(k, "again") /\ UNCHANGED secrets
  <2>1. task' = [task EXCEPT ![x] = Ended(task[x], "again")] /\ UNCHANGED <<secret, due>>
    BY <1>9 DEF Ends, secrets
  <2>2. task' \in [Tasks -> Task] /\ TasksFit' /\ \A y \in Tasks : Quiet(y)
    BY <1>1, <1>3, <1>7, <2>1, PlaceAndOutdate
  <2>3. TypeInv'
    BY <1>1, <1>2, <1>6, <2>1, <2>2 DEF TypeInv, TypeOK, Bounded, SecretsFit
  <2> QED
    BY <1>2, <2>2, <2>3, QuietSteps
<1> QED
  BY <1>8, <1>9, Zenon DEF SaveSecret, o

LEMMA UpdateStatusSteps ==
  ASSUME IInv, NEW k \in Keys, UpdateStatus(k)
  PROVE  IInv'
<1> DEFINE x == Apply(k)
<1>1. TypeInv /\ task[x].pc \notin Counting
  BY DEF IInv, UpdateStatus, Counting
<1>2. /\ ServiceTypeOK' /\ UNCHANGED <<kind, service, users, cached>>
      /\ UNCHANGED <<gen, givenUp, secret, due>>
  BY <1>1, SameService DEF UpdateStatus, secrets
<1>3. x \in Tasks /\ task[x].gen \in 0 .. MaxGen /\ task[x] \in Task
  BY <1>1, Applying, Numbers
<1>4. Bounded
  BY <1>1, SameBounded, FaultBounded DEF UpdateStatus
<1>5. todo' \in [Keys -> BOOLEAN] /\ synced' \in [Apps -> 0 .. MaxGen]
  <2>1. todo \in [Keys -> BOOLEAN] /\ synced \in [Apps -> 0 .. MaxGen]
    BY <1>1 DEF TypeInv, TypeOK
  <2>2. synced' \in {synced, [synced EXCEPT ![k[1]] = task[x].gen]}
    BY DEF UpdateStatus
  <2>3. todo' = [todo EXCEPT ![k] = todo[k] \/ task[x].result = "again"]
    BY DEF UpdateStatus
  <2>4. [synced EXCEPT ![k[1]] = task[x].gen] \in [Apps -> 0 .. MaxGen]
    BY <1>3, <2>1
  <2>5. (todo[k] \/ task[x].result = "again") \in BOOLEAN
    BY <2>1
  <2> QED
    BY <2>1, <2>2, <2>3, <2>4, <2>5
<1>6. task' = [Outdate(AppliersOf(k[1])) EXCEPT ![x] = Idle]
      \/ task' = [task EXCEPT ![x] = Idle]
  BY Zenon DEF UpdateStatus, Rests
<1>7. task' \in [Tasks -> Task] /\ TasksFit' /\ \A y \in Tasks : Quiet(y)
  BY <1>1, <1>3, <1>6, IdleType, PlaceAndOutdate
<1>8. TypeInv'
  BY <1>1, <1>2, <1>4, <1>5, <1>7 DEF TypeInv, TypeOK, Bounded, SecretsFit
<1> QED
  BY <1>2, <1>7, <1>8, QuietSteps

LEMMA StartCleanupSteps ==
  ASSUME IInv, NEW k \in Keys, StartCleanup(k)
  PROVE  IInv'
<1> DEFINE x == Cleanup(k)
           pc == CleanupBegins
           t == Begun(pc, secret[k[1]].gen, "revoke")
<1>1. TypeInv
  BY DEF IInv
<1>2. /\ ServiceTypeOK' /\ UNCHANGED <<kind, service, users, cached>>
      /\ UNCHANGED <<gen, synced, todo, givenUp, secret, changes, faults>>
  BY <1>1, SameService DEF StartCleanup, apps, bounds
<1>3. due' \in [Keys -> BOOLEAN]
  BY <1>1 DEF StartCleanup, TypeInv, TypeOK
<1>4. CASE task' = task
  <2>1. TypeInv'
    BY <1>1, <1>2, <1>3, <1>4, SameTasks DEF TypeInv, TypeOK, SecretsFit
  <2> QED
    BY <1>2, <1>4, <2>1, QuietSteps
<1>5. CASE Present(secret[k[1]]) /\ task' = [task EXCEPT ![x] = t]
  <2>1. /\ x \in Tasks /\ x \notin Counters /\ k[1] \in Apps /\ kind \in Kinds
        /\ secret[k[1]].gen \in Gens
    BY <1>1, <1>5, TaskNames DEF TypeInv, TypeOK, ServiceTypeOK, SecretsFit
  <2> HIDE DEF x
  <2>6. /\ pc \in PCs /\ pc \notin Supplying /\ "revoke" \in {"provide", "revoke"}
    BY <2>1, CleanupBeginsType DEF PCs, Supplying
  <2>2. /\ t \in Task /\ Purposeful(x, t)
        /\ t.pc = pc /\ t.goal = "revoke" /\ t.listed = Nobody
    <3> HIDE DEF pc
    <3> QED
      BY <2>1, <2>6, BegunFits
  <2> HIDE DEF t
  <2>3. /\ task' \in [Tasks -> Task] /\ TasksFit'
        /\ task'[x] = t
        /\ \A y \in Tasks : y # x => task'[y] = task[y]
    BY <1>1, <1>5, <2>1, <2>2, PlaceKeepsTypes
  <2>4. Quiet(x)
    BY <2>2, <2>3, <2>6 DEF Quiet, Supplying
  <2>5. TypeInv'
    BY <1>1, <1>2, <1>3, <2>3 DEF TypeInv, TypeOK, SecretsFit
  <2> QED
    BY <1>2, <2>3, <2>4, <2>5, QuietSteps
<1> QED
  BY <1>4, <1>5 DEF StartCleanup

LEMMA UnfinalizeSteps ==
  ASSUME IInv, NEW k \in Keys, Unfinalize(k)
  PROVE  IInv'
<1> DEFINE x == Cleanup(k)
           a == k[1]
           o == Unfinalized(secret[a])
           those == IF o = secret[a] THEN {} ELSE CleanersOf(a)
<1>1. TypeInv
  BY DEF IInv
<1>2. /\ ServiceTypeOK' /\ UNCHANGED <<kind, service, users, cached>>
      /\ UNCHANGED <<gen, synced, todo, givenUp>>
  BY <1>1, SameService DEF Unfinalize, apps
<1>3. due' \in [Keys -> BOOLEAN]
  BY <1>1 DEF Unfinalize, TypeInv, TypeOK
<1>4. Bounded
  BY <1>1, SameBounded, FaultBounded DEF Unfinalize
<1>5. /\ x \in Tasks /\ a \in Apps
      /\ secret \in [Apps -> SecretObject]
      /\ secret[a] \in SecretObject
      /\ \A b \in Apps : Present(secret[b]) => secret[b].gen \in Gens
  BY <1>1, TaskNames DEF TypeInv, TypeOK, SecretsFit
<1>6. /\ o \in SecretObject /\ (Present(o) => o.gen \in Gens)
  BY <1>5, Numbers, SecretTypes
<1> HIDE DEF x
<1>7. /\ secret' \in {secret, [secret EXCEPT ![a] = o]}
      /\ task' = [Outdate(those) EXCEPT ![x] = Idle] \/ task' = [task EXCEPT ![x] = Idle]
  BY DEF Unfinalize, Rests, x
<1> HIDE DEF o, those
<1>8. secret' \in [Apps -> SecretObject] /\ SecretsFit'
  <2>1. CASE secret' = secret
    BY <1>5, <2>1 DEF SecretsFit
  <2>2. CASE secret' = [secret EXCEPT ![a] = o]
    BY <1>5, <1>6, <2>2 DEF SecretsFit, Present
  <2> QED
    BY <1>7, <2>1, <2>2
<1>9. task' \in [Tasks -> Task] /\ TasksFit' /\ \A y \in Tasks : Quiet(y)
  BY <1>1, <1>5, <1>7, IdleType, PlaceAndOutdate
<1>10. TypeInv'
  BY <1>1, <1>2, <1>3, <1>4, <1>8, <1>9 DEF TypeInv, TypeOK, Bounded
<1> QED
  BY <1>2, <1>9, <1>10, QuietSteps

LEMMA ResyncSteps ==
  ASSUME IInv, NEW p \in Processes, Resync(p)
  PROVE  IInv'
<1>1. TypeInv
  BY DEF IInv
<1>2. /\ ServiceTypeOK' /\ UNCHANGED <<kind, service, users, cached>>
      /\ UNCHANGED <<gen, synced, todo, givenUp, secret, task, changes, faults>>
  BY <1>1, SameService DEF Resync, apps, bounds
<1>3. due' \in [Keys -> BOOLEAN]
  BY <1>1 DEF Resync, TypeInv, TypeOK, EventPasses
<1>4. TypeInv'
  BY <1>1, <1>2, <1>3, SameTasks DEF TypeInv, TypeOK, SecretsFit
<1> QED
  BY <1>2, <1>4, QuietSteps

LEMMA TickSteps ==
  ASSUME IInv, NEW p \in Processes, Tick(p)
  PROVE  IInv'
<1> DEFINE t == Begun("count", 0, "none")
<1>1. TypeInv
  BY DEF IInv
<1>2. /\ ServiceTypeOK' /\ UNCHANGED <<kind, service, users, cached>>
      /\ UNCHANGED <<gen, synced, todo, givenUp, secret, due, changes, faults>>
  BY <1>1, SameService DEF Tick, apps, secrets, bounds
<1>3. "count" \in PCs /\ 0 \in 0 .. MaxGen /\ "none" \in Goals
  BY Numbers DEF PCs, Goals
<1>4. t \in Task /\ t.pc = "count" /\ t.goal = "none" /\ t.listed = Nobody
  BY <1>3, BegunType
<1>5. task' = [task EXCEPT ![Counter(p)] = t]
  BY DEF Tick
<1> HIDE DEF t
<1>6. Purposeful(Counter(p), t)
  BY <1>4 DEF Purposeful, Counting, Supplying
<1>7. /\ task' \in [Tasks -> Task] /\ TasksFit'
      /\ task'[Counter(p)] = t
      /\ \A y \in Tasks : y # Counter(p) => task'[y] = task[y]
  BY <1>1, <1>4, <1>5, <1>6, TaskNames, PlaceKeepsTypes
<1>8. TypeInv'
  BY <1>1, <1>2, <1>7 DEF TypeInv, TypeOK, SecretsFit
<1>9. Quiet(Counter(p))
  BY <1>4, <1>7 DEF Quiet
<1> QED
  BY <1>2, <1>7, <1>8, <1>9, QuietSteps

\* What users and operators do to an application or its Secret.
LEMMA OutsideSteps ==
  ASSUME IInv, NEW a \in Apps, Deploy(a) \/ Redeploy(a) \/ DeleteSecret(a)
  PROVE  IInv'
<1>1. TypeInv
  BY DEF IInv
<1>2. /\ ServiceTypeOK' /\ UNCHANGED <<kind, service, users, cached>>
      /\ UNCHANGED givenUp
      /\ Bounded
  BY <1>1, SameService, ChangeBounded DEF Deploy, Redeploy, DeleteSecret, apps
<1>3. /\ gen \in [Apps -> Gens] /\ synced \in [Apps -> 0 .. MaxGen]
      /\ todo \in [Keys -> BOOLEAN] /\ due \in [Keys -> BOOLEAN]
      /\ secret \in [Apps -> SecretObject]
      /\ \A b \in Apps : Present(secret[b]) => secret[b].gen \in Gens
  BY <1>1 DEF TypeInv, TypeOK, SecretsFit
<1>4. \E those : task' = Outdate(those)
  BY DEF Deploy, Redeploy, DeleteSecret
<1>5. task' \in [Tasks -> Task] /\ TasksFit' /\ \A y \in Tasks : Quiet(y)
  BY <1>1, <1>4, OutdateSteps
<1>6. CASE Deploy(a)
  <2>1. gen[a] + 1 \in Gens
    BY <1>3, <1>6, GenAssumption DEF Deploy, Gens
  <2>2. gen' \in [Apps -> Gens] /\ todo' \in [Keys -> BOOLEAN]
    BY <1>3, <1>6, <2>1 DEF Deploy, Queued
  <2>3. UNCHANGED <<synced, secret, due>>
    BY <1>6 DEF Deploy, secrets
  <2>4. TypeInv'
    BY <1>1, <1>2, <1>5, <2>2, <2>3 DEF TypeInv, TypeOK, SecretsFit, Bounded
  <2> QED
    BY <1>2, <1>5, <2>4, QuietSteps
<1>7. CASE Redeploy(a)
  <2>1. synced' \in [Apps -> 0 .. MaxGen] /\ todo' \in [Keys -> BOOLEAN]
    BY <1>3, <1>7, Numbers DEF Redeploy, Queued
  <2>2. UNCHANGED <<gen, secret, due>>
    BY <1>7 DEF Redeploy, secrets
  <2>3. TypeInv'
    BY <1>1, <1>2, <1>5, <2>1, <2>2 DEF TypeInv, TypeOK, SecretsFit, Bounded
  <2> QED
    BY <1>2, <1>5, <2>3, QuietSteps
<1>8. CASE DeleteSecret(a)
  <2> DEFINE o == Marked(secret[a])
  <2>1. o \in SecretObject /\ (Present(o) => o.gen \in Gens)
    BY <1>3, <1>8, Numbers, SecretTypes DEF DeleteSecret, Present
  <2>2. secret' = [secret EXCEPT ![a] = o] /\ due' = Notified(a, o)
    BY <1>8 DEF DeleteSecret
  <2>3. UNCHANGED <<gen, synced, todo>> /\ due' \in [Keys -> BOOLEAN]
    BY <1>3, <1>8, <2>2 DEF DeleteSecret, apps, Notified, EventPasses
  <2> HIDE DEF o
  <2>4. secret' \in [Apps -> SecretObject] /\ SecretsFit'
    BY <1>3, <2>1, <2>2 DEF SecretsFit, Present
  <2>5. TypeInv'
    BY <1>1, <1>2, <1>5, <2>3, <2>4 DEF TypeInv, TypeOK, Bounded
  <2> QED
    BY <1>2, <1>5, <2>5, QuietSteps
<1> QED
  BY <1>6, <1>7, <1>8

LEMMA RestartSteps ==
  ASSUME IInv, NEW p \in Processes, Restart(p)
  PROVE  IInv'
<1>1. TypeInv
  BY DEF IInv
<1>2. /\ UNCHANGED <<kind, service, users, acl, gen, synced, givenUp, secret>>
      /\ known' \in [Processes -> BOOLEAN]
      /\ todo' \in [Keys -> BOOLEAN] /\ due' \in [Keys -> BOOLEAN]
      /\ Bounded
  BY <1>1, FaultBounded DEF Restart, aiven, TypeInv, TypeOK, ServiceTypeOK
<1>3. /\ cached' \in [Processes -> [Users -> Access]]
      /\ \A q \in Processes : \A u \in Users :
           cached'[q][u] = "right" => cached[q][u] = "right"
  <2>1. cached \in [Processes -> [Users -> Access]]
    BY <1>1 DEF TypeInv, TypeOK, ServiceTypeOK
  <2>2. cached' = [cached EXCEPT ![p] = Nobody]
    BY DEF Restart
  <2> QED
    BY <2>1, <2>2, NobodyType
<1>4. \A y \in Tasks : task'[y] \in {Idle, task[y]}
  BY DEF Restart
<1>5. task' \in [Tasks -> Task] /\ TasksFit'
  <2>1. \A y \in Tasks : task[y] \in Task /\ Purposeful(y, task[y])
    BY <1>1 DEF TypeInv, TypeOK, TasksFit
  <2>2. \A y \in Tasks : Purposeful(y, task'[y]) /\ task'[y] \in Task
    BY <1>4, <2>1, IdleType
  <2>3. task' = [y \in Tasks |-> task'[y]]
    BY DEF Restart
  <2>4. task' \in [Tasks -> Task]
    BY <2>2, <2>3
  <2> QED
    BY <2>2, <2>4, Zenon DEF TasksFit, Purposeful
<1>6. \A y \in Tasks : task'[y] = task[y] \/ Quiet(y)
  BY <1>4, IdleType DEF Quiet, Providing
<1>7. TypeInv'
  BY <1>1, <1>2, <1>3, <1>5 DEF TypeInv, TypeOK, ServiceTypeOK, SecretsFit, Bounded
<1> QED
  BY <1>2, <1>3, <1>6, <1>7, QuietSteps

LEMMA ExpirySteps ==
  ASSUME IInv, Expiry
  PROVE  IInv'
<1>1. TypeInv
  BY DEF IInv
<1>2. /\ UNCHANGED <<kind, service, users, acl>>
      /\ UNCHANGED <<gen, synced, todo, givenUp, secret, due, task, changes, faults>>
  BY DEF Expiry, CacheExpires, AddressesExpire, aiven, apps, secrets, bounds
<1>5. /\ cached' \in [Processes -> [Users -> Access]]
      /\ known' \in [Processes -> BOOLEAN]
  <2>1. CASE \E p \in Processes : \E u \in Users : CacheExpires(p, u)
    BY <1>1, <2>1, CacheTypes DEF CacheExpires
  <2>2. ASSUME NEW p \in Processes, AddressesExpire(p)
        PROVE  /\ cached' \in [Processes -> [Users -> Access]]
               /\ known' \in [Processes -> BOOLEAN]
    <3>1. known' = [known EXCEPT ![p] = FALSE] /\ cached' = cached
      BY <2>2 DEF AddressesExpire
    <3> QED
      BY <1>1, <3>1, CacheTypes
  <2> QED
    BY <2>1, <2>2 DEF Expiry
<1>3. TypeInv'
  BY <1>1, <1>2, <1>5, SameTasks DEF TypeInv, TypeOK, ServiceTypeOK, SecretsFit
<1>4. \A p \in Processes : \A u \in Users :
        cached'[p][u] = "right" => cached[p][u] = "right"
  BY <1>1 DEF TypeInv, TypeOK, ServiceTypeOK, Expiry, CacheExpires, Uncached, AddressesExpire
<1> QED
  BY <1>2, <1>3, <1>4, QuietSteps

\* The service comes up, or goes with all its users.
LEMMA ServiceSteps ==
  ASSUME IInv, UNCHANGED <<apps, secrets, task>>,
         \/ ServiceComesUp /\ UNCHANGED bounds
         \/ ServiceGoes /\ Change("gone")
  PROVE  IInv'
<1>1. TypeInv
  BY DEF IInv
<1>2. UNCHANGED <<gen, synced, todo, givenUp, secret, due, task>>
  BY DEF apps, secrets
<1>3. Bounded
  BY <1>1, SameBounded, ChangeBounded
<1>4. /\ ServiceTypeOK' /\ kind' = kind
      /\ service = "gone" => service' = "gone"
      /\ \A u \in Users : users'[u] \in {users[u], "none"}
  BY <1>1, NobodyType DEF TypeInv, TypeOK, ServiceTypeOK, ServiceComesUp, ServiceGoes, memory
<1>5. TypeInv'
  BY <1>1, <1>2, <1>3, <1>4, SameTasks DEF TypeInv, TypeOK, SecretsFit, Bounded
<1>6. GoneLeavesNothing'
  BY NobodyType DEF ServiceComesUp, ServiceGoes, GoneLeavesNothing
<1>7. \A k \in Keys : AnswerHolds(k)'
  BY <1>1, <1>2, <1>4, AnswerKept DEF IInv, Unmoved
<1>8. ReasonsHold'
  BY <1>2, <1>4, ReasonsKept DEF IInv
<1>9. NoneOlder'
  <2>1. \A u \in Users : users'[u] = "old" => users[u] = "old"
    BY <1>4
  <2>2. \A p \in Processes : Shows(cached[p])'
    BY <2>1 DEF IInv, NoneOlder, Shows, ServiceComesUp, ServiceGoes, memory
  <2>3. \A x \in Tasks : \A u \in Users : task'[x].listed[u] = "right" => users'[u] # "old"
    BY <1>2, <2>1 DEF IInv, NoneOlder, Shows
  <2> QED
    BY <1>1, <1>2, <1>4, <2>1, <2>2, <2>3, OldnessKept DEF IInv
<1> QED
  BY <1>5, <1>6, <1>7, <1>8, <1>9 DEF IInv

-----------------------------------------------------------------------------
(***************************************************************************)
(* The theorems.                                                           *)
(***************************************************************************)
LEMMA Initially == Init => IInv
<1> SUFFICES ASSUME Init
             PROVE  IInv
  OBVIOUS
<1>1. 1 \in Gens /\ 1 \in 0 .. MaxGen /\ 0 \in 0 .. MaxGen
  BY GenAssumption DEF Gens
<1>2. ServiceTypeOK
  BY HandlersAssumption, NobodyType DEF Init, ServiceTypeOK, Kinds, Access
<1>3. secret \in [Apps -> SecretObject] /\ SecretsFit
  <2>1. NoSecret \in SecretObject /\ ~ Present(NoSecret)
    BY <1>1 DEF NoSecret, SecretObject, Present
  <2>2. CASE secret = [a \in Apps |-> NoSecret]
    BY <2>1, <2>2 DEF SecretsFit
  <2>3. CASE secret = [a \in Apps |-> [phase |-> "live", gen |-> 1, finalizer |-> TRUE]]
    BY <1>1, <2>3 DEF SecretObject, SecretsFit
  <2> QED
    BY <2>2, <2>3 DEF Init
<1>4. task \in [Tasks -> Task] /\ TasksFit /\ \A k \in Keys : task[Apply(k)] = Idle
  BY IdleType, TaskNames DEF Init, TasksFit
<1>5. TypeInv
  BY <1>1, <1>2, <1>3, <1>4, HandlersAssumption DEF Init, TypeInv, TypeOK
<1>6. GoneLeavesNothing
  BY DEF Init, GoneLeavesNothing
<1>7. \A k \in Keys : AnswerHolds(k)
  <2>1. Idle.pc = "idle"
    BY DEF Idle
  <2> QED
    BY <1>4, <2>1 DEF AnswerHolds, Missing
<1>8. NoneOlder
  <2>1. \A u \in Users : users[u] = "old" => kind = "valkey"
    BY NobodyType DEF Init
  <2>2. \A p \in Processes : Shows(cached[p])
    BY NobodyType DEF Init, Shows
  <2>3. \A x \in Tasks : task[x] = Idle
    BY DEF Init
  <2>4. \A x \in Tasks : Shows(task[x].listed) /\ Provided(x)
    BY <2>3, IdleType, NobodyType DEF Shows, Provided, Providing
  <2> QED
    BY <2>1, <2>2, <2>4 DEF NoneOlder
<1>9. ReasonsHold
  <2>1. \A k \in Keys : givenUp[k] = 0
    BY DEF Init
  <2> QED
    BY <2>1 DEF ReasonsHold
<1> QED
  BY <1>5, <1>6, <1>7, <1>8, <1>9 DEF IInv

LEMMA StutterSteps ==
  ASSUME IInv, UNCHANGED vars
  PROVE  IInv'
<1>1. TypeInv
  BY DEF IInv
<1>2. /\ ServiceTypeOK' /\ UNCHANGED <<kind, service, users, cached>>
      /\ UNCHANGED <<gen, synced, todo, givenUp, secret, due, task, changes, faults>>
  BY <1>1, SameService DEF vars, apps, secrets, bounds
<1>3. TypeInv'
  BY <1>1, <1>2, SameTasks DEF TypeInv, TypeOK, SecretsFit
<1> QED
  BY <1>2, <1>3, QuietSteps

LEMMA Inductive == IInv /\ [Next]_vars => IInv'
<1> SUFFICES ASSUME IInv, [Next]_vars
             PROVE  IInv'
  OBVIOUS
<1>1. ASSUME NEW k \in Keys, ApplyStep(k)
      PROVE  IInv'
  <2>1. Apply(k) \in Tasks
    BY TaskNames
  <2>2. CASE StartApply(k)
    BY <2>2, StartApplySteps
  <2>3. CASE LookUp(k) \/ List(k) \/ Fill(k)
    BY <2>1, <2>3, LookUpSteps, ListSteps, FillSteps, OwnSteps
  <2>4. CASE Create(k) \/ Update(k) \/ KeyStores(k)
    BY <2>1, <2>4, CreateSteps, UpdateSteps, KeyStoresSteps, OwnSteps
  <2>5. CASE SaveSecret(k) \/ UpdateStatus(k)
    BY <2>5, SaveSecretSteps, UpdateStatusSteps
  <2>6. CASE Shared(Apply(k))
    BY <2>1, <2>6, SharedSteps
  <2> QED
    BY <1>1, <2>2, <2>3, <2>4, <2>5, <2>6 DEF ApplyStep
<1>2. ASSUME NEW k \in Keys, CleanupStep(k)
      PROVE  IInv'
  <2>1. Cleanup(k) \in Tasks
    BY TaskNames
  <2> QED
    BY <1>2, <2>1, StartCleanupSteps, UnfinalizeSteps, SharedSteps DEF CleanupStep
<1>3. ASSUME NEW p \in Processes, ProcessStep(p)
      PROVE  IInv'
  <2>1. Counter(p) \in Tasks
    BY TaskNames
  <2> QED
    BY <1>3, <2>1, SharedSteps, ResyncSteps, TickSteps, RestartSteps DEF ProcessStep
<1>4. CASE Expiry
  BY <1>4, ExpirySteps
<1>5. CASE Outside
  BY <1>5, OutsideSteps, ServiceSteps DEF Outside
<1>6. CASE UNCHANGED vars
  BY <1>6, StutterSteps
<1> QED
  BY <1>1, <1>2, <1>3, <1>4, <1>5, <1>6 DEF Next

THEOREM Invariant == Spec => []IInv
BY Initially, Inductive, PTL DEF Spec

\* Every variable keeps its type, for any processes, applications, generations,
\* changes and faults.
THEOREM TypesHold == Spec => []TypeOK
<1>1. IInv => TypeOK
  BY DEF IInv, TypeInv
<1> QED
  BY <1>1, Invariant, PTL

\* In the only process, no run is given up because its user is there already,
\* or, but for Valkey, because something is not there while the service is:
\* whatever calls fail after they had their effect, lists are answered late,
\* tasks interleave, status updates are lost and the process dies.
THEOREM ReasonsAreGood ==
  ASSUME OneProcess
  PROVE  Spec => []GivenUpForGoodReason
<1>1. IInv => GivenUpForGoodReason
  BY OneProcess DEF IInv, ReasonsHold, GivenUpForGoodReason
<1> QED
  BY <1>1, Invariant, PTL

\* A Valkey user has no other access than asked for when its Secret is saved,
\* although it may be cached, listed late, created, changed or deleted by
\* another task in between.
THEOREM UsersAreUpdated == Spec => []ValkeyUsersAreUpdated
<1>1. ASSUME IInv
      PROVE  ValkeyUsersAreUpdated
  <2> SUFFICES ASSUME NEW k \in Keys, task[Apply(k)].pc = "save"
               PROVE  users[UserOf(Apply(k))] # "old"
    BY DEF ValkeyUsersAreUpdated
  <2>1. Apply(k) \in Tasks
    BY TaskNames
  <2> QED
    BY <1>1, <2>1
    DEF IInv, TypeInv, TasksFit, Purposeful, Supplying, NoneOlder, Provided, Providing
<1> QED
  BY <1>1, Invariant, PTL
=============================================================================
