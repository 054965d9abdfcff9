---------------------------- MODULE ServiceUsers ----------------------------
(***************************************************************************)
(* One Aiven service as Aivenator's managers see it: its users and, for    *)
(* OpenSearch, its access control list, which lives in Aiven; the cache of *)
(* users and the cache of the service's addresses, which live in each      *)
(* Aivenator process and are shared by all its goroutines; and the meaning *)
(* the handlers give to an error from Aiven.                               *)
(*                                                                         *)
(* Aiven takes each call in one piece. What a caller does with the answer  *)
(* comes later, and for a list of users the difference matters.            *)
(***************************************************************************)
EXTENDS Naturals

CONSTANTS
  Processes,  (* running Aivenator processes                               *)
  Apps,       (* applications that ask for a user of the service           *)
  MaxGen      (* the number of generations of each application             *)

ASSUME GenAssumption == MaxGen \in Nat \ {0}

Gens  == 1 .. MaxGen

\* A user's name is made from the application and its generation.
Users == Apps \X Gens

\* What a user may do: it may exist with the access the handler asks for, or,
\* made by an older release, with another.
Access == {"none", "old", "right"}
Nobody == [u \in Users |-> "none"]

Kinds    == {"kafka", "opensearch", "valkey"}
Statuses == {200, 404, 409, 429, 503}

VARIABLES
  kind,      (* which handler the service is for                           *)
  service,   (* whether it can be used: "building", "running", "gone"      *)
  users,     (* the users in Aiven                                         *)
  acl,       (* the users the access control list in Aiven lets in         *)
  cached,    (* cached[p]: the users in the cache of process p             *)
  known      (* known[p]: whether its addresses are in their cache         *)

aiven  == <<service, users, acl>>
memory == <<cached, known>>

-----------------------------------------------------------------------------
(***************************************************************************)
(* Errors. A 404 may be told to pass, by one argument; every other status  *)
(* of the client's fault is final; the rest passes, also a 200 with an     *)
(* error, which is a broken connection.                                    *)
(***************************************************************************)

\* A slip: what the server is to blame for is final as well.
UnwrapAivenError_All(status, notFoundIsRecoverable) ==
  IF status = 200 THEN "passes"
  ELSE IF status = 404 /\ notFoundIsRecoverable THEN "not found"
  ELSE "unrecoverable"

UnwrapAivenError(status, notFoundIsRecoverable) ==
  IF status = 404 /\ notFoundIsRecoverable THEN "not found"
  ELSE IF 400 <= status /\ status < 500 THEN "unrecoverable"
  ELSE "passes"

\* A failed reconcile is tried again unless its error is unrecoverable: after
\* ten seconds, or a hundred for something that was not found.
RequeuedAfter(class) == class # "unrecoverable"

-----------------------------------------------------------------------------
(***************************************************************************)
(* The cache of users. An entry stays until it is replaced, deleted or has *)
(* expired; a user that a list does not show is not taken out.             *)
(***************************************************************************)
Filled(had, listed) ==
  [u \in Users |-> IF listed[u] = "none" THEN had[u] ELSE listed[u]]

FillCache(p, listed) == [cached EXCEPT ![p] = Filled(cached[p], listed)]

\* A slip: what is not in the cache is taken not to exist.
CacheMiss_IsFinal == "create"

CacheMiss == "list"

\* What a call does to the users in Aiven, and to the cache when it succeeds.
\* A created user is not cached by itself.
Created(u) == [users EXCEPT ![u] = "right"]
Updated(u) == [users EXCEPT ![u] = "right"]
Deleted(u) == [users EXCEPT ![u] = "none"]

Recached(p, u) == [cached EXCEPT ![p] = [cached[p] EXCEPT ![u] = "right"]]
Uncached(p, u) == [cached EXCEPT ![p] = [cached[p] EXCEPT ![u] = "none"]]

\* An entry's five minutes are over; so are the addresses'.
CacheExpires(p, u) ==
  /\ cached[p][u] # "none"
  /\ cached' = Uncached(p, u)
  /\ known' = known

AddressesExpire(p) ==
  /\ known[p]
  /\ known' = [known EXCEPT ![p] = FALSE]
  /\ cached' = cached

\* Only Kafka asks for cached addresses; the others ask Aiven every time.
\* Asking fills the cache, which is left out where nobody reads it.
AddressesKnown(p) == kind = "kafka" /\ known[p]
AskedFor(p)       == [known EXCEPT ![p] = (kind = "kafka")]

-----------------------------------------------------------------------------
ServiceComesUp ==
  /\ service = "building"
  /\ service' = "running"
  /\ UNCHANGED <<kind, users, acl, memory>>

ServiceGoes ==
  /\ service = "running"
  /\ service' = "gone"
  /\ users' = Nobody
  /\ acl' = {}
  /\ UNCHANGED <<kind, memory>>

ServiceTypeOK ==
  /\ kind \in Kinds
  /\ service \in {"building", "running", "gone"}
  /\ users \in [Users -> Access]
  /\ acl \subseteq Users
  /\ cached \in [Processes -> [Users -> Access]]
  /\ known \in [Processes -> BOOLEAN]
=============================================================================
