----------------------------- MODULE Credentials -----------------------------
(***************************************************************************)
(* What Aivenator promises about Secrets, whatever its controllers do to   *)
(* keep it: credentials are stored in a Secret for a generation of the     *)
(* application, only ever replaced by newer ones, and go away only with    *)
(* the Secret, after they have been cleaned up for in Aiven. What is       *)
(* claimed to be synchronized has been stored.                             *)
(*                                                                         *)
(* Nothing here knows of runs, caches, queues, versions or faults. Module  *)
(* Aivenator implements this one (CredentialsAreKept).                     *)
(***************************************************************************)
EXTENDS Naturals

CONSTANTS
  Secrets,   (* names of the Secrets                                       *)
  MaxGen,    (* the last generation of the application                     *)
  Needs      (* Needs[g]: the Secrets that generation g asks for           *)

VARIABLES
  wanted,    (* the application's generation                               *)
  claim,     (* the generation that is said to be synchronized, or 0       *)
  phase,     (* "absent", "live" or "terminating", for each Secret         *)
  holds,     (* the generation a Secret's credentials are for, or 0        *)
  stored,    (* whether credentials have ever been stored in it            *)
  cleaned    (* whether what it holds has been cleaned up for              *)

vars == <<wanted, claim, phase, holds, stored, cleaned>>

There(s) == phase[s] # "absent"

Init ==
  /\ wanted = 1
  /\ claim = 0
  /\ phase = [s \in Secrets |-> "absent"]
  /\ holds = [s \in Secrets |-> 0]
  /\ stored = [s \in Secrets |-> FALSE]
  /\ cleaned = [s \in Secrets |-> FALSE]

\* A new spec is applied.
Request ==
  /\ wanted < MaxGen
  /\ wanted' = wanted + 1
  /\ UNCHANGED <<claim, phase, holds, stored, cleaned>>

\* Credentials for a generation are stored: in a new Secret, or in place of
\* older ones. A Secret that is being deleted stays so.
Store(s, g) ==
  /\ g <= wanted
  /\ There(s) => g >= holds[s]
  /\ phase' = [phase EXCEPT ![s] = IF There(s) THEN @ ELSE "live"]
  /\ holds' = [holds EXCEPT ![s] = g]
  /\ stored' = [stored EXCEPT ![s] = TRUE]
  /\ cleaned' = [cleaned EXCEPT ![s] = FALSE]
  /\ UNCHANGED <<wanted, claim>>

\* Everything the current generation asks for has been stored, if not deleted
\* again since, and is said to be.
Claim ==
  /\ \A s \in Needs[wanted] : stored[s] /\ (There(s) => holds[s] >= wanted)
  /\ claim' = wanted
  /\ UNCHANGED <<wanted, phase, holds, stored, cleaned>>

\* Somebody deletes a Secret.
Delete(s) ==
  /\ phase[s] = "live"
  /\ phase' = [phase EXCEPT ![s] = "terminating"]
  /\ cleaned' = [cleaned EXCEPT ![s] = FALSE]
  /\ UNCHANGED <<wanted, claim, holds, stored>>

Clean(s) ==
  /\ There(s)
  /\ cleaned' = [cleaned EXCEPT ![s] = TRUE]
  /\ UNCHANGED <<wanted, claim, phase, holds, stored>>

\* That a cleanup was done may be forgotten: it is then done again.
Forget(S) ==
  /\ cleaned' = [s \in Secrets |-> cleaned[s] /\ s \notin S]
  /\ UNCHANGED <<wanted, claim, phase, holds, stored>>

Remove(s) ==
  /\ There(s)
  /\ cleaned[s]
  /\ phase' = [phase EXCEPT ![s] = "absent"]
  /\ holds' = [holds EXCEPT ![s] = 0]
  /\ cleaned' = [cleaned EXCEPT ![s] = FALSE]
  /\ UNCHANGED <<wanted, claim, stored>>

Next ==
  \/ Request
  \/ Claim
  \/ \E s \in Secrets :
       \/ \E g \in 1 .. MaxGen : Store(s, g)
       \/ Delete(s)
       \/ Clean(s)
       \/ Remove(s)
  \/ \E S \in SUBSET Secrets : Forget(S)

Spec == Init /\ [][Next]_vars
=============================================================================
