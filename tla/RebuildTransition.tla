-------------------------- MODULE RebuildTransition ---------------------------
(***************************************************************************)
(* The one-shot coordinator that moves an F16 model to another execution   *)
(* plan (nnis-model execution_transition.rs).  execute calls the serving   *)
(* owner's F16RebuildTransitionRuntime step by step; every call may fail   *)
(* and then rolls back.  Clients open and close sessions meanwhile.        *)
(*                                                                         *)
(* The runtime is a trait without an implementation in the repository: its *)
(* state and the effect of its calls follow the contract of the trait and  *)
(* of docs/NNML2_F16_REBUILD_TRANSITION_V1.md.  The fields of a            *)
(* transaction are public and deserializable, so it may hold anything.     *)
(* One transaction object exists at a time.                                *)
(***************************************************************************)
EXTENDS Naturals

CONSTANTS
    Plans,       \* execution plans
    Clients,     \* session slots of the runtime
    MaxBytes,    \* u64::MAX
    MaxTx        \* bound: transactions created in one behaviour

None == "none"

ASSUME RebuildAssumption ==
    /\ Plans # {} /\ None \notin Plans
    /\ MaxBytes \in Nat /\ MaxTx \in Nat

VARIABLES
    tx,          \* the transaction object
    active,      \* runtime: plan of the authoritative model
    admitting,   \* runtime: new sessions are accepted
    sessions,    \* runtime: plan of the model each open session runs on
    kv,          \* runtime: plans whose session/KV state is still around
    candidate,   \* plan of the rebuilt candidate, if there is one
    running,     \* a call of execute is in progress
    stuck,       \* ghost: the last rollback failed
    created      \* transactions created so far (bounded)

runtime == <<active, admitting, sessions, kv>>
vars == <<tx, active, admitting, sessions, kv, candidate, running, stuck, created>>

Bytes == 0..MaxBytes
Calling == {"Quiescing", "Rebuilding", "Verifying", "InvalidatingSessionState",
            "Committing"}
Ended  == {"Committed", "RolledBack"}
Phases == Calling \cup Ended \cup {"Prepared", "RollingBack"}

\* F16RebuildTransitionV1 with its F16RebuildMemoryBudgetV1.
Transactions == [phase : Phases, source : Plans, target : Plans,
                 sourceBytes : Bytes, targetBytes : Bytes, budget : Bytes]

TypeOK ==
    /\ tx \in Transactions
    /\ active \in Plans
    /\ admitting \in BOOLEAN
    /\ sessions \in [Clients -> Plans \cup {None}]
    /\ kv \subseteq Plans
    /\ candidate \in Plans \cup {None}
    /\ running \in BOOLEAN /\ stuck \in BOOLEAN
    /\ created \in 0..MaxTx
    /\ candidate # None => running
    /\ running => tx.phase \in Calling \cup {"RollingBack"}

Init ==
    /\ tx \in Transactions
    /\ active \in Plans
    /\ admitting = TRUE
    /\ sessions = [c \in Clients |-> None]
    /\ kv = {}
    /\ candidate = None
    /\ running = FALSE /\ stuck = FALSE
    /\ created = 0

-----------------------------------------------------------------------------
\* Clients (the runtime's side of the contract: no session after quiescence).
OpenSession(c) ==
    /\ admitting /\ sessions[c] = None
    /\ sessions' = [sessions EXCEPT ![c] = active]
    /\ kv' = kv \cup {active}
    /\ UNCHANGED <<tx, active, admitting, candidate, running, stuck, created>>

\* The session ends; what it left in the runtime's KV state stays.
CloseSession(c) ==
    /\ sessions[c] # None
    /\ sessions' = [sessions EXCEPT ![c] = None]
    /\ UNCHANGED <<tx, active, admitting, kv, candidate, running, stuck, created>>

\* A transaction is built, deserialized or edited by its owner.
Create(t) ==
    /\ ~running /\ created < MaxTx
    /\ tx' = t /\ created' = created + 1
    /\ UNCHANGED runtime /\ UNCHANGED <<candidate, running, stuck>>

-----------------------------------------------------------------------------
\* Mutant: the double-residency sum wraps around at u64.
RequiredWrapping(t) == (t.sourceBytes + t.targetBytes) % (MaxBytes + 1)

\* required_double_resident_bytes; the sum that does not fit is an error, which
\* no budget admits.
Required(t) == t.sourceBytes + t.targetBytes

\* F16RebuildMemoryBudgetV1::validate.
BudgetValid(t) ==
    /\ t.sourceBytes # 0 /\ t.targetBytes # 0
    /\ Required(t) <= t.budget

\* Mutant: execute does not look at the phase.
ValidAnyPhase(t) == t.source # t.target /\ BudgetValid(t)

\* validate_preconditions.
Valid(t) == t.phase = "Prepared" /\ t.source # t.target /\ BudgetValid(t)

\* execute passes its checks; failing them it returns with nothing changed.
Execute ==
    /\ ~running /\ Valid(tx)
    /\ running' = TRUE
    /\ tx' = [tx EXCEPT !.phase = "Quiescing"]
    /\ UNCHANGED runtime /\ UNCHANGED <<candidate, stuck, created>>

At(phase) == running /\ tx.phase = phase
Goto(phase) == tx' = [tx EXCEPT !.phase = phase]

\* begin_quiescence.
Quiesce ==
    /\ At("Quiescing") /\ admitting
    /\ admitting' = FALSE
    /\ UNCHANGED <<tx, active, sessions, kv, candidate, running, stuck, created>>

\* No active sessions and the source weights are there (or they are not:
\* CallFails).
CheckQuiesced ==
    /\ At("Quiescing") /\ ~admitting
    /\ \A c \in Clients : sessions[c] = None
    /\ Goto("Rebuilding")
    /\ UNCHANGED runtime /\ UNCHANGED <<candidate, running, stuck, created>>

\* rebuild_candidate.
Rebuild ==
    /\ At("Rebuilding")
    /\ candidate' = tx.target
    /\ Goto("Verifying")
    /\ UNCHANGED runtime /\ UNCHANGED <<running, stuck, created>>

\* Mutant: the verified candidate is committed with the old KV state around.
VerifyThenCommit ==
    /\ At("Verifying")
    /\ Goto("Committing")
    /\ UNCHANGED runtime /\ UNCHANGED <<candidate, running, stuck, created>>

\* verify_candidate.
Verify ==
    /\ At("Verifying")
    /\ Goto("InvalidatingSessionState")
    /\ UNCHANGED runtime /\ UNCHANGED <<candidate, running, stuck, created>>

\* invalidate_sessions_and_kv.
Invalidate ==
    /\ At("InvalidatingSessionState")
    /\ sessions' = [c \in Clients |-> None] /\ kv' = {}
    /\ Goto("Committing")
    /\ UNCHANGED <<active, admitting, candidate, running, stuck, created>>

\* Mutant: the candidate handle outlives the commit.
CommitKeepsCandidate ==
    /\ At("Committing")
    /\ active' = candidate /\ admitting' = TRUE
    /\ running' = FALSE /\ stuck' = FALSE
    /\ Goto("Committed")
    /\ UNCHANGED <<sessions, kv, candidate, created>>

\* commit_candidate exposes the candidate; execute returns the receipt.
Commit ==
    /\ At("Committing")
    /\ active' = candidate /\ candidate' = None /\ admitting' = TRUE
    /\ running' = FALSE /\ stuck' = FALSE
    /\ Goto("Committed")
    /\ UNCHANGED <<sessions, kv, created>>

\* Mutant: a failing call returns its error at once.
CallFailsReturns ==
    /\ running /\ tx.phase \in Calling
    /\ tx' = [tx EXCEPT !.phase = "RolledBack"]
    /\ candidate' = None /\ running' = FALSE
    /\ \/ UNCHANGED runtime
       \/ At("Quiescing") /\ admitting' = FALSE /\ UNCHANGED <<active, sessions, kv>>
       \/ At("InvalidatingSessionState") /\ kv' = {} /\ UNCHANGED <<active, admitting, sessions>>
    /\ UNCHANGED <<stuck, created>>

\* A call fails, sessions are left, or the source weights are gone: the
\* candidate is dropped and the rollback begins.  A failed call may have done
\* its work nevertheless.
CallFails ==
    /\ running /\ tx.phase \in Calling
    /\ Goto("RollingBack")
    /\ candidate' = None
    /\ \/ UNCHANGED runtime
       \/ At("Quiescing") /\ admitting' = FALSE /\ UNCHANGED <<active, sessions, kv>>
       \/ At("InvalidatingSessionState") /\ kv' = {} /\ UNCHANGED <<active, admitting, sessions>>
    /\ UNCHANGED <<running, stuck, created>>

\* rollback_to_source restores admission, or fails; the phase is RolledBack in
\* both cases and execute returns the error.
Rollback ==
    /\ At("RollingBack")
    /\ Goto("RolledBack")
    /\ running' = FALSE
    /\ \/ admitting' = TRUE /\ stuck' = FALSE
       \/ stuck' = TRUE /\ UNCHANGED admitting
    /\ UNCHANGED <<active, sessions, kv, candidate, created>>

-----------------------------------------------------------------------------
Next ==
    \/ \E c \in Clients : OpenSession(c) \/ CloseSession(c)
    \/ \E t \in Transactions : Create(t)
    \/ Execute \/ Quiesce \/ CheckQuiesced \/ Rebuild \/ Verify \/ Invalidate
    \/ Commit \/ CallFails \/ Rollback

Spec == Init /\ [][Next]_vars

-----------------------------------------------------------------------------
\* execution_transition.rs:240-242 and 358-368: whatever fails, and whenever
\* clients come and go, no session and no KV state of another plan's model is
\* around beside the authoritative model.
StateMatchesModel ==
    /\ kv \subseteq {active}
    /\ \A c \in Clients : sessions[c] \in {active, None}

\* execution_transition.rs:123-157 and 272-275: a candidate is resident beside
\* the source only if the true sum of both fits the budget, also for values that
\* never went through the constructors.
CandidateAdmitted ==
    candidate # None => /\ tx.sourceBytes + tx.targetBytes <= tx.budget
                        /\ tx.source # tx.target /\ tx.targetBytes > 0

\* execution_transition.rs:242 and NNML2_F16_REBUILD_TRANSITION_V1.md:44: every
\* failure attempts rollback, so between transactions the runtime admits
\* sessions again unless the last rollback itself failed.
AdmissionRestored == ~running /\ ~stuck => admitting

\* execution_transition.rs:283-287: an ended transaction object runs no more,
\* and the authoritative model changes only when a transaction ends committed.
CommitsOnce ==
    [][/\ tx.phase \in Ended /\ created' = created => tx' = tx
       /\ active' # active => tx.phase = "Committing" /\ tx'.phase = "Committed"
                              /\ active' = tx.target]_vars

\* execution_transition.rs:240-242: what the coordinator promises of every state,
\* however a transition ends: the three of them together.
TransitionSafe == StateMatchesModel /\ CandidateAdmitted /\ AdmissionRestored

-----------------------------------------------------------------------------
\* The inductive strengthening of the invariants.

\* A session's model has left KV state; past quiescence there is no session,
\* past invalidation no KV state, and the candidate is the target's.
TxProgress ==
    /\ running /\ tx.phase \in Calling => tx.source # tx.target /\ BudgetValid(tx)
    /\ running /\ tx.phase \in Calling \ {"Quiescing"} =>
          ~admitting /\ \A c \in Clients : sessions[c] = None
    /\ running /\ tx.phase \in {"Verifying", "InvalidatingSessionState", "Committing"} =>
          candidate = tx.target
    /\ running /\ tx.phase = "Committing" => kv = {}
    /\ candidate # None =>
          running /\ tx.phase \in {"Verifying", "InvalidatingSessionState", "Committing"}

IInv == TypeOK /\ TxProgress /\ StateMatchesModel /\ CandidateAdmitted
          /\ AdmissionRestored
=============================================================================
