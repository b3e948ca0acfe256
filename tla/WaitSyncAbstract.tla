--------------------------- MODULE WaitSyncAbstract ---------------------------
(***************************************************************************)
(* What a wait on a sync object promises (block_until_complete, spec.md    *)
(* sections 4.2 and 4.3), with no ring, lock, condition or progress duty: *)
(* an owner posts operations and waits; operations complete, each with a  *)
(* status, and an abort may fail a waiting sync; the wait returns only     *)
(* when every operation it waits for has completed or an error has hit    *)
(* the sync, and reports ERROR exactly in the second case; then the owner *)
(* releases the sync.  WaitSync is shown to implement this module.         *)
(***************************************************************************)
EXTENDS Naturals

CONSTANTS
  Waiters,  \* owners, each with its sync
  Statuses, \* statuses an operation completes with
  SUCCESS,
  MaxPost   \* bound: operations posted at once

VARIABLES
  phase,       \* "idle", "waiting" or "returned", per sync
  outstanding, \* operations posted on the sync and not completed
  failed,      \* an error has hit the sync since it was last posted on
  result       \* what the last wait returned, "none" while it has not

avars == << phase, outstanding, failed, result >>

Init ==
  /\ phase = [w \in Waiters |-> "idle"]
  /\ outstanding = [w \in Waiters |-> 0]
  /\ failed = [w \in Waiters |-> FALSE]
  /\ result = [w \in Waiters |-> "none"]

(* The owner posts up to MaxPost operations on its sync and starts to     *)
(* wait.                                                                   *)
Post(w) ==
  /\ phase[w] = "idle"
  /\ \E c \in 0..MaxPost : outstanding' = [outstanding EXCEPT ![w] = @ + c]
  /\ phase' = [phase EXCEPT ![w] = "waiting"]
  /\ failed' = [failed EXCEPT ![w] = FALSE]
  /\ result' = [result EXCEPT ![w] = "none"]

(* One posted operation of s completes with status st. *)
Complete(s, st) ==
  /\ outstanding[s] > 0
  /\ outstanding' = [outstanding EXCEPT ![s] = @ - 1]
  /\ failed' = [failed EXCEPT ![s] = @ \/ st # SUCCESS]
  /\ UNCHANGED << phase, result >>

(* An abort fails a sync that is being waited on. *)
Fail(s) ==
  /\ phase[s] = "waiting"
  /\ failed' = [failed EXCEPT ![s] = TRUE]
  /\ UNCHANGED << phase, outstanding, result >>

(* The wait returns once its operations are done or an error hit it. *)
Return(w) ==
  /\ phase[w] = "waiting"
  /\ outstanding[w] = 0 \/ failed[w]
  /\ phase' = [phase EXCEPT ![w] = "returned"]
  /\ result' = [result EXCEPT ![w] = IF failed[w] THEN "ERROR" ELSE "SUCCESS"]
  /\ UNCHANGED << outstanding, failed >>

(* The owner releases the sync after the wait has returned. *)
Release(w) ==
  /\ phase[w] = "returned"
  /\ phase' = [phase EXCEPT ![w] = "idle"]
  /\ UNCHANGED << outstanding, failed, result >>

Next ==
  \/ \E w \in Waiters : Post(w)
  \/ \E s \in Waiters, st \in Statuses : Complete(s, st)
  \/ \E s \in Waiters : Fail(s)
  \/ \E w \in Waiters : Return(w) \/ Release(w)

SafetySpec == Init /\ [][Next]_avars

(* A wait that can return does, and a returned sync is released. *)
Spec ==
  /\ SafetySpec
  /\ \A w \in Waiters : WF_avars(Return(w)) /\ WF_avars(Release(w))
=============================================================================
