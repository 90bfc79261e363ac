---------------------------- MODULE EffectsOutbox ----------------------------
(***************************************************************************)
(* The outbox of side effects of one trace (kernel/effects_outbox.py) and  *)
(* its users: the report graph enqueues and drains the trace's workspace   *)
(* effects (workspace/outbox_handlers.py), the dispatcher enqueues and     *)
(* runs its own effect (advisor/dispatch.py), and execute_pending runs     *)
(* whatever is pending and in its handler map.                             *)
(*                                                                         *)
(* Rows are selected first and handled later, one by one, and every mark   *)
(* names the row and not the status it expects.  Callers are threads of    *)
(* one process that share one connection; a statement and its commit are a *)
(* step, and so is a handler.  A batch is smaller than its limit, and the  *)
(* order of created_at, which ties leave open, is not kept.                *)
(***************************************************************************)
EXTENDS Naturals

CONSTANTS Effect,        \* (effect_type, effect_key) pairs of the trace
          Workspace,     \* the workspace_action effects
          Dispatched,    \* the agent_dispatch effects
          Batched,       \* effects in the handler map of execute_pending
          Caller,        \* threads
          MaxFaults,     \* bound: restarts and marks that could not commit
          NoEffect

ASSUME OutboxAssumption == /\ Workspace \subseteq Effect
                           /\ Dispatched \subseteq Effect \ Workspace
                           /\ Batched \subseteq Effect
                           /\ MaxFaults \in Nat
                           /\ NoEffect \notin Effect

VARIABLES status,      \* effects_outbox.status
          call,        \* where each thread is
          faults,
          performed,   \* ghost: side effects made, 2 for any number over one
          unrecorded,  \* ghost: one was made and its mark lost or "failed"
          shared       \* ghost: two threads had selected it at once

vars == <<status, call, faults, performed, unrecorded, shared>>

Status == {"absent", "pending", "executing", "done", "failed"}

CallType == [at : {"idle", "select", "next", "run", "returned", "raised"},
             how : {"trace", "batch", "dispatch"},
             todo : SUBSET Effect,
             effect : Effect \cup {NoEffect}]

Resting == [at |-> "idle", how |-> "trace", todo |-> {}, effect |-> NoEffect]

Init == /\ status = [e \in Effect |-> "absent"]
        /\ call = [c \in Caller |-> Resting]
        /\ faults = 0
        /\ performed = [e \in Effect |-> 0]
        /\ unrecorded = [e \in Effect |-> FALSE]
        /\ shared = [e \in Effect |-> FALSE]

-----------------------------------------------------------------------------
Mark(e, s) == status' = [status EXCEPT ![e] = s]

\* What a thread has selected and not yet marked.
Owned(c) == (call[c].todo \cup {call[c].effect}) \ {NoEffect}

\* The thread goes through the rows it has read.
Handle(c, how, rows) ==
  /\ call' = [call EXCEPT ![c] = [at |-> IF rows = {} THEN "idle" ELSE "next",
                                  how |-> how, todo |-> rows, effect |-> NoEffect]]
  /\ shared' = [e \in Effect |-> shared[e] \/ (e \in rows /\
                                 \E d \in Caller \ {c} : e \in Owned(d))]

\* The loop turns to the next row, or ends.
Proceed(c) ==
  call' = [call EXCEPT ![c] = IF @.todo = {} THEN Resting
                              ELSE [@ EXCEPT !.at = "next", !.effect = NoEffect]]

Once(n) == IF n = 0 THEN 1 ELSE 2

-----------------------------------------------------------------------------
(* Enqueueing.                                                             *)

\* enqueue is INSERT OR IGNORE: a known key changes nothing.
Enqueue(e) == /\ e \notin Dispatched
              /\ status[e] = "absent"
              /\ Mark(e, "pending")
              /\ UNCHANGED <<call, faults, performed, unrecorded, shared>>

\* Mutant: only is_done keeps an effect from being dispatched.
DispatchUndone(c, e) ==
  /\ call[c].at = "idle"
  /\ e \in Dispatched
  /\ status[e] # "done"
  /\ Mark(e, IF status[e] = "absent" THEN "pending" ELSE status[e])
  /\ call' = [call EXCEPT ![c] = [at |-> "run", how |-> "dispatch", todo |-> {}, effect |-> e]]
  /\ UNCHANGED <<faults, performed, unrecorded, shared>>

\* dispatch: the effect runs while its row says pending; who finds the key
\* taken answers already_dispatched or duplicate and runs nothing.
Dispatch(c, e) ==
  /\ call[c].at = "idle"
  /\ e \in Dispatched
  /\ status[e] = "absent"
  /\ Mark(e, "pending")
  /\ call' = [call EXCEPT ![c] = [at |-> "run", how |-> "dispatch", todo |-> {}, effect |-> e]]
  /\ UNCHANGED <<faults, performed, unrecorded, shared>>

-----------------------------------------------------------------------------
(* Selecting.                                                              *)

\* Mutant: whatever the trace has.
DrainTraceAgain(c, again) ==
  /\ call[c].at = "idle"
  /\ Handle(c, "trace", {e \in Workspace : status[e] # "absent"})
  /\ UNCHANGED <<status, faults, performed, unrecorded>>

\* execute_workspace_effects_for_trace: an executing row is taken for one
\* that a dead process left behind.
DrainTrace(c, again) ==
  /\ call[c].at = "idle"
  /\ Handle(c, "trace", {e \in Workspace :
       status[e] \in {"pending", "executing"} \cup (IF again THEN {"failed"} ELSE {})})
  /\ UNCHANGED <<status, faults, performed, unrecorded>>

\* execute_pending; a row without a handler is left as it is.
SelectPending(c) ==
  /\ call[c].at \in {"idle", "select"}
  /\ Handle(c, "batch", {e \in Batched : status[e] = "pending"})
  /\ UNCHANGED <<status, faults, performed, unrecorded>>

\* Mutants: the reset has no WHERE for the status; it writes another status.
ResetAll(c) ==
  /\ call[c].at = "idle"
  /\ status' = [e \in Effect |-> IF status[e] = "absent" THEN "absent" ELSE "pending"]
  /\ call' = [call EXCEPT ![c].at = "select"]
  /\ UNCHANGED <<faults, performed, unrecorded, shared>>

ResetToRetry(c) ==
  /\ call[c].at = "idle"
  /\ status' = [e \in Effect |-> IF status[e] = "failed" THEN "retry" ELSE status[e]]
  /\ call' = [call EXCEPT ![c].at = "select"]
  /\ UNCHANGED <<faults, performed, unrecorded, shared>>

\* retry_failed, which then calls execute_pending.
ResetFailed(c) ==
  /\ call[c].at = "idle"
  /\ status' = [e \in Effect |-> IF status[e] = "failed" THEN "pending" ELSE status[e]]
  /\ call' = [call EXCEPT ![c].at = "select"]
  /\ UNCHANGED <<faults, performed, unrecorded, shared>>

-----------------------------------------------------------------------------
(* Handling a row.                                                         *)

Picked(c, e) == /\ call[c].at = "next"
                /\ e \in call[c].todo
                /\ call' = [call EXCEPT ![c].at = "run", ![c].effect = e,
                                        ![c].todo = @ \ {e}]

\* Mutant: the row is marked done before the handler runs.
PickMarkingDone(c, e) ==
  /\ Picked(c, e)
  /\ Mark(e, IF call[c].how = "batch" THEN "done" ELSE status[e])
  /\ UNCHANGED <<faults, performed, unrecorded, shared>>

\* execute_pending says executing first, whatever has become of the row
\* since it was read; a drain does not.
Pick(c, e) ==
  /\ Picked(c, e)
  /\ Mark(e, IF call[c].how = "batch" THEN "executing" ELSE status[e])
  /\ UNCHANGED <<faults, performed, unrecorded, shared>>

HandlerReturns(c) ==
  /\ call[c].at = "run"
  /\ call' = [call EXCEPT ![c].at = "returned"]
  /\ performed' = [performed EXCEPT ![call[c].effect] = Once(@)]
  /\ UNCHANGED <<status, faults, unrecorded, shared>>

\* A handler may have made its effect before it raises.
HandlerRaises(c) ==
  /\ call[c].at = "run"
  /\ call' = [call EXCEPT ![c].at = "raised"]
  /\ \/ /\ performed' = [performed EXCEPT ![call[c].effect] = Once(@)]
        /\ unrecorded' = [unrecorded EXCEPT ![call[c].effect] = TRUE]
     \/ UNCHANGED <<performed, unrecorded>>
  /\ UNCHANGED <<status, faults, shared>>

MarkOutcome(c) ==
  /\ call[c].at \in {"returned", "raised"}
  /\ Mark(call[c].effect, IF call[c].at = "returned" THEN "done" ELSE "failed")
  /\ Proceed(c)
  /\ UNCHANGED <<faults, performed, unrecorded, shared>>

-----------------------------------------------------------------------------
(* Faults.                                                                 *)

\* A mark cannot be committed.  A batch that cannot mark a row done marks it
\* failed; otherwise the exception leaves the loop (or the dispatcher,
\* which swallows it, is at its end).
MarkRefused(c) ==
  /\ faults < MaxFaults
  /\ faults' = faults + 1
  /\ \/ /\ call[c].at = "returned"
        /\ call' = [call EXCEPT ![c] = IF @.how = "batch" THEN [@ EXCEPT !.at = "raised"]
                                       ELSE Resting]
        /\ unrecorded' = [unrecorded EXCEPT ![call[c].effect] = TRUE]
     \/ /\ call[c].at = "raised"
        /\ call' = [call EXCEPT ![c] = Resting]
        /\ UNCHANGED unrecorded
     \/ /\ call[c].at = "next" /\ call[c].how = "batch"
        /\ call' = [call EXCEPT ![c] = Resting]
        /\ UNCHANGED unrecorded
  /\ UNCHANGED <<status, performed, shared>>

\* The process ends: running handlers may have made their effects.
Restart ==
  /\ faults < MaxFaults
  /\ faults' = faults + 1
  /\ call' = [c \in Caller |-> Resting]
  /\ \E made \in SUBSET {c \in Caller : call[c].at = "run"} :
       /\ performed' = [e \in Effect |->
            IF \A c \in made : call[c].effect # e THEN performed[e]
            ELSE IF \E c, d \in made : c # d /\ call[c].effect = e /\ call[d].effect = e
            THEN 2 ELSE Once(performed[e])]
       /\ unrecorded' = [e \in Effect |->
            \/ unrecorded[e]
            \/ \E c \in Caller : /\ call[c].effect = e
                                 /\ (c \in made \/ call[c].at = "returned")]
  /\ UNCHANGED <<status, shared>>

-----------------------------------------------------------------------------
Step(c) == \/ \E e \in Effect : Dispatch(c, e) \/ Pick(c, e)
           \/ \E again \in BOOLEAN : DrainTrace(c, again)
           \/ SelectPending(c)
           \/ ResetFailed(c)
           \/ HandlerReturns(c)
           \/ HandlerRaises(c)
           \/ MarkOutcome(c)
           \/ MarkRefused(c)

Next == \/ \E e \in Effect : Enqueue(e)
        \/ \E c \in Caller : Step(c)
        \/ Restart

Spec == Init /\ [][Next]_vars

-----------------------------------------------------------------------------
(* Properties.                                                             *)

\* Rows, threads and ghosts have their types.
OutboxTypeOK == /\ status \in [Effect -> Status]
                /\ call \in [Caller -> CallType]
                /\ faults \in 0 .. MaxFaults
                /\ performed \in [Effect -> 0 .. 2]
                /\ unrecorded \in [Effect -> BOOLEAN]
                /\ shared \in [Effect -> BOOLEAN]

\* An effect that only its dispatcher runs is made at most once, by whichever
\* threads and restarts: the unique key decides, although is_done is asked
\* before the insert and the row says pending while the effect is made
\* (dispatch.py).
DispatchOnce == \A e \in Dispatched \ Batched : performed[e] <= 1

\* "On retry / resume / replay, already-completed effects are automatically
\* skipped": an effect is made twice only if the record of the first time was
\* lost or says failed, or two threads had read the row before either marked
\* it.
RepeatHasCause == \A e \in Effect : performed[e] = 2 => unrecorded[e] \/ shared[e]

\* Nothing is called done, by any path, that was not made (execute_pending,
\* mark_done): effects may be repeated, they are not skipped.
DoneIsPerformed == \A e \in Effect : status[e] = "done" => performed[e] > 0

\* A done row stays done, retries included, unless another thread had read it
\* before: no mark names the status it replaces.
DoneKept == [][\A e \in Effect : status[e] = "done" /\ status'[e] # "done" => shared[e]]_vars
=============================================================================
