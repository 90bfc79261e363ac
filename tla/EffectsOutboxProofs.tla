------------------------- MODULE EffectsOutboxProofs -------------------------
(***************************************************************************)
(* What EffectsOutbox guarantees for every set of effects, callers and     *)
(* handlers.                                                               *)
(*                                                                         *)
(* The invariant says what a thread may assume of the rows it has read     *)
(* (Mine), that two threads which have read one row know it (Alone), and   *)
(* keeps the books between rows and side effects (Ledger, Runs): an effect *)
(* that was made, of which no record was lost and which nobody shared, is  *)
(* done or is just being marked done.                                      *)
(***************************************************************************)
EXTENDS EffectsOutbox, TLAPS

Solo == Dispatched \ Batched

\* A thread without a row at hand has none selected, or is between two rows.
Shape ==
  \A c \in Caller :
    /\ call[c].at \in {"idle", "select"} => call[c].todo = {}
    /\ call[c].at \in {"idle", "select", "next"} <=> call[c].effect = NoEffect
    /\ call[c].effect \notin call[c].todo

Mine ==
  \A c \in Caller : \A e \in Owned(c) :
    /\ status[e] # "absent"
    /\ status[e] = "done" => shared[e]
    /\ e \in Solo => e \notin call[c].todo

Alone ==
  \A c, d \in Caller : c # d =>
    \A e \in Owned(c) : e \in Owned(d) => shared[e] /\ e \notin Solo

Returned(c, e) == call[c].at = "returned" /\ call[c].effect = e

Ledger ==
  \A e \in Effect :
    /\ status[e] = "absent" => performed[e] = 0
    /\ status[e] = "done" => performed[e] > 0
    /\ (~shared[e] /\ ~unrecorded[e]) =>
         /\ performed[e] # 2
         /\ performed[e] = 1 => status[e] = "done" \/ \E c \in Caller : Returned(c, e)
    /\ e \in Solo => performed[e] # 2

Runs ==
  \A c \in Caller :
    /\ call[c].at = "returned" => performed[call[c].effect] > 0
    /\ call[c].at = "run" /\ call[c].effect \in Solo => performed[call[c].effect] = 0

Inv == OutboxTypeOK /\ Shape /\ Mine /\ Alone /\ Ledger /\ Runs

-----------------------------------------------------------------------------
(* The initial state.                                                      *)

LEMMA InitInv == Init => Inv
<1> SUFFICES ASSUME Init PROVE Inv
  OBVIOUS
<1> USE OutboxAssumption DEF Init, Resting
<1>1. OutboxTypeOK
  BY DEF OutboxTypeOK, Status, CallType
<1>2. Shape
  BY DEF Shape
<1>3. \A c \in Caller : Owned(c) = {}
  BY DEF Owned
<1>4. Mine /\ Alone
  BY <1>3 DEF Mine, Alone
<1>5. Ledger /\ Runs
  BY DEF Ledger, Runs
<1> QED
  BY <1>1, <1>2, <1>4, <1>5 DEF Inv

-----------------------------------------------------------------------------
(* Enqueueing.                                                             *)

LEMMA EnqueueInv ==
  ASSUME Inv, NEW e \in Effect, Enqueue(e)
  PROVE  Inv'
<1> USE DEF Enqueue, Mark
<1>1. OutboxTypeOK'
  BY DEF Inv, OutboxTypeOK, Status
<1>2. \A c \in Caller : Owned(c)' = Owned(c)
  BY DEF Owned
<1>3. Shape' /\ Alone'
  BY <1>2 DEF Inv, Shape, Alone
<1>4. Mine'
  BY <1>2 DEF Inv, Mine, OutboxTypeOK, Owned, CallType
<1>5. Ledger' /\ Runs'
  BY DEF Inv, Ledger, Runs, Returned, OutboxTypeOK
<1> QED
  BY <1>1, <1>3, <1>4, <1>5 DEF Inv

LEMMA DispatchInv ==
  ASSUME Inv, NEW c \in Caller, NEW e \in Effect, Dispatch(c, e)
  PROVE  Inv'
<1> USE OutboxAssumption DEF Dispatch, Mark
<1>1. OutboxTypeOK'
  BY DEF Inv, OutboxTypeOK, Status, CallType
<1>2. Shape'
  BY DEF Inv, OutboxTypeOK, Shape, CallType
<1>3. /\ Owned(c)' = {e}
      /\ \A d \in Caller \ {c} : Owned(d)' = Owned(d)
  BY DEF Inv, OutboxTypeOK, Owned
<1>4. \A d \in Caller : e \notin Owned(d)
  BY DEF Inv, Mine
<1>5. call'[c].todo = {} /\ status'[e] = "pending"
  BY DEF Inv, OutboxTypeOK
<1>6. Mine'
  BY <1>3, <1>4, <1>5 DEF Inv, Mine, OutboxTypeOK, Owned, CallType
<1>7. Alone'
  BY <1>3, <1>4 DEF Inv, Alone
<1>8. Ledger'
  BY DEF Inv, Ledger, Returned, OutboxTypeOK
<1>9. Runs'
  BY DEF Inv, Ledger, Runs, OutboxTypeOK
<1> QED
  BY <1>1, <1>2, <1>6, <1>7, <1>8, <1>9 DEF Inv

-----------------------------------------------------------------------------
(* Selecting.                                                              *)

\* A thread at rest may take any rows that are there, not done and not of a
\* dispatcher alone.
LEMMA HandleInv ==
  ASSUME Inv, NEW c \in Caller, NEW rows \in SUBSET Effect, NEW how \in {"trace", "batch"},
         call[c].at \in {"idle", "select"},
         \A e \in rows : status[e] \notin {"absent", "done"} /\ e \notin Solo,
         Handle(c, how, rows),
         UNCHANGED <<status, faults, performed, unrecorded>>
  PROVE  Inv'
<1> USE OutboxAssumption DEF Handle
<1>1. OutboxTypeOK'
  BY DEF Inv, OutboxTypeOK, CallType
<1>2. Shape'
  BY DEF Inv, OutboxTypeOK, Shape, CallType
<1>3. /\ Owned(c)' = rows
      /\ \A d \in Caller \ {c} : Owned(d)' = Owned(d)
  BY DEF Inv, OutboxTypeOK, Owned, CallType
<1>4. \A e \in Effect : shared[e] => shared'[e]
  BY DEF Inv, OutboxTypeOK
<1>5. \A d \in Caller : Owned(d) \subseteq Effect
  BY DEF Inv, OutboxTypeOK, Owned, CallType
<1>6. Mine'
  <2>1. \A e \in rows : e \in Effect /\ (e \in Solo => e \notin call'[c].todo)
    OBVIOUS
  <2>2. \A d \in Caller \ {c} : call'[d] = call[d]
    BY DEF Inv, OutboxTypeOK
  <2> QED
    BY <1>3, <1>4, <1>5, <2>1, <2>2 DEF Inv, Mine
<1>7. \A e \in rows, d \in Caller \ {c} : e \in Owned(d) => shared'[e]
  OBVIOUS
<1>8. Alone'
  BY <1>3, <1>4, <1>5, <1>7 DEF Inv, Alone
<1>9. \A d \in Caller, e \in Effect : Returned(d, e)' <=> Returned(d, e)
  BY DEF Inv, OutboxTypeOK, Shape, CallType, Returned
<1>10. Ledger'
  BY <1>4, <1>9 DEF Inv, Ledger
<1>11. Runs'
  BY DEF Inv, Runs, OutboxTypeOK
<1> QED
  BY <1>1, <1>2, <1>6, <1>8, <1>10, <1>11 DEF Inv

LEMMA DrainTraceInv ==
  ASSUME Inv, NEW c \in Caller, NEW again \in BOOLEAN, DrainTrace(c, again)
  PROVE  Inv'
<1> DEFINE rows == {e \in Workspace :
      status[e] \in {"pending", "executing"} \cup (IF again THEN {"failed"} ELSE {})}
<1>1. rows \in SUBSET Effect
  BY OutboxAssumption
<1>2. \A e \in rows : status[e] \notin {"absent", "done"} /\ e \notin Solo
  BY OutboxAssumption DEF Solo
<1>3. Handle(c, "trace", rows)
  BY DEF DrainTrace
<1> HIDE DEF rows
<1> QED
  BY <1>1, <1>2, <1>3, HandleInv DEF DrainTrace

LEMMA SelectPendingInv ==
  ASSUME Inv, NEW c \in Caller, SelectPending(c)
  PROVE  Inv'
<1> DEFINE rows == {e \in Batched : status[e] = "pending"}
<1>1. rows \in SUBSET Effect
  BY OutboxAssumption
<1>2. \A e \in rows : status[e] \notin {"absent", "done"} /\ e \notin Solo
  BY DEF Solo
<1>3. Handle(c, "batch", rows)
  BY DEF SelectPending
<1> HIDE DEF rows
<1> QED
  BY <1>1, <1>2, <1>3, HandleInv DEF SelectPending

LEMMA ResetFailedInv ==
  ASSUME Inv, NEW c \in Caller, ResetFailed(c)
  PROVE  Inv'
<1> USE DEF ResetFailed
<1>1. OutboxTypeOK'
  BY DEF Inv, OutboxTypeOK, Status, CallType
<1>2. Shape'
  BY DEF Inv, OutboxTypeOK, Shape, CallType
<1>3. \A d \in Caller : Owned(d)' = Owned(d) /\ call'[d].todo = call[d].todo
  BY DEF Inv, OutboxTypeOK, Owned, CallType
<1>4. \A e \in Effect : \A s \in {"absent", "done"} : status'[e] = s <=> status[e] = s
  BY DEF Inv, OutboxTypeOK
<1>5. \A d \in Caller : Owned(d) \subseteq Effect
  BY DEF Inv, OutboxTypeOK, Owned, CallType
<1>6. Mine' /\ Alone'
  BY <1>3, <1>4, <1>5 DEF Inv, Mine, Alone
<1>7. \A d \in Caller, e \in Effect : Returned(d, e)' <=> Returned(d, e)
  BY DEF Inv, OutboxTypeOK, CallType, Returned
<1>8. Ledger'
  BY <1>4, <1>7 DEF Inv, Ledger
<1>9. Runs'
  BY DEF Inv, Runs, OutboxTypeOK
<1> QED
  BY <1>1, <1>2, <1>6, <1>8, <1>9 DEF Inv

\* What a thread may assume survives every step that gives nobody a row.
LEMMA RowsKept ==
  ASSUME Inv,
         \A d \in Caller : Owned(d)' \subseteq Owned(d) /\ call'[d].todo \subseteq call[d].todo,
         \A f \in Effect : shared[f] => shared'[f],
         \A f \in Effect : status'[f] = "absent" => status[f] = "absent",
         \A f \in Effect : status'[f] = "done" =>
           \/ status[f] = "done" \/ shared'[f]
           \/ \A d \in Caller : f \notin Owned(d)'
  PROVE  Mine' /\ Alone'
<1>1. \A d \in Caller : Owned(d) \subseteq Effect
  BY DEF Inv, OutboxTypeOK, Owned, CallType
<1>2. Mine'
  <2> SUFFICES ASSUME NEW d \in Caller, NEW f \in Owned(d)'
               PROVE  /\ status'[f] # "absent"
                      /\ status'[f] = "done" => shared'[f]
                      /\ f \in Solo => f \notin call'[d].todo
    BY DEF Mine
  <2>1. f \in Effect /\ f \in Owned(d)
    BY <1>1
  <2>2. /\ status[f] # "absent"
        /\ status[f] = "done" => shared[f]
        /\ f \in Solo => f \notin call[d].todo
    BY <2>1 DEF Inv, Mine
  <2> QED
    BY <2>1, <2>2
<1>3. Alone'
  <2> SUFFICES ASSUME NEW c \in Caller, NEW d \in Caller, c # d,
                      NEW f \in Owned(c)', f \in Owned(d)'
               PROVE  shared'[f] /\ f \notin Solo
    BY DEF Alone
  <2>1. f \in Effect /\ f \in Owned(c) /\ f \in Owned(d)
    BY <1>1
  <2> QED
    BY <2>1 DEF Inv, Alone
<1> QED
  BY <1>2, <1>3

-----------------------------------------------------------------------------
(* Handling a row.                                                         *)

LEMMA PickInv ==
  ASSUME Inv, NEW c \in Caller, NEW e \in Effect, Pick(c, e)
  PROVE  Inv'
<1> USE OutboxAssumption DEF Pick, Picked, Mark
<1>1. OutboxTypeOK'
  BY DEF Inv, OutboxTypeOK, Status, CallType
<1>2. Shape'
  BY DEF Inv, OutboxTypeOK, Shape, CallType
<1>3. call[c].effect = NoEffect /\ e \in Owned(c)
  BY DEF Inv, Shape, Owned
<1>4. \A d \in Caller : Owned(d)' = Owned(d) /\ call'[d].todo \subseteq call[d].todo
  BY <1>3 DEF Inv, OutboxTypeOK, Owned, CallType
<1>6. /\ \A f \in Effect : status'[f] = "absent" => status[f] = "absent"
      /\ \A f \in Effect : status'[f] = "done" => status[f] = "done"
      /\ \A f \in Effect : status'[f] # status[f] => f = e
  BY DEF Inv, OutboxTypeOK
<1>7. Mine' /\ Alone'
  BY <1>4, <1>6, RowsKept
<1>8. \A d \in Caller, f \in Effect : Returned(d, f)' <=> Returned(d, f)
  BY <1>3 DEF Inv, OutboxTypeOK, CallType, Returned
<1>9. status[e] = "done" => shared[e]
  BY <1>3 DEF Inv, Mine
<1>10. Ledger'
  <2> SUFFICES ASSUME NEW f \in Effect
               PROVE  /\ status'[f] = "absent" => performed[f] = 0
                      /\ status'[f] = "done" => performed[f] > 0
                      /\ (~shared[f] /\ ~unrecorded[f]) =>
                           /\ performed[f] # 2
                           /\ performed[f] = 1 => status'[f] = "done" \/ \E d \in Caller : Returned(d, f)'
                      /\ f \in Solo => performed[f] # 2
    BY DEF Ledger
  <2>1. (status'[f] = "done" \/ shared[f]) \/ status[f] # "done"
    BY <1>6, <1>9
  <2>2. (\E d \in Caller : Returned(d, f)) => \E d \in Caller : Returned(d, f)'
    BY <1>8
  <2> HIDE DEF Pick, Picked, Mark
  <2> QED
    BY <1>6, <2>1, <2>2 DEF Inv, Ledger
<1>11. e \notin Solo
  BY <1>3 DEF Inv, Mine
<1>12. Runs'
  BY <1>11 DEF Inv, Runs, OutboxTypeOK, CallType
<1> QED
  BY <1>1, <1>2, <1>7, <1>10, <1>12 DEF Inv

\* Whose handler runs has the row, and unless it is shared nobody else does.
LEMMA AtHand ==
  ASSUME Inv, NEW c \in Caller, call[c].at \in {"run", "returned", "raised"}
  PROVE  /\ call[c].effect \in Effect /\ call[c].effect \in Owned(c)
         /\ \A d \in Caller \ {c} :
              call[d].effect = call[c].effect => /\ shared[call[c].effect]
                                                 /\ call[c].effect \notin Solo
<1>1. call[c].effect \in Effect
  BY DEF Inv, OutboxTypeOK, Shape, CallType
<1>2. \A d \in Caller : call[d].effect = call[c].effect => call[c].effect \in Owned(d)
  BY <1>1, OutboxAssumption DEF Owned
<1> QED
  BY <1>1, <1>2 DEF Inv, Alone

LEMMA OnceType == \A n : Once(n) \in 0 .. 2
BY DEF Once

LEMMA HandlerReturnsInv ==
  ASSUME Inv, NEW c \in Caller, HandlerReturns(c)
  PROVE  Inv'
<1> USE DEF HandlerReturns
<1> DEFINE e == call[c].effect
<1>1. /\ e \in Effect /\ e \in Owned(c)
      /\ \A d \in Caller \ {c} : call[d].effect = e => shared[e] /\ e \notin Solo
  BY AtHand
<1>2. OutboxTypeOK'
  <2>1. call' \in [Caller -> CallType]
    BY DEF Inv, OutboxTypeOK, CallType
  <2>2. performed' \in [Effect -> 0 .. 2]
    BY OnceType DEF Inv, OutboxTypeOK
  <2>3. unrecorded' \in [Effect -> BOOLEAN]
    BY DEF Inv, OutboxTypeOK
  <2> QED
    BY <2>1, <2>2, <2>3 DEF Inv, OutboxTypeOK
<1>3. Shape'
  BY DEF Inv, OutboxTypeOK, Shape, CallType
<1>4. \A d \in Caller : Owned(d)' = Owned(d) /\ call'[d].todo = call[d].todo
  BY DEF Inv, OutboxTypeOK, Owned, CallType
<1>5. Mine' /\ Alone'
  BY <1>4, RowsKept
<1>6. /\ \A d \in Caller, f \in Effect : Returned(d, f) => Returned(d, f)'
      /\ Returned(c, e)'
  BY <1>1 DEF Inv, OutboxTypeOK, CallType, Returned
<1>7. performed'[e] = Once(performed[e]) /\ \A f \in Effect \ {e} : performed'[f] = performed[f]
  BY <1>1 DEF Inv, OutboxTypeOK
<1>8. status[e] # "absent" /\ (status[e] = "done" => shared[e])
  BY <1>1 DEF Inv, Mine
<1>9. ~shared[e] => \A d \in Caller : ~Returned(d, e)
  BY <1>1 DEF Returned
<1>10. (~shared[e] /\ ~unrecorded[e]) => performed[e] = 0
  BY <1>1, <1>8, <1>9 DEF Inv, Ledger, OutboxTypeOK
<1>11. e \in Solo => performed[e] = 0
  BY DEF Inv, Runs
<1>12. performed'[e] \in {1, 2}
  BY <1>7 DEF Once
<1>13. Ledger'
  <2> SUFFICES ASSUME NEW f \in Effect
               PROVE  /\ status[f] = "absent" => performed'[f] = 0
                      /\ status[f] = "done" => performed'[f] > 0
                      /\ (~shared[f] /\ ~unrecorded[f]) =>
                           /\ performed'[f] # 2
                           /\ performed'[f] = 1 => status[f] = "done" \/ \E d \in Caller : Returned(d, f)'
                      /\ f \in Solo => performed'[f] # 2
    BY DEF Ledger
  <2>1. CASE f = e
    BY <1>6, <1>7, <1>8, <1>10, <1>11, <1>12, <2>1 DEF Once
  <2>2. CASE f # e
    <3>1. (\E d \in Caller : Returned(d, f)) => \E d \in Caller : Returned(d, f)'
      BY <1>6
    <3> HIDE DEF HandlerReturns, e
    <3> QED
      BY <1>7, <2>2, <3>1 DEF Inv, Ledger
  <2> QED
    BY <2>1, <2>2
<1>14. Runs'
  <2> SUFFICES ASSUME NEW d \in Caller
               PROVE  /\ call'[d].at = "returned" => performed'[call'[d].effect] > 0
                      /\ call'[d].at = "run" /\ call'[d].effect \in Solo
                           => performed'[call'[d].effect] = 0
    BY DEF Runs
  <2>1. CASE d = c
    BY <1>12, <2>1 DEF Inv, OutboxTypeOK, CallType
  <2>2. CASE d # c /\ call[d].at \in {"run", "returned"}
    <3>1. call'[d] = call[d]
      BY <2>2 DEF Inv, OutboxTypeOK
    <3>2. call[d].effect \in Effect
      BY <2>2, AtHand
    <3>3. CASE call[d].effect = e
      BY <1>1, <1>12, <2>2, <3>1, <3>3
    <3>4. CASE call[d].effect # e
      BY <1>7, <2>2, <3>1, <3>2, <3>4 DEF Inv, Runs
    <3> QED
      BY <3>3, <3>4
  <2>3. CASE d # c /\ call[d].at \notin {"run", "returned"}
    BY <2>3 DEF Inv, OutboxTypeOK
  <2> QED
    BY <2>1, <2>2, <2>3
<1> QED
  BY <1>2, <1>3, <1>5, <1>13, <1>14 DEF Inv

LEMMA HandlerRaisesInv ==
  ASSUME Inv, NEW c \in Caller, HandlerRaises(c)
  PROVE  Inv'
<1> USE DEF HandlerRaises
<1> DEFINE e == call[c].effect
<1>1. /\ e \in Effect /\ e \in Owned(c)
      /\ \A d \in Caller \ {c} : call[d].effect = e => shared[e] /\ e \notin Solo
  BY AtHand
<1>2. OutboxTypeOK'
  <2>1. call' \in [Caller -> CallType]
    BY DEF Inv, OutboxTypeOK, CallType
  <2>2. performed' \in [Effect -> 0 .. 2]
    BY OnceType DEF Inv, OutboxTypeOK
  <2>3. unrecorded' \in [Effect -> BOOLEAN]
    BY DEF Inv, OutboxTypeOK
  <2> QED
    BY <2>1, <2>2, <2>3 DEF Inv, OutboxTypeOK
<1>3. Shape'
  BY DEF Inv, OutboxTypeOK, Shape, CallType
<1>4. \A d \in Caller : Owned(d)' = Owned(d) /\ call'[d].todo = call[d].todo
  BY DEF Inv, OutboxTypeOK, Owned, CallType
<1>5. Mine' /\ Alone'
  BY <1>4, RowsKept
<1>6. \A d \in Caller, f \in Effect : Returned(d, f)' <=> Returned(d, f)
  BY DEF Inv, OutboxTypeOK, CallType, Returned
<1>7. /\ \A f \in Effect \ {e} : performed'[f] = performed[f] /\ unrecorded'[f] = unrecorded[f]
      /\ \/ performed'[e] = Once(performed[e]) /\ unrecorded'[e]
         \/ performed'[e] = performed[e] /\ unrecorded'[e] = unrecorded[e]
  BY <1>1 DEF Inv, OutboxTypeOK
<1>8. status[e] # "absent"
  BY <1>1 DEF Inv, Mine
<1>9. e \in Solo => performed[e] = 0
  BY DEF Inv, Runs
<1>10. performed[e] > 0 => performed'[e] > 0
  BY <1>7 DEF Once
<1>11. Ledger'
  <2> SUFFICES ASSUME NEW f \in Effect
               PROVE  /\ status[f] = "absent" => performed'[f] = 0
                      /\ status[f] = "done" => performed'[f] > 0
                      /\ (~shared[f] /\ ~unrecorded'[f]) =>
                           /\ performed'[f] # 2
                           /\ performed'[f] = 1 => status[f] = "done" \/ \E d \in Caller : Returned(d, f)'
                      /\ f \in Solo => performed'[f] # 2
    BY DEF Ledger
  <2>1. (\E d \in Caller : Returned(d, f)) => \E d \in Caller : Returned(d, f)'
    BY <1>6
  <2> HIDE DEF HandlerRaises, e
  <2> QED
    BY <1>7, <1>8, <1>9, <1>10, <2>1 DEF Inv, Ledger, Once
<1>12. Runs'
  <2> SUFFICES ASSUME NEW d \in Caller
               PROVE  /\ call'[d].at = "returned" => performed'[call'[d].effect] > 0
                      /\ call'[d].at = "run" /\ call'[d].effect \in Solo
                           => performed'[call'[d].effect] = 0
    BY DEF Runs
  <2>1. CASE d = c
    BY <2>1 DEF Inv, OutboxTypeOK, CallType
  <2>2. CASE d # c /\ call[d].at \in {"run", "returned"}
    <3>1. call'[d] = call[d]
      BY <2>2 DEF Inv, OutboxTypeOK
    <3>2. call[d].effect \in Effect
      BY <2>2, AtHand
    <3>3. CASE call[d].effect = e
      BY <1>1, <1>10, <2>2, <3>1, <3>3 DEF Inv, Runs
    <3>4. CASE call[d].effect # e
      BY <1>7, <2>2, <3>1, <3>2, <3>4 DEF Inv, Runs
    <3> QED
      BY <3>3, <3>4
  <2>3. CASE d # c /\ call[d].at \notin {"run", "returned"}
    BY <2>3 DEF Inv, OutboxTypeOK
  <2> QED
    BY <2>1, <2>2, <2>3
<1> QED
  BY <1>2, <1>3, <1>5, <1>11, <1>12 DEF Inv

-----------------------------------------------------------------------------
(* Marking, and not being able to.                                         *)

LEMMA MarkOutcomeInv ==
  ASSUME Inv, NEW c \in Caller, MarkOutcome(c)
  PROVE  Inv'
<1> USE OutboxAssumption DEF MarkOutcome, Mark, Proceed
<1> DEFINE e == call[c].effect
<1>1. /\ e \in Effect /\ e \in Owned(c)
      /\ \A d \in Caller \ {c} : call[d].effect = e => shared[e] /\ e \notin Solo
  BY AtHand
<1>2. OutboxTypeOK'
  <2>1. call' \in [Caller -> CallType]
    <3>1. Resting \in CallType
      BY DEF Resting, CallType
    <3>2. [call[c] EXCEPT !.at = "next", !.effect = NoEffect] \in CallType
      BY DEF Inv, OutboxTypeOK, CallType
    <3> QED
      BY <3>1, <3>2 DEF Inv, OutboxTypeOK
  <2>2. status' \in [Effect -> Status]
    BY DEF Inv, OutboxTypeOK, Status
  <2> QED
    BY <2>1, <2>2 DEF Inv, OutboxTypeOK
<1>3. Shape'
  BY DEF Inv, OutboxTypeOK, Shape, CallType, Resting
<1>4. /\ \A d \in Caller : Owned(d)' \subseteq Owned(d) /\ call'[d].todo \subseteq call[d].todo
      /\ e \notin Owned(c)'
  BY <1>1 DEF Inv, OutboxTypeOK, Owned, CallType, Resting, Shape
<1>5. /\ status'[e] = IF call[c].at = "returned" THEN "done" ELSE "failed"
      /\ \A f \in Effect \ {e} : status'[f] = status[f]
  BY <1>1 DEF Inv, OutboxTypeOK
<1>6. \A d \in Caller : e \in Owned(d)' => shared[e]
  BY <1>1, <1>4 DEF Inv, Alone
<1>7. Mine' /\ Alone'
  BY <1>4, <1>5, <1>6, RowsKept
<1>8. /\ \A d \in Caller \ {c}, f \in Effect : Returned(d, f)' <=> Returned(d, f)
      /\ \A f \in Effect : ~Returned(c, f)'
  BY DEF Inv, OutboxTypeOK, Returned, Resting, CallType
<1>9. /\ call[c].at = "returned" => performed[e] > 0
      /\ (call[c].at # "returned" /\ ~shared[e]) => \A d \in Caller : ~Returned(d, e)
  BY <1>1 DEF Inv, Runs, Returned
<1>10. status[e] = "done" => shared[e]
  BY <1>1 DEF Inv, Mine
<1>11. Ledger'
  <2> SUFFICES ASSUME NEW f \in Effect
               PROVE  /\ status'[f] = "absent" => performed[f] = 0
                      /\ status'[f] = "done" => performed[f] > 0
                      /\ (~shared[f] /\ ~unrecorded[f]) =>
                           /\ performed[f] # 2
                           /\ performed[f] = 1 => status'[f] = "done" \/ \E d \in Caller : Returned(d, f)'
                      /\ f \in Solo => performed[f] # 2
    BY DEF Ledger
  <2>1. CASE f = e
    BY <1>1, <1>5, <1>9, <1>10, <2>1 DEF Inv, Ledger
  <2>2. CASE f # e
    <3>1. ~Returned(c, f)
      BY <2>2 DEF Returned
    <3>2. (\E d \in Caller : Returned(d, f)) => \E d \in Caller : Returned(d, f)'
      BY <1>8, <3>1
    <3> HIDE DEF MarkOutcome, Mark, Proceed, e
    <3> QED
      BY <1>5, <2>2, <3>2 DEF Inv, Ledger
  <2> QED
    BY <2>1, <2>2
<1>12. Runs'
  BY DEF Inv, Runs, OutboxTypeOK, Resting, CallType
<1> QED
  BY <1>2, <1>3, <1>7, <1>11, <1>12 DEF Inv

LEMMA MarkRefusedInv ==
  ASSUME Inv, NEW c \in Caller, MarkRefused(c)
  PROVE  Inv'
<1> USE OutboxAssumption DEF MarkRefused
<1>1. OutboxTypeOK'
  <2>1. call' \in [Caller -> CallType]
    <3>1. Resting \in CallType
      BY DEF Resting, CallType
    <3>2. [call[c] EXCEPT !.at = "raised"] \in CallType
      BY DEF Inv, OutboxTypeOK, CallType
    <3> QED
      BY <3>1, <3>2 DEF Inv, OutboxTypeOK
  <2>2. faults' \in 0 .. MaxFaults
    BY DEF Inv, OutboxTypeOK
  <2>3. unrecorded' \in [Effect -> BOOLEAN]
    BY DEF Inv, OutboxTypeOK
  <2> QED
    BY <2>1, <2>2, <2>3 DEF Inv, OutboxTypeOK
<1>2. Shape'
  BY DEF Inv, OutboxTypeOK, Shape, CallType, Resting
<1>3. \A d \in Caller : Owned(d)' \subseteq Owned(d) /\ call'[d].todo \subseteq call[d].todo
  BY DEF Inv, OutboxTypeOK, Owned, CallType, Resting
<1>4. Mine' /\ Alone'
  BY <1>3, RowsKept
<1>5. \A d \in Caller \ {c}, f \in Effect : Returned(d, f)' <=> Returned(d, f)
  BY DEF Inv, OutboxTypeOK, Returned
<1>6. /\ \A f \in Effect : unrecorded[f] => unrecorded'[f]
      /\ \A f \in Effect : Returned(c, f) => unrecorded'[f]
  BY DEF Inv, OutboxTypeOK, Returned
<1>7. Ledger'
  <2> SUFFICES ASSUME NEW f \in Effect
               PROVE  /\ status[f] = "absent" => performed[f] = 0
                      /\ status[f] = "done" => performed[f] > 0
                      /\ (~shared[f] /\ ~unrecorded'[f]) =>
                           /\ performed[f] # 2
                           /\ performed[f] = 1 => status[f] = "done" \/ \E d \in Caller : Returned(d, f)'
                      /\ f \in Solo => performed[f] # 2
    BY DEF Ledger
  <2>1. (~unrecorded'[f] /\ \E d \in Caller : Returned(d, f)) => \E d \in Caller : Returned(d, f)'
    BY <1>5, <1>6
  <2> HIDE DEF MarkRefused
  <2> QED
    BY <1>6, <2>1 DEF Inv, Ledger
<1>8. Runs'
  BY DEF Inv, Runs, OutboxTypeOK, Resting, CallType
<1> QED
  BY <1>1, <1>2, <1>4, <1>7, <1>8 DEF Inv

LEMMA RestartInv ==
  ASSUME Inv, Restart
  PROVE  Inv'
<1> USE OutboxAssumption DEF Restart
<1>1. OutboxTypeOK'
  BY DEF Inv, OutboxTypeOK, CallType, Resting, Once
<1>2. Shape'
  BY DEF Shape, Resting
<1>3. \A d \in Caller : Owned(d)' = {}
  BY DEF Owned, Resting
<1>4. Mine' /\ Alone'
  BY <1>3 DEF Mine, Alone
<1>5. PICK made \in SUBSET {c \in Caller : call[c].at = "run"} :
        /\ performed' = [e \in Effect |->
             IF \A c \in made : call[c].effect # e THEN performed[e]
             ELSE IF \E c, d \in made : c # d /\ call[c].effect = e /\ call[d].effect = e
             THEN 2 ELSE Once(performed[e])]
        /\ unrecorded' = [e \in Effect |->
             \/ unrecorded[e]
             \/ \E c \in Caller : /\ call[c].effect = e
                                  /\ (c \in made \/ call[c].at = "returned")]
  OBVIOUS
<1>6. Ledger'
  <2> SUFFICES ASSUME NEW e \in Effect
               PROVE  /\ status[e] = "absent" => performed'[e] = 0
                      /\ status[e] = "done" => performed'[e] > 0
                      /\ (~shared[e] /\ ~unrecorded'[e]) =>
                           /\ performed'[e] # 2
                           /\ performed'[e] = 1 => status[e] = "done"
                      /\ e \in Solo => performed'[e] # 2
    BY DEF Ledger
  <2>1. CASE \A c \in made : call[c].effect # e
    <3>1. performed'[e] = performed[e] /\ (unrecorded[e] => unrecorded'[e])
      BY <1>5, <2>1
    <3>2. (\E c \in Caller : Returned(c, e)) => unrecorded'[e]
      BY <1>5 DEF Returned
    <3> HIDE DEF Restart
    <3> QED
      BY <3>1, <3>2 DEF Inv, Ledger
  <2>2. CASE \E c \in made : call[c].effect = e
    <3>1. PICK c \in made : call[c].effect = e
      BY <2>2
    <3>2. c \in Caller /\ call[c].at = "run"
      BY <3>1
    <3>3. unrecorded'[e]
      BY <1>5, <3>1, <3>2
    <3>4. status[e] # "absent"
      BY <3>1, <3>2, AtHand DEF Inv, Mine
    <3>5. e \in Solo => \A d \in Caller \ {c} : call[d].effect # e
      BY <3>1, <3>2, AtHand
    <3>6. e \in Solo => performed[e] = 0
      BY <3>1, <3>2 DEF Inv, Runs
    <3>7. performed'[e] = IF \E i, j \in made : i # j /\ call[i].effect = e /\ call[j].effect = e
                          THEN 2 ELSE Once(performed[e])
      BY <1>5, <3>1
    <3>8. performed'[e] \in {1, 2}
      BY <3>7 DEF Once
    <3>9. e \in Solo => performed'[e] = 1
      <4> SUFFICES ASSUME e \in Solo PROVE performed'[e] = 1
        OBVIOUS
      <4>1. ~ \E i, j \in made : i # j /\ call[i].effect = e /\ call[j].effect = e
        BY <3>5
      <4> QED
        BY <3>6, <3>7, <4>1 DEF Once
    <3> QED
      BY <3>3, <3>4, <3>8, <3>9
  <2> QED
    BY <2>1, <2>2
<1>7. Runs'
  BY DEF Runs, Resting
<1> QED
  BY <1>1, <1>2, <1>4, <1>6, <1>7 DEF Inv

-----------------------------------------------------------------------------
(* The invariant and what follows from it.                                 *)

LEMMA NextInv == Inv /\ [Next]_vars => Inv'
<1> SUFFICES ASSUME Inv, [Next]_vars PROVE Inv'
  OBVIOUS
<1>1. CASE \E e \in Effect : Enqueue(e)
  BY <1>1, EnqueueInv
<1>2. ASSUME NEW c \in Caller, Step(c) PROVE Inv'
  BY <1>2, DispatchInv, PickInv, DrainTraceInv, SelectPendingInv, ResetFailedInv,
     HandlerReturnsInv, HandlerRaisesInv, MarkOutcomeInv, MarkRefusedInv DEF Step
<1>3. CASE Restart
  BY <1>3, RestartInv
<1>4. CASE UNCHANGED vars
  <2> USE <1>4 DEF vars
  <2>1. \A c \in Caller : Owned(c)' = Owned(c) /\ \A e \in Effect : Returned(c, e)' <=> Returned(c, e)
    BY DEF Owned, Returned
  <2>2. OutboxTypeOK' /\ Shape' /\ Runs'
    BY DEF Inv, OutboxTypeOK, Shape, Runs
  <2>3. Mine' /\ Alone'
    BY <2>1, RowsKept
  <2>4. Ledger'
    BY <2>1 DEF Inv, Ledger
  <2> QED
    BY <2>2, <2>3, <2>4 DEF Inv
<1> QED
  BY <1>1, <1>2, <1>3, <1>4 DEF Next

LEMMA InvHolds == Spec => []Inv
<1> QED
  BY InitInv, NextInv, PTL DEF Spec

\* Rows, threads and ghosts keep their types (effects_outbox.py).
THEOREM OutboxTypeTheorem == Spec => []OutboxTypeOK
<1>1. Inv => OutboxTypeOK
  BY DEF Inv
<1> QED
  BY <1>1, InvHolds, PTL

\* A dispatcher's effect is made at most once, whatever the number of
\* threads and restarts (dispatch.py, enqueue).
THEOREM DispatchOnceTheorem == Spec => []DispatchOnce
<1>1. Inv => DispatchOnce
  <2> SUFFICES ASSUME Inv, NEW e \in Solo PROVE performed[e] <= 1
    BY DEF DispatchOnce, Solo
  <2>1. e \in Effect
    BY OutboxAssumption DEF Solo
  <2>2. performed[e] \in 0 .. 2 /\ performed[e] # 2
    BY <2>1 DEF Inv, OutboxTypeOK, Ledger
  <2> QED
    BY <2>2
<1> QED
  BY <1>1, InvHolds, PTL

\* No effect is repeated without a cause: a record that was lost or says
\* failed, or a row two threads had read (execute_pending, drains, retries).
THEOREM RepeatHasCauseTheorem == Spec => []RepeatHasCause
<1>1. Inv => RepeatHasCause
  BY DEF Inv, Ledger, RepeatHasCause
<1> QED
  BY <1>1, InvHolds, PTL

\* What is called done was made (mark_done, execute_pending).
THEOREM DoneIsPerformedTheorem == Spec => []DoneIsPerformed
<1>1. Inv => DoneIsPerformed
  BY DEF Inv, Ledger, DoneIsPerformed
<1> QED
  BY <1>1, InvHolds, PTL

LEMMA StepKeepsDone ==
  ASSUME Inv, [Next]_vars, NEW e \in Effect, status[e] = "done", status'[e] # "done"
  PROVE  shared[e]
<1>1. ASSUME NEW f \in Effect, Enqueue(f) PROVE FALSE
  BY <1>1 DEF Enqueue, Mark, Inv, OutboxTypeOK
<1>2. ASSUME NEW c \in Caller, NEW f \in Effect, Dispatch(c, f) PROVE FALSE
  BY <1>2 DEF Dispatch, Mark, Inv, OutboxTypeOK
<1>3. ASSUME NEW c \in Caller, NEW f \in Effect, Pick(c, f) PROVE shared[e]
  <2>1. e = f
    BY <1>3 DEF Pick, Mark, Inv, OutboxTypeOK
  <2>2. f \in Owned(c)
    BY <1>3, OutboxAssumption DEF Pick, Picked, Owned
  <2> QED
    BY <2>1, <2>2 DEF Inv, Mine
<1>4. ASSUME NEW c \in Caller, MarkOutcome(c) PROVE shared[e]
  <2>1. call[c].effect \in Owned(c)
    BY <1>4, AtHand DEF MarkOutcome
  <2>2. e = call[c].effect
    BY <1>4 DEF MarkOutcome, Mark, Inv, OutboxTypeOK
  <2> QED
    BY <2>1, <2>2 DEF Inv, Mine
<1>5. ASSUME NEW c \in Caller, ResetFailed(c) PROVE FALSE
  BY <1>5 DEF ResetFailed
<1>6. status' # status
  OBVIOUS
<1> QED
  BY <1>1, <1>2, <1>3, <1>4, <1>5, <1>6
  DEF Next, Step, vars, DrainTrace, SelectPending, HandlerReturns, HandlerRaises,
      MarkRefused, Restart

\* A done row is only overwritten by a thread that had read it before it was
\* done (the unconditional updates of execute_pending and of the marks).
THEOREM DoneKeptTheorem == Spec => DoneKept
<1>1. Inv /\ [Next]_vars =>
        [\A e \in Effect : status[e] = "done" /\ status'[e] # "done" => shared[e]]_vars
  BY StepKeepsDone
<1> QED
  BY <1>1, InvHolds, PTL DEF Spec, DoneKept
=============================================================================
