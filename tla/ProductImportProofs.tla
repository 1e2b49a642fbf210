------------------------- MODULE ProductImportProofs -------------------------
(***************************************************************************)
(* For any number of concurrent import tasks, any page size and any values *)
(* of the other constants: the cursor of the products domain never moves   *)
(* beyond a product that was not imported, and an import that ends by      *)
(* itself is complete.                                                     *)
(***************************************************************************)
EXTENDS ProductImport, TLAPS

LEMMA FailedDelivery ==
  ASSUME NEW n \in 0 .. MaxAttempts
  PROVE  /\ AfterFailedDelivery(n) \in {"queued", "archived"}
         /\ AfterFailedDelivery(n) = "queued" => n < MaxAttempts
  BY ConstantsAssumption DEF AfterFailedDelivery

\* A page starts after the id it was asked for, holds at most Limit products,
\* ends inside the catalogue, and is short only at its end.
LEMMA PageBounds ==
  ASSUME TypeOK, NEW id \in Nat
  PROVE  /\ PageAfter(id) \in Nat
         /\ id <= PageAfter(id)
         /\ PageAfter(id) <= id + Limit
         /\ PageAfter(id) = id \/ PageAfter(id) <= last
         /\ PageAfter(id) < id + Limit => last <= PageAfter(id)
  BY ConstantsAssumption DEF PageAfter, TypeOK

\* The initial states satisfy the invariant: an absent cursor hides nothing.
LEMMA InitProductInv == Init => ProductInv
  BY ConstantsAssumption DEF Init, ProductInv, TypeOK, CursorHidesNothing,
     ImportedUpTo, RunInv, Pcs, Steps

-----------------------------------------------------------------------------
(* Steps of one task.  The others' parts of the invariant depend only on    *)
(* data that grows; the task's own part is proved action by action.         *)

LEMMA TaskKeepsOthers ==
  ASSUME ProductInv, NEW t \in Tasks, NEW u \in Tasks, u # t,
         vouched' = vouched, last' = last, stored \subseteq stored',
         pc'[u] = pc[u], try'[u] = try[u], request'[u] = request[u],
         pageEnd'[u] = pageEnd[u], written'[u] = written[u], seen'[u] = seen[u]
  PROVE  RunInv(u)'
  BY DEF ProductInv, TypeOK, RunInv, ImportedUpTo

LEMMA DeliverInv ==
  ASSUME ProductInv, NEW t \in Tasks, Enqueue(t) \/ Deliver(t)
  PROVE  ProductInv'
<1> USE DEF ProductInv, Enqueue, Deliver, Goes, dataVars, runVars
<1>0. TypeOK /\ RunInv(t) /\ try[t] \in 0 .. MaxAttempts
  BY DEF TypeOK
<1>a. try[t] < MaxAttempts
  BY DEF RunInv
<1>1. TypeOK'
  <2>1. pc' \in [Tasks -> Pcs]
    BY <1>0 DEF TypeOK, Pcs, Steps
  <2>2. try[t] + 1 \in 0 .. MaxAttempts
    BY <1>0, <1>a, ConstantsAssumption
  <2>3. try' \in [Tasks -> 0 .. MaxAttempts]
    BY <1>0, <2>2 DEF TypeOK
  <2> QED BY <1>0, <2>1, <2>3 DEF TypeOK
<1>2. CursorHidesNothing'
  BY DEF CursorHidesNothing, ImportedUpTo
<1>3. RunInv(t)'
  BY <1>0, <1>a DEF TypeOK, RunInv
<1>4. \A u \in Tasks : u # t => RunInv(u)'
  BY TaskKeepsOthers DEF TypeOK
<1> QED BY <1>1, <1>2, <1>3, <1>4

LEMMA ResolveInv ==
  ASSUME ProductInv, NEW t \in Tasks, ResolveCursor(t)
  PROVE  ProductInv'
<1> USE ConstantsAssumption DEF ProductInv, ResolveCursor, Goes, dataVars
<1>1. TypeOK'
  BY DEF TypeOK, Pcs, Steps
<1>2. CursorHidesNothing'
  BY DEF CursorHidesNothing, ImportedUpTo
<1>3. \A u \in Tasks : RunInv(u)'
  BY DEF TypeOK, RunInv, CursorHidesNothing, ImportedUpTo
<1> QED BY <1>1, <1>2, <1>3

LEMMA FetchInv ==
  ASSUME ProductInv, NEW t \in Tasks, FetchPage(t)
  PROVE  ProductInv'
<1> USE DEF ProductInv, FetchPage, Goes, dataVars
<1>0. TypeOK /\ RunInv(t) /\ request[t] \in Nat /\ last \in 0 .. MaxProduct
  BY DEF TypeOK
<1>b. /\ PageAfter(request[t]) \in Nat
      /\ request[t] <= PageAfter(request[t])
      /\ PageAfter(request[t]) <= request[t] + Limit
      /\ PageAfter(request[t]) = request[t] \/ PageAfter(request[t]) <= last
      /\ PageAfter(request[t]) < request[t] + Limit => last <= PageAfter(request[t])
  BY <1>0, PageBounds
<1>1. TypeOK'
  BY <1>0, <1>b, ConstantsAssumption DEF TypeOK, Pcs, Steps
<1>2. CursorHidesNothing'
  BY DEF CursorHidesNothing, ImportedUpTo
<1>3. RunInv(t)'
  BY <1>0, <1>b DEF TypeOK, RunInv, ImportedUpTo
<1>4. \A u \in Tasks : u # t => RunInv(u)'
  BY TaskKeepsOthers DEF TypeOK
<1> QED BY <1>1, <1>2, <1>3, <1>4

LEMMA UpsertInv ==
  ASSUME ProductInv, NEW t \in Tasks, UpsertProduct(t)
  PROVE  ProductInv'
<1> USE DEF ProductInv, UpsertProduct
<1>0. TypeOK /\ RunInv(t) /\ written[t] \in Nat /\ pageEnd[t] \in Nat
      /\ request[t] \in Nat /\ last \in 0 .. MaxProduct /\ vouched \in Nat
  BY DEF TypeOK
<1>a. written[t] + 1 \in 1 .. last
  BY <1>0, ConstantsAssumption DEF RunInv
<1>1. TypeOK'
  <2>1. stored' \subseteq 1 .. last'
    BY <1>0, <1>a DEF TypeOK
  <2>2. written' \in [Tasks -> Nat]
    BY <1>0 DEF TypeOK
  <2> QED BY <1>0, <2>1, <2>2 DEF TypeOK
<1>2. CursorHidesNothing'
  BY DEF CursorHidesNothing, ImportedUpTo
<1>3. RunInv(t)'
  <2>1. written'[t] = written[t] + 1
    BY DEF TypeOK
  <2>2. ImportedUpTo(written[t])'
    <3> SUFFICES ASSUME NEW p \in 1 .. written[t] + 1, p > vouched
                 PROVE  p \in stored'
      BY <2>1 DEF ImportedUpTo
    <3>1. CASE p = written[t] + 1
      BY <3>1
    <3>2. CASE p # written[t] + 1
      <4>1. p \in 1 .. written[t]
        BY <1>0, <3>2
      <4>2. ImportedUpTo(written[t])
        BY <1>0 DEF RunInv
      <4> QED BY <4>1, <4>2 DEF ImportedUpTo
    <3> QED BY <3>1, <3>2
  <2>3. ImportedUpTo(request[t])'
    BY <1>0 DEF RunInv, ImportedUpTo
  <2> QED BY <1>0, <2>1, <2>2, <2>3 DEF RunInv, ImportedUpTo
<1>4. \A u \in Tasks : u # t => RunInv(u)'
  BY TaskKeepsOthers DEF TypeOK
<1> QED BY <1>1, <1>2, <1>3, <1>4

LEMMA AdvanceInv ==
  ASSUME ProductInv, NEW t \in Tasks, AdvanceCursor(t)
  PROVE  ProductInv'
<1> USE DEF ProductInv, AdvanceCursor, Goes
<1>0. TypeOK /\ RunInv(t) /\ written[t] \in Nat /\ pageEnd[t] \in Nat
      /\ request[t] \in Nat /\ seen[t] \in Nat /\ vouched \in Nat
  BY DEF TypeOK
<1>a. written[t] = pageEnd[t] /\ ImportedUpTo(pageEnd[t])
  BY <1>0 DEF RunInv
<1>1. TypeOK'
  BY <1>0 DEF TypeOK, Pcs, Steps
<1>2. CursorHidesNothing'
  BY <1>a DEF CursorHidesNothing, ImportedUpTo
<1>3. RunInv(t)'
  <2>1. CASE AnotherProductsPage(t)
    <3>1. pc'[t] = "fetch" /\ request'[t] = pageEnd[t]
      BY <1>0, <2>1 DEF TypeOK
    <3> QED BY <1>a, <3>1 DEF RunInv, ImportedUpTo
  <2>2. CASE ~ AnotherProductsPage(t)
    <3>1. pc'[t] = "complete" /\ seen'[t] = seen[t]
      BY <1>0, <2>2 DEF TypeOK
    <3>2. seen[t] <= pageEnd[t]
      BY <1>0, <2>2, ConstantsAssumption DEF RunInv, AnotherProductsPage
    <3>3. ImportedUpTo(seen[t])'
      BY <1>0, <1>a, <3>2 DEF ImportedUpTo
    <3> QED BY <3>1, <3>3 DEF RunInv, ImportedUpTo
  <2> QED BY <2>1, <2>2
<1>4. \A u \in Tasks : u # t => RunInv(u)'
  BY TaskKeepsOthers DEF TypeOK
<1> QED BY <1>1, <1>2, <1>3, <1>4

LEMMA EndInv ==
  ASSUME ProductInv, NEW t \in Tasks,
         CompleteImport(t) \/ StopAtMaxPages(t) \/ ImportFails(t)
  PROVE  ProductInv'
<1> USE DEF ProductInv, CompleteImport, StopAtMaxPages, ImportFails, Goes, dataVars, runVars
<1>0. TypeOK /\ RunInv(t) /\ try[t] \in 0 .. MaxAttempts
  BY DEF TypeOK
<1>a. /\ AfterFailedDelivery(try[t]) \in {"queued", "archived"}
      /\ AfterFailedDelivery(try[t]) = "queued" => try[t] < MaxAttempts
  BY <1>0, FailedDelivery
<1>1. TypeOK'
  <2>1. pc' \in [Tasks -> Pcs]
    BY <1>0, <1>a DEF TypeOK, Pcs, Steps
  <2>2. faults' \in 0 .. MaxFaults
    BY <1>0, ConstantsAssumption DEF TypeOK
  <2> QED BY <1>0, <2>1, <2>2 DEF TypeOK
<1>2. CursorHidesNothing'
  BY DEF CursorHidesNothing, ImportedUpTo
<1>3. RunInv(t)'
  <2>1. \/ pc[t] = "complete" /\ pc'[t] = "done"
        \/ pc'[t] = AfterFailedDelivery(try[t])
    BY <1>0 DEF TypeOK
  <2> QED BY <1>0, <1>a, <2>1 DEF RunInv, ImportedUpTo
<1>4. \A u \in Tasks : u # t => RunInv(u)'
  BY TaskKeepsOthers DEF TypeOK
<1> QED BY <1>1, <1>2, <1>3, <1>4

-----------------------------------------------------------------------------
(* Steps of the seller and of an administrator.                             *)

LEMMA CreateProductInv ==
  ASSUME ProductInv, CreateProduct
  PROVE  ProductInv'
<1> USE ConstantsAssumption DEF ProductInv, CreateProduct, runVars
<1>1. TypeOK'
  BY DEF TypeOK
<1>2. CursorHidesNothing'
  BY DEF CursorHidesNothing, ImportedUpTo
<1>3. \A u \in Tasks : RunInv(u)'
  BY DEF TypeOK, RunInv, ImportedUpTo
<1> QED BY <1>1, <1>2, <1>3

LEMMA ResetCursorInv ==
  ASSUME ProductInv, NEW v \in ResetValues, ResetCursor(v)
  PROVE  ProductInv'
<1> USE DEF ProductInv, ResetCursor, runVars
<1>0. v \in Nat /\ vouched \in Nat /\ vouched' \in Nat
      /\ vouched <= vouched' /\ v <= vouched'
  BY ConstantsAssumption DEF TypeOK
<1>1. TypeOK'
  BY <1>0 DEF TypeOK
<1>2. CursorHidesNothing'
  BY <1>0 DEF CursorHidesNothing, ImportedUpTo
<1>3. \A n \in Nat : ImportedUpTo(n) => ImportedUpTo(n)'
  BY <1>0 DEF ImportedUpTo
<1>4. \A u \in Tasks : RunInv(u)'
  BY <1>3 DEF TypeOK, RunInv, ImportedUpTo
<1> QED BY <1>1, <1>2, <1>4

\* Every step keeps the invariant.
LEMMA NextProductInv == ProductInv /\ [Next]_vars => ProductInv'
<1> SUFFICES ASSUME ProductInv, [Next]_vars PROVE ProductInv'
  OBVIOUS
<1>1. CASE CreateProduct
  BY <1>1, CreateProductInv
<1>2. ASSUME NEW v \in ResetValues, ResetCursor(v) PROVE ProductInv'
  BY <1>2, ResetCursorInv
<1>3. ASSUME NEW t \in Tasks, Enqueue(t) \/ HandlerStep(t) \/ ImportFails(t)
      PROVE  ProductInv'
  BY <1>3, DeliverInv, ResolveInv, FetchInv, UpsertInv, AdvanceInv, EndInv
     DEF HandlerStep
<1>4. CASE UNCHANGED vars
  BY <1>4 DEF ProductInv, TypeOK, CursorHidesNothing, ImportedUpTo, RunInv,
     vars, dataVars, runVars
<1> QED BY <1>1, <1>2, <1>3, <1>4 DEF Next

-----------------------------------------------------------------------------
\* The invariant holds in every reachable state.
THEOREM ProductInvHolds == Spec => []ProductInv
  BY InitProductInv, NextProductInv, PTL DEF Spec

\* The cursor that productsync moves after every page never hides a product
\* that is not in the table, whatever concurrent imports, retries, crashes
\* and resets do to it.
THEOREM CursorIsHonest == Spec => []CursorHidesNothing
<1>1. ProductInv => CursorHidesNothing
  BY DEF ProductInv
<1> QED BY ProductInvHolds, <1>1, PTL

\* An import that completes has every product its last page could have seen:
\* anotherProductsPage stops a run neither too early nor on a full page.
THEOREM ImportsAreComplete == Spec => []CompletedImportIsComplete
<1>1. ProductInv => CompletedImportIsComplete
  BY DEF ProductInv, RunInv, CompletedImportIsComplete
<1> QED BY ProductInvHolds, <1>1, PTL
=============================================================================
