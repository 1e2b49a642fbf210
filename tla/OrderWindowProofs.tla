-------------------------- MODULE OrderWindowProofs --------------------------
(***************************************************************************)
(* For any number of overlapping syncs and any delays between the steps of *)
(* their tasks: no record falls between two windows of the orders import.  *)
(***************************************************************************)
EXTENDS OrderWindow, TLAPS

LEMMA FailedDelivery ==
  ASSUME NEW n \in 0 .. MaxAttempts
  PROVE  /\ AfterFailedDelivery(n) \in {"queued", "archived"}
         /\ AfterFailedDelivery(n) = "queued" => n < MaxAttempts
  BY ConstantsAssumption DEF AfterFailedDelivery

\* A window without a source cursor starts somewhere in the past.
LEMMA WindowStartType ==
  ASSUME TypeOK, NEW t \in Tasks
  PROVE  /\ WindowStart(t) \in Nat
         /\ source[t] # NoCursor => WindowStart(t) = source[t]
  BY ConstantsAssumption DEF WindowStart, TypeOK

\* The initial states satisfy the invariant: there is nothing to lose yet.
LEMMA InitWindowInv == Init => WindowInv
  BY ConstantsAssumption DEF Init, WindowInv, TypeOK, CursorHidesNoRecord,
     ImportedBefore, Closed, RunInv, Pcs, Steps, Streams, Records, NoCursor

-----------------------------------------------------------------------------
(* Steps that only move one task.                                           *)

\* Nothing a task relies on changes when the data only grows towards it.
LEMMA TaskKeepsOthers ==
  ASSUME WindowInv, NEW u \in Tasks,
         now' = now, created' = created, imported \subseteq imported',
         floor' \in Nat, floor <= floor',
         pc'[u] = pc[u], try'[u] = try[u], source'[u] = source[u],
         from'[u] = from[u], to'[u] = to[u], stream'[u] = stream[u],
         next'[u] = next[u]
  PROVE  RunInv(u)'
<1>1. TypeOK /\ RunInv(u) /\ floor \in Nat /\ source[u] \in Nat /\ to[u] \in Nat
  BY DEF WindowInv, TypeOK
<1>2. \A r \in created : r[2] \in Nat
  BY <1>1 DEF TypeOK, Records
<1>3. ImportedBefore(source[u])' /\ Closed(source[u])'
  BY <1>1, <1>2 DEF RunInv, ImportedBefore, Closed, TypeOK
<1>4. ReadSoFar(u) => ReadSoFar(u)'
  BY DEF ReadSoFar
<1>5. ImportedBefore(to[u]) => ImportedBefore(to[u])'
  BY <1>1, <1>2 DEF ImportedBefore
<1> QED BY <1>1, <1>3, <1>4, <1>5 DEF RunInv

LEMMA DataKept ==
  ASSUME WindowInv, UNCHANGED <<now, created, imported, cursor, floor>>
  PROVE  /\ \A r \in created' : r[2] <= now'
         /\ Closed(cursor)'
         /\ CursorHidesNoRecord'
  BY DEF WindowInv, Closed, CursorHidesNoRecord, ImportedBefore

LEMMA DeliverInv ==
  ASSUME WindowInv, NEW t \in Tasks, CreateImportJob(t) \/ Deliver(t)
  PROVE  WindowInv'
<1> USE DEF CreateImportJob, Deliver, Goes, windowVars
<1>0. TypeOK /\ RunInv(t) /\ try[t] \in 0 .. MaxAttempts
  BY DEF WindowInv, TypeOK
<1>a. try[t] < MaxAttempts
  BY <1>0 DEF RunInv
<1>1. TypeOK'
  <2>1. pc' \in [Tasks -> Pcs]
    BY <1>0 DEF TypeOK, Pcs, Steps
  <2>2. try[t] + 1 \in 0 .. MaxAttempts
    BY <1>0, <1>a, ConstantsAssumption
  <2>3. try' \in [Tasks -> 0 .. MaxAttempts]
    BY <1>0, <2>2 DEF TypeOK
  <2>4. source' \in [Tasks -> Nat]
    BY <1>0 DEF TypeOK
  <2> QED BY <1>0, <2>1, <2>3, <2>4 DEF TypeOK
<1>2. RunInv(t)'
  <2>1. pc'[t] \in {"queued", "resolve"} /\ (pc'[t] = "queued" => try'[t] < MaxAttempts)
    BY <1>0, <1>a DEF TypeOK
  <2>2. source'[t] = cursor \/ source'[t] = source[t]
    BY <1>0 DEF TypeOK
  <2>3. Closed(source[t])' /\ ImportedBefore(source[t])'
    BY <1>0, <2>2 DEF WindowInv, CursorHidesNoRecord, RunInv, Closed, ImportedBefore
  <2> QED BY <2>1, <2>3 DEF RunInv
<1>3. \A u \in Tasks : u # t => RunInv(u)'
  BY <1>0, TaskKeepsOthers DEF TypeOK
<1> QED BY <1>1, <1>2, <1>3, DataKept DEF WindowInv

LEMMA ResolveInv ==
  ASSUME WindowInv, NEW t \in Tasks, ResolveWindow(t)
  PROVE  WindowInv'
<1> USE DEF ResolveWindow, Goes
<1>0. TypeOK /\ RunInv(t) /\ now \in Nat /\ WindowStart(t) \in Nat
      /\ (source[t] # NoCursor => WindowStart(t) = source[t])
  BY WindowStartType DEF WindowInv, TypeOK
<1>1. TypeOK'
  BY <1>0, ConstantsAssumption DEF TypeOK, Pcs, Steps, Streams
<1>2. RunInv(t)'
  <2>1. /\ pc'[t] = "read" /\ from'[t] = WindowStart(t) /\ next'[t] = WindowStart(t)
        /\ to'[t] = now /\ stream'[t] = 1
    BY <1>0 DEF TypeOK
  <2>2. ReadSoFar(t)'
    BY <1>0, <2>1 DEF ReadSoFar, TypeOK, Records, Streams
  <2>3. Closed(source[t])' /\ ImportedBefore(source[t])'
    BY <1>0 DEF RunInv, Closed, ImportedBefore
  <2> QED BY <1>0, <2>1, <2>2, <2>3 DEF RunInv
<1>3. \A u \in Tasks : u # t => RunInv(u)'
  BY <1>0, TaskKeepsOthers DEF TypeOK
<1> QED BY <1>1, <1>2, <1>3, DataKept DEF WindowInv

\* What a page does to the task that reads it.
PageRead(t) ==
  /\ pc' \in [Tasks -> Pcs]
  /\ stream' \in [Tasks -> Streams]
  /\ next' \in [Tasks -> Nat]
  /\ pc'[t] \in {"read", "advance"}
  /\ from[t] <= next'[t]
  /\ ReadSoFar(t)'
  /\ \A u \in Tasks : u # t =>
       pc'[u] = pc[u] /\ stream'[u] = stream[u] /\ next'[u] = next[u]

LEMMA RecordShape ==
  ASSUME TypeOK
  PROVE  \A r \in created : r[1] \in Streams /\ r[2] \in Nat /\ r = <<r[1], r[2]>>
  BY DEF TypeOK, Records

\* A list that has no record left in the window is read to its end.
LEMMA EndOfListInv ==
  ASSUME TypeOK, NEW t \in Tasks, pc[t] = "read", ReadSoFar(t), EndOfList(t),
         imported \subseteq imported', UNCHANGED <<created, from, to>>,
         from[t] <= next[t],
         \A r \in created :
           from[t] <= r[2] /\ r[2] < to[t] /\ r[1] = stream[t] => r \in imported'
  PROVE  PageRead(t)
<1>0. /\ from[t] \in Nat /\ to[t] \in Nat /\ next[t] \in Nat
      /\ stream[t] \in Nat /\ 1 <= stream[t] /\ stream[t] <= NumStreams
      /\ NumStreams \in Nat
  BY ConstantsAssumption DEF TypeOK, Streams
<1>r. \A r \in created : r[1] \in Nat /\ r[2] \in Nat
  BY RecordShape DEF Streams
<1>1. CASE stream[t] < NumStreams
  <2>1. /\ stream' = [stream EXCEPT ![t] = stream[t] + 1]
        /\ next' = [next EXCEPT ![t] = from[t]]
        /\ pc' = pc
    BY <1>0, <1>1 DEF EndOfList
  <2>2. stream[t] + 1 \in Streams
    BY <1>0, <1>1 DEF Streams
  <2>3. stream'[t] = stream[t] + 1 /\ next'[t] = from[t] /\ pc'[t] = "read"
    BY <2>1 DEF TypeOK
  <2>4. ReadSoFar(t)'
    <3> SUFFICES ASSUME NEW r \in created, from[t] <= r[2], r[2] < to[t],
                        r[1] < stream[t] + 1 \/ r[2] < from[t]
                 PROVE  r \in imported'
      BY <2>3 DEF ReadSoFar
    <3>1. r[1] < stream[t] \/ r[1] = stream[t]
      BY <1>0, <1>r
    <3> QED BY <3>1 DEF ReadSoFar
  <2> QED BY <1>0, <2>1, <2>2, <2>3, <2>4 DEF TypeOK, PageRead
<1>2. CASE stream[t] = NumStreams
  <2>1. pc' = [pc EXCEPT ![t] = "advance"] /\ UNCHANGED <<stream, next>>
    BY <1>0, <1>2 DEF EndOfList, Goes
  <2>2. ReadSoFar(t)'
    <3> SUFFICES ASSUME NEW r \in created, from[t] <= r[2], r[2] < to[t]
                 PROVE  r \in imported'
      BY DEF ReadSoFar
    <3>1. r[1] <= NumStreams
      BY RecordShape, <1>0 DEF Streams
    <3>2. r[1] < stream[t] \/ r[1] = stream[t]
      BY <1>0, <1>r, <1>2, <3>1
    <3> QED BY <3>2 DEF ReadSoFar
  <2>3. pc' \in [Tasks -> Pcs]
    BY <2>1 DEF TypeOK, Pcs, Steps
  <2>4. from[t] <= next'[t]
    BY <2>1
  <2> QED BY <2>1, <2>2, <2>3, <2>4 DEF TypeOK, PageRead
<1> QED BY <1>0, <1>1, <1>2

\* A page is the oldest record that is left.
LEMMA PageInv ==
  ASSUME TypeOK, NEW t \in Tasks, pc[t] = "read", ReadSoFar(t), from[t] <= next[t],
         NEW a \in Rest(t), \A b \in Rest(t) : a <= b,
         imported' = imported \cup {<<stream[t], a>>},
         UNCHANGED <<created, from, to>>,
         next' = [next EXCEPT ![t] = a + 1], UNCHANGED <<pc, stream>>
  PROVE  PageRead(t)
<1>0. /\ from[t] \in Nat /\ to[t] \in Nat /\ next[t] \in Nat
      /\ a \in Nat /\ next[t] <= a /\ a <= to[t]
  BY DEF TypeOK, Rest
<1>1. next'[t] = a + 1
  BY DEF TypeOK
<1>2. ReadSoFar(t)'
  <2> SUFFICES ASSUME NEW r \in created, from[t] <= r[2], r[2] < to[t],
                      r[1] < stream[t] \/ (r[1] = stream[t] /\ r[2] < a + 1)
               PROVE  r \in imported'
    BY <1>1 DEF ReadSoFar
  <2>0. r[2] \in Nat /\ r = <<r[1], r[2]>>
    BY RecordShape
  <2>1. CASE r[1] < stream[t]
    BY <2>1 DEF ReadSoFar
  <2>2. CASE r[1] = stream[t] /\ r[2] < next[t]
    BY <2>2 DEF ReadSoFar
  <2>3. CASE r[1] = stream[t] /\ r[2] < a + 1 /\ ~ (r[2] < next[t])
    <3>1. r[2] \in next[t] .. to[t]
      BY <1>0, <2>0, <2>3
    <3>2. r[2] \in Rest(t)
      BY <2>0, <2>3, <3>1 DEF Rest
    <3>3. r[2] = a
      BY <1>0, <2>0, <2>3, <3>2
    <3> QED BY <2>0, <2>3, <3>3
  <2> QED BY <2>1, <2>2, <2>3
<1>3. next' \in [Tasks -> Nat]
  BY <1>0 DEF TypeOK
<1> QED BY <1>0, <1>1, <1>2, <1>3 DEF TypeOK, PageRead

\* Every answer of Ozon's lists leaves the task with what it read so far.
LEMMA ReadPageReads ==
  ASSUME TypeOK, NEW t \in Tasks, ReadPage(t), ReadSoFar(t), from[t] <= next[t]
  PROVE  PageRead(t)
<1>0. /\ from[t] \in Nat /\ to[t] \in Nat /\ next[t] \in Nat
      /\ pc[t] = "read" /\ UNCHANGED <<created, from, to>>
      /\ imported \subseteq imported'
  BY DEF TypeOK, ReadPage
\* Records before `next' are in the tables, so those that are not are in Rest.
<1>1. \A r \in created :
        /\ from[t] <= r[2] /\ r[2] < to[t] /\ r[1] = stream[t]
        => r \in imported' \/ r[2] \in Rest(t)
  <2> SUFFICES ASSUME NEW r \in created, from[t] <= r[2], r[2] < to[t], r[1] = stream[t]
               PROVE  r \in imported' \/ r[2] \in Rest(t)
    OBVIOUS
  <2>0. r[2] \in Nat /\ r = <<r[1], r[2]>>
    BY RecordShape
  <2>1. CASE r[2] < next[t]
    BY <1>0, <2>1 DEF ReadSoFar
  <2>2. CASE ~ (r[2] < next[t])
    <3>1. r[2] \in next[t] .. to[t]
      BY <1>0, <2>0, <2>2
    <3> QED BY <2>0, <3>1 DEF Rest
  <2> QED BY <2>1, <2>2
<1>2. CASE Rest(t) = {} /\ EndOfList(t)
  BY <1>0, <1>1, <1>2, EndOfListInv
<1>3. ASSUME NEW a \in Rest(t), \A b \in Rest(t) : a <= b,
             imported' = imported \cup {<<stream[t], a>>}
      PROVE  /\ next' = [next EXCEPT ![t] = a + 1] /\ UNCHANGED <<pc, stream>>
               => PageRead(t)
             /\ Rest(t) = {a} /\ EndOfList(t) => PageRead(t)
  <2>1. ASSUME next' = [next EXCEPT ![t] = a + 1], UNCHANGED <<pc, stream>>
        PROVE  PageRead(t)
    BY <1>0, <1>3, <2>1, PageInv
  <2>2. ASSUME Rest(t) = {a}, EndOfList(t)
        PROVE  PageRead(t)
    <3>1. \A r \in created :
            from[t] <= r[2] /\ r[2] < to[t] /\ r[1] = stream[t] => r \in imported'
      BY <1>1, <1>3, <2>2, RecordShape
    <3> QED BY <1>0, <2>2, <3>1, EndOfListInv
  <2> QED BY <2>1, <2>2
<1> QED BY <1>2, <1>3 DEF ReadPage

LEMMA ReadInv ==
  ASSUME WindowInv, NEW t \in Tasks, ReadPage(t)
  PROVE  WindowInv'
<1>0. /\ TypeOK /\ RunInv(t) /\ ReadSoFar(t) /\ from[t] <= next[t]
      /\ pc[t] = "read" /\ to[t] <= now
      /\ (source[t] # NoCursor => from[t] = source[t])
      /\ floor \in Nat /\ \A r \in created : r[2] \in Nat
  BY RecordShape DEF WindowInv, RunInv, ReadPage, TypeOK
<1>1. PageRead(t)
  BY <1>0, ReadPageReads
<1>2. /\ UNCHANGED <<now, created, cursor, floor, try, source, from, to, faults>>
      /\ imported \subseteq imported' /\ imported' \subseteq created
  BY <1>0 DEF ReadPage, Rest, TypeOK
<1>3. TypeOK'
  BY <1>0, <1>1, <1>2 DEF TypeOK, PageRead
<1>4. /\ \A r \in created' : r[2] <= now'
      /\ Closed(cursor)' /\ CursorHidesNoRecord'
  BY <1>2 DEF WindowInv, Closed, CursorHidesNoRecord, ImportedBefore
<1>5. RunInv(t)'
  BY <1>0, <1>1, <1>2 DEF PageRead, RunInv, Closed, ImportedBefore
<1>6. \A u \in Tasks : u # t => RunInv(u)'
  BY <1>0, <1>1, <1>2, TaskKeepsOthers DEF PageRead
<1> QED BY <1>3, <1>4, <1>5, <1>6 DEF WindowInv

\* The end of a window that was read is an honest cursor; without a source
\* cursor only what is older than the lookback is given up.
LEMMA AdvanceInv ==
  ASSUME WindowInv, NEW t \in Tasks, AdvanceCursor(t)
  PROVE  WindowInv'
<1> USE DEF AdvanceCursor, Goes, windowVars
<1>0. /\ TypeOK /\ RunInv(t) /\ ReadSoFar(t) /\ to[t] <= now
      /\ (source[t] # NoCursor => from[t] = source[t])
      /\ pc[t] = "advance" /\ ImportedBefore(source[t])
      /\ floor \in Nat /\ from[t] \in Nat /\ to[t] \in Nat /\ now \in Nat
      /\ source[t] \in Nat
      /\ \A r \in created : r[2] \in Nat
  BY RecordShape DEF WindowInv, RunInv, TypeOK
<1>f. /\ floor' \in Nat /\ floor <= floor'
      /\ source[t] = NoCursor => from[t] <= floor'
  BY <1>0 DEF Later
<1>1. TypeOK'
  BY <1>0, <1>f DEF TypeOK, Pcs, Steps
<1>2. ImportedBefore(to[t])'
  <2> SUFFICES ASSUME NEW r \in created, floor' <= r[2], r[2] < to[t]
               PROVE  r \in imported
    BY DEF ImportedBefore
  <2>0. r[2] \in Nat /\ floor <= r[2]
    BY <1>0, <1>f
  <2>1. CASE from[t] <= r[2]
    BY <1>0, <2>1 DEF ReadSoFar
  <2>2. CASE ~ (from[t] <= r[2])
    <3>1. source[t] # NoCursor
      BY <1>0, <1>f, <2>0, <2>2
    <3>2. r[2] < source[t]
      BY <1>0, <2>0, <2>2, <3>1
    <3> QED BY <1>0, <2>0, <3>2 DEF ImportedBefore
  <2> QED BY <2>1, <2>2
<1>3. Closed(cursor)' /\ CursorHidesNoRecord'
  BY <1>0, <1>2 DEF Closed, CursorHidesNoRecord, ImportedBefore
<1>4. RunInv(t)'
  <2>1. pc'[t] = "complete"
    BY <1>0 DEF TypeOK
  <2>2. Closed(source[t])' /\ ImportedBefore(source[t])'
    BY <1>0, <1>f DEF RunInv, Closed, ImportedBefore
  <2> QED BY <1>0, <1>2, <2>1, <2>2 DEF RunInv
<1>5. \A u \in Tasks : u # t => RunInv(u)'
  BY <1>0, <1>f, TaskKeepsOthers DEF TypeOK
<1> QED BY <1>1, <1>3, <1>4, <1>5 DEF WindowInv

LEMMA EndInv ==
  ASSUME WindowInv, NEW t \in Tasks, MarkCompleted(t) \/ ImportFails(t)
  PROVE  WindowInv'
<1> USE DEF MarkCompleted, ImportFails, Goes, windowVars
<1>0. TypeOK /\ RunInv(t) /\ try[t] \in 0 .. MaxAttempts
  BY DEF WindowInv, TypeOK
<1>a. /\ AfterFailedDelivery(try[t]) \in {"queued", "archived"}
      /\ AfterFailedDelivery(try[t]) = "queued" => try[t] < MaxAttempts
  BY <1>0, FailedDelivery
<1>1. TypeOK'
  <2>1. pc' \in [Tasks -> Pcs]
    BY <1>0, <1>a DEF TypeOK, Pcs, Steps
  <2>2. faults' \in 0 .. MaxFaults
    BY <1>0, ConstantsAssumption DEF TypeOK
  <2> QED BY <1>0, <2>1, <2>2 DEF TypeOK
<1>2. RunInv(t)'
  <2>1. \/ pc[t] = "complete" /\ pc'[t] = "done"
        \/ pc'[t] = AfterFailedDelivery(try[t])
    BY <1>0 DEF TypeOK
  <2> QED BY <1>0, <1>a, <2>1 DEF RunInv, Closed, ImportedBefore
<1>3. \A u \in Tasks : u # t => RunInv(u)'
  BY <1>0, TaskKeepsOthers DEF TypeOK
<1> QED BY <1>1, <1>2, <1>3, DataKept DEF WindowInv

-----------------------------------------------------------------------------
(* Steps of the clock, of the seller's customers and of an administrator.   *)

LEMMA TickInv ==
  ASSUME WindowInv, Tick
  PROVE  WindowInv'
<1> USE DEF Tick, windowVars
<1>0. TypeOK /\ now \in Nat
  BY DEF WindowInv, TypeOK
<1>1. TypeOK'
  BY <1>0 DEF TypeOK
<1>2. (\A r \in created' : r[2] <= now') /\ CursorHidesNoRecord'
  BY <1>0, RecordShape DEF WindowInv, CursorHidesNoRecord, ImportedBefore
<1>3. \A n \in Nat : Closed(n) => Closed(n)'
  BY <1>0 DEF Closed
<1>4. Closed(cursor)'
  BY <1>0, <1>3 DEF WindowInv, TypeOK
<1>5. ASSUME NEW u \in Tasks PROVE RunInv(u)'
  <2>1. RunInv(u) /\ source[u] \in Nat /\ to[u] \in Nat
    BY <1>0 DEF WindowInv, TypeOK
  <2>2. ReadSoFar(u) => ReadSoFar(u)'
    BY DEF ReadSoFar
  <2>3. to[u] <= now => to'[u] <= now'
    BY <1>0, <2>1
  <2> QED BY <1>3, <2>1, <2>2, <2>3 DEF RunInv, ImportedBefore
<1> QED BY <1>1, <1>2, <1>4, <1>5 DEF WindowInv

\* A record that appears now is outside every closed window.
LEMMA CreateRecordInv ==
  ASSUME WindowInv, NEW s \in Streams, CreateRecord(s)
  PROVE  WindowInv'
<1> USE DEF CreateRecord, windowVars
<1>0. TypeOK /\ now \in Nat /\ floor \in Nat /\ cursor \in Nat
  BY DEF WindowInv, TypeOK
<1>r. \A r \in created' : r \in created \/ r[2] = now
  OBVIOUS
<1>1. TypeOK'
  BY <1>0 DEF TypeOK, Records
<1>2. \A r \in created' : r[2] <= now'
  BY <1>0, <1>r DEF WindowInv
<1>3. \A n \in Nat : Closed(n) /\ ImportedBefore(n) => Closed(n)' /\ ImportedBefore(n)'
  BY <1>0, <1>r DEF Closed, ImportedBefore
<1>4. Closed(cursor)' /\ CursorHidesNoRecord'
  BY <1>0, <1>3 DEF WindowInv, CursorHidesNoRecord
<1>5. ASSUME NEW u \in Tasks PROVE RunInv(u)'
  <2>1. RunInv(u) /\ source[u] \in Nat /\ to[u] \in Nat
    BY <1>0 DEF WindowInv, TypeOK
  <2>2. to[u] <= now /\ ReadSoFar(u) => ReadSoFar(u)'
    BY <1>0, <1>r, <2>1 DEF ReadSoFar
  <2>3. to[u] <= now => Closed(to[u])
    BY DEF Closed
  <2> QED BY <1>3, <2>1, <2>2, <2>3 DEF RunInv
<1> QED BY <1>1, <1>2, <1>4, <1>5 DEF WindowInv

LEMMA ResetCursorInv ==
  ASSUME WindowInv, NEW v \in ResetValues, ResetCursor(v)
  PROVE  WindowInv'
<1> USE DEF ResetCursor, windowVars
<1>0. TypeOK /\ v \in Nat /\ floor \in Nat /\ floor' \in Nat
      /\ floor <= floor' /\ v <= floor'
  BY ConstantsAssumption DEF WindowInv, TypeOK, Later
<1>1. TypeOK'
  BY <1>0 DEF TypeOK
<1>2. Closed(cursor)' /\ CursorHidesNoRecord'
  BY <1>0, RecordShape DEF Closed, CursorHidesNoRecord, ImportedBefore
<1>3. \A u \in Tasks : RunInv(u)'
  BY <1>0, TaskKeepsOthers
<1> QED BY <1>1, <1>2, <1>3 DEF WindowInv

\* Every step keeps the invariant.
LEMMA NextWindowInv == WindowInv /\ [Next]_vars => WindowInv'
<1> SUFFICES ASSUME WindowInv, [Next]_vars PROVE WindowInv'
  OBVIOUS
<1>1. CASE Tick
  BY <1>1, TickInv
<1>2. ASSUME NEW s \in Streams, CreateRecord(s) PROVE WindowInv'
  BY <1>2, CreateRecordInv
<1>3. ASSUME NEW v \in ResetValues, ResetCursor(v) PROVE WindowInv'
  BY <1>3, ResetCursorInv
<1>4. ASSUME NEW t \in Tasks, CreateImportJob(t) \/ Delivery(t) \/ ImportFails(t)
      PROVE  WindowInv'
  BY <1>4, DeliverInv, ResolveInv, ReadInv, AdvanceInv, EndInv DEF Delivery
<1>5. CASE UNCHANGED vars
  <2>1. TypeOK'
    BY <1>5 DEF WindowInv, TypeOK, vars, windowVars
  <2>2. \A u \in Tasks : RunInv(u)'
    BY <1>5, TaskKeepsOthers DEF WindowInv, TypeOK, vars, windowVars
  <2> QED BY <1>5, <2>1, <2>2, DataKept DEF WindowInv, vars, windowVars
<1> QED BY <1>1, <1>2, <1>3, <1>4, <1>5 DEF Next

-----------------------------------------------------------------------------
\* The invariant holds in every reachable state.
THEOREM WindowInvHolds == Spec => []WindowInv
  BY InitWindowInv, NextWindowInv, PTL DEF Spec

\* The cursor of the orders domain, which completeImport overwrites blindly,
\* never hides a promised record from the next sync.
THEOREM NoRecordIsLost == Spec => []CursorHidesNoRecord
<1>1. WindowInv => CursorHidesNoRecord
  BY DEF WindowInv
<1> QED BY WindowInvHolds, <1>1, PTL

\* An import that completes has read both lists of its window.
THEOREM ImportsAreRead == Spec => []CompletedImportIsRead
<1>1. WindowInv => CompletedImportIsRead
  BY DEF WindowInv, RunInv, CompletedImportIsRead
<1> QED BY WindowInvHolds, <1>1, PTL
=============================================================================
