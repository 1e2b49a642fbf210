----------------------------- MODULE OrderWindow -----------------------------
(***************************************************************************)
(* The import of orders and sales of one seller account.  The coordinator  *)
(* gives each import_job the cursor it finds (ozon_sync_coordinator.go);   *)
(* every delivery of the task reads the window from that cursor, or from   *)
(* the initial lookback when there is none, to the current second, both    *)
(* ends included, first the postings and then the finance operations       *)
(* (ordersync/service.go), and then overwrites the shared cursor with the  *)
(* end of its window (completeImport).  The tasks of several syncs run     *)
(* concurrently and an administrator may reset the cursor at any time.     *)
(*                                                                         *)
(* Time is counted in seconds, as resolveWindow truncates it.  A record is *)
(* its stream and the second of its creation: it appears at some moment of *)
(* that second, before or after a window that ends there was read.         *)
(***************************************************************************)
EXTENDS Naturals

CONSTANTS
  Tasks,        \* import tasks of the orders domain, one per sync
  NumStreams,   \* lists a run reads one after the other: postings, operations
  MaxTime,      \* bound on the clock
  Lookback,     \* defaultInitialOrdersLookback
  MaxAttempts,  \* deliveries of one task: asynq's MaxRetry + 1
  MaxFaults,    \* bound on the number of injected faults
  ResetValues   \* the values an administrator may reset the cursor to

ASSUME ConstantsAssumption ==
  /\ NumStreams \in Nat \ {0}
  /\ MaxTime \in Nat
  /\ Lookback \in Nat
  /\ MaxAttempts \in Nat \ {0}
  /\ MaxFaults \in Nat
  /\ ResetValues \subseteq Nat

Streams  == 1 .. NumStreams
Records  == Streams \X Nat
NoCursor == 0

VARIABLES
  now,       \* the current second
  created,   \* records that exist at Ozon
  imported,  \* records that have a row in orders or sales
  cursor,    \* sync_cursors.cursor_value of (orders, since)
  floor,     \* history: older records are outside every promise, because of
             \* the lookback of a first import or the word of an administrator
  pc,        \* where the import task is
  try,       \* deliveries of the task so far
  source,    \* import_jobs.source_cursor
  from,      \* the window of the delivery
  to,
  stream,    \* the list being read
  next,      \* the seconds of the window before this one have been read
  faults     \* injected faults so far

windowVars == <<from, to, stream, next>>
vars == <<now, created, imported, cursor, floor, pc, try, source, windowVars, faults>>

Steps == {"resolve", "read", "advance", "complete"}
Pcs == Steps \cup {"none", "queued", "done", "archived"}

TypeOK ==
  /\ now \in Nat
  /\ created \subseteq Records
  /\ imported \subseteq created
  /\ cursor \in Nat
  /\ floor \in Nat
  /\ pc \in [Tasks -> Pcs]
  /\ try \in [Tasks -> 0 .. MaxAttempts]
  /\ source \in [Tasks -> Nat]
  /\ from \in [Tasks -> Nat]
  /\ to \in [Tasks -> Nat]
  /\ stream \in [Tasks -> Streams]
  /\ next \in [Tasks -> Nat]
  /\ faults \in 0 .. MaxFaults

Init ==
  /\ now = 1
  /\ created = {}
  /\ imported = {}
  /\ cursor = NoCursor
  /\ floor = 0
  /\ pc = [t \in Tasks |-> "none"]
  /\ try = [t \in Tasks |-> 0]
  /\ source = [t \in Tasks |-> NoCursor]
  /\ from = [t \in Tasks |-> 0]
  /\ to = [t \in Tasks |-> 0]
  /\ stream = [t \in Tasks |-> 1]
  /\ next = [t \in Tasks |-> 0]
  /\ faults = 0

Goes(t, where) == pc' = [pc EXCEPT ![t] = where]
Later(a, b) == IF a > b THEN a ELSE b

\* asynq: a task whose delivery failed waits for the next one, or is archived.
AfterFailedDelivery(n) == IF n < MaxAttempts THEN "queued" ELSE "archived"

-----------------------------------------------------------------------------
(* Around the importer.                                                     *)

Tick ==
  /\ now < MaxTime
  /\ now' = now + 1
  /\ UNCHANGED <<created, imported, cursor, floor, pc, try, source, windowVars, faults>>

CreateRecord(s) ==
  /\ created' = created \cup {<<s, now>>}
  /\ UNCHANGED <<now, imported, cursor, floor, pc, try, source, windowVars, faults>>

ResetCursor(v) ==
  /\ cursor' = v
  /\ floor' = Later(floor, v)
  /\ UNCHANGED <<now, created, imported, pc, try, source, windowVars, faults>>

\* The coordinator: ResolveSourceCursor, the import_jobs row and its task.
CreateImportJob(t) ==
  /\ pc[t] = "none"
  /\ source' = [source EXCEPT ![t] = cursor]
  /\ Goes(t, "queued")
  /\ UNCHANGED <<now, created, imported, cursor, floor, try, windowVars, faults>>

Deliver(t) ==
  /\ pc[t] = "queued"
  /\ Goes(t, "resolve")
  /\ try' = [try EXCEPT ![t] = @ + 1]
  /\ UNCHANGED <<now, created, imported, cursor, floor, source, windowVars, faults>>

-----------------------------------------------------------------------------
(* One delivery.                                                            *)

\* Mutant: the window starts in the second after the cursor.
WindowStartAfterCursor(t) ==
  IF source[t] # NoCursor THEN source[t] + 1
  ELSE IF now > Lookback THEN now - Lookback ELSE 0

WindowStart(t) ==
  IF source[t] # NoCursor THEN source[t]
  ELSE IF now > Lookback THEN now - Lookback ELSE 0

ResolveWindow(t) ==
  /\ pc[t] = "resolve"
  /\ from' = [from EXCEPT ![t] = WindowStart(t)]
  /\ to' = [to EXCEPT ![t] = now]
  /\ next' = [next EXCEPT ![t] = WindowStart(t)]
  /\ stream' = [stream EXCEPT ![t] = 1]
  /\ Goes(t, "read")
  /\ UNCHANGED <<now, created, imported, cursor, floor, try, source, faults>>

\* The seconds of the window that the current list still has records of.
Rest(t) == {a \in next[t] .. to[t] : <<stream[t], a>> \in created}

\* Mutant: the run ends with the postings.
EndOfListSkipsTheOthers(t) ==
  /\ Goes(t, "advance")
  /\ UNCHANGED <<stream, next>>

\* Run: importOrders, then importSales over the same window.
EndOfList(t) ==
  \/ /\ stream[t] < NumStreams
     /\ stream' = [stream EXCEPT ![t] = @ + 1]
     /\ next' = [next EXCEPT ![t] = from[t]]
     /\ UNCHANGED pc
  \/ /\ stream[t] = NumStreams
     /\ Goes(t, "advance")
     /\ UNCHANGED <<stream, next>>

\* The next page, oldest records first; the answer that holds the last record
\* may already say that nothing follows.
ReadPage(t) ==
  /\ pc[t] = "read"
  /\ \/ /\ Rest(t) = {}
        /\ EndOfList(t)
        /\ UNCHANGED imported
     \/ \E a \in Rest(t) :
          /\ \A b \in Rest(t) : a <= b
          /\ imported' = imported \cup {<<stream[t], a>>}
          /\ \/ /\ next' = [next EXCEPT ![t] = a + 1]
                /\ UNCHANGED <<pc, stream>>
             \/ /\ Rest(t) = {a}
                /\ EndOfList(t)
  /\ UNCHANGED <<now, created, cursor, floor, try, source, from, to, faults>>

\* Mutant: the cursor moves although reading has not ended.
AdvanceCursorEarly(t) ==
  /\ pc[t] \in {"read", "advance"}
  /\ cursor' = to[t]
  /\ floor' = IF source[t] = NoCursor THEN Later(floor, from[t]) ELSE floor
  /\ Goes(t, "complete")
  /\ UNCHANGED <<now, created, imported, try, source, windowVars, faults>>

\* completeImport: the new value does not depend on the one it overwrites.
AdvanceCursor(t) ==
  /\ pc[t] = "advance"
  /\ cursor' = to[t]
  /\ floor' = IF source[t] = NoCursor THEN Later(floor, from[t]) ELSE floor
  /\ Goes(t, "complete")
  /\ UNCHANGED <<now, created, imported, try, source, windowVars, faults>>

MarkCompleted(t) ==
  /\ pc[t] = "complete"
  /\ Goes(t, "done")
  /\ UNCHANGED <<now, created, imported, cursor, floor, try, source, windowVars, faults>>

\* A call or a statement fails, or the worker dies: what is written stays.
ImportFails(t) ==
  /\ pc[t] \in Steps
  /\ faults < MaxFaults
  /\ faults' = faults + 1
  /\ Goes(t, AfterFailedDelivery(try[t]))
  /\ UNCHANGED <<now, created, imported, cursor, floor, try, source, windowVars>>

-----------------------------------------------------------------------------
Delivery(t) ==
  \/ Deliver(t)
  \/ ResolveWindow(t)
  \/ ReadPage(t)
  \/ AdvanceCursor(t)
  \/ MarkCompleted(t)

Next ==
  \/ Tick
  \/ \E s \in Streams : CreateRecord(s)
  \/ \E v \in ResetValues : ResetCursor(v)
  \/ \E t \in Tasks : CreateImportJob(t) \/ Delivery(t) \/ ImportFails(t)

Spec == Init /\ [][Next]_vars

-----------------------------------------------------------------------------
(* Properties.                                                              *)

\* Every promised record created before this second is in the tables.
ImportedBefore(n) ==
  \A r \in created : floor <= r[2] /\ r[2] < n => r \in imported

\* Whatever overlapping syncs, late retries with an old source cursor, and
\* resets do to the cursor, no record is lost between two windows: a later
\* sync, which reads from the cursor on, skips only records that are in the
\* tables.  A record of the very second at which a window ended may be missing
\* and is read again by the next window, whose start is inclusive.
CursorHidesNoRecord == ImportedBefore(cursor)

\* A completed import has both the orders and the sales created before the
\* end of its window.
CompletedImportIsRead ==
  \A t \in Tasks : pc[t] \in {"complete", "done"} => ImportedBefore(to[t])

\* Nothing new can appear before this second, or nothing is promised there.
Closed(n) == n <= now \/ n <= floor

\* What the delivery has read so far of its window.
ReadSoFar(t) ==
  \A r \in created :
    /\ from[t] <= r[2]
    /\ r[2] < to[t]
    /\ \/ r[1] < stream[t]
       \/ r[1] = stream[t] /\ r[2] < next[t]
       \/ pc[t] = "advance"
    => r \in imported

RunInv(t) ==
  /\ pc[t] \in {"none", "queued"} => try[t] < MaxAttempts
  /\ Closed(source[t]) /\ ImportedBefore(source[t])
  /\ pc[t] \in {"read", "advance"} =>
       /\ to[t] <= now
       /\ source[t] # NoCursor => from[t] = source[t]
       /\ from[t] <= next[t]
       /\ ReadSoFar(t)
  /\ pc[t] \in {"complete", "done"} => to[t] <= now /\ ImportedBefore(to[t])

\* The inductive invariant: the source cursor of a task stays honest however
\* long it waits, and what a delivery has read of its window stays read.
WindowInv ==
  /\ TypeOK
  /\ \A r \in created : r[2] <= now
  /\ Closed(cursor)
  /\ CursorHidesNoRecord
  /\ \A t \in Tasks : RunInv(t)
=============================================================================
