------------------------------- MODULE AcpRuns -------------------------------
(***************************************************************************)
(* The runs the legacy ACP server retains: RunStore and the handlers of    *)
(* POST /agents/{name}/runs and DELETE /runs/{id}                          *)
(* (crates/reddb-io-toon-rpc-acp/src/runs.rs, http.rs).                    *)
(*                                                                         *)
(* The store is behind a mutex that no handler keeps over a blocking call: *)
(* a DELETE looks its run up, lets go, and removes it later by its name.   *)
(* Runs are numbered in the order of their insertion; their identifiers    *)
(* are drawn afresh.  A run never changes once it is retained, and what    *)
(* matters of its status is whether it is finished.                        *)
(***************************************************************************)
EXTENDS Naturals, Sequences, SequencesExt

CONSTANTS
  Deletes,   \* DELETE requests that may be made
  max_runs,  \* AcpHttpConfig::max_runs
  MaxRuns    \* bound: runs created

ASSUME AcpAssumption == max_runs \in Nat /\ MaxRuns \in Nat

Runs == 1..MaxRuns

VARIABLES
  created,    \* how many runs were inserted
  runs,       \* what the store has of each run: "absent", "live", "finished"
  order,      \* RunStore::order
  delete,     \* where each DELETE stands
  asked,      \* the run it names
  reply,      \* what it answered
  cancelled   \* ghost: the runs whose cancel hook succeeded

acpVars == <<created, runs, order, delete, asked, reply, cancelled>>

AcpInit ==
  /\ created = 0
  /\ runs = [r \in Runs |-> "absent"]
  /\ order = <<>>
  /\ delete = [d \in Deletes |-> "idle"]
  /\ asked = [d \in Deletes |-> 0]
  /\ reply = [d \in Deletes |-> "none"]
  /\ cancelled = {}

-----------------------------------------------------------------------------
\* RunStore.

capacity == IF max_runs = 0 THEN 1 ELSE max_runs

\* RunStore::evict_one takes the oldest finished run, or the oldest one.
victim_oldest(store, queue) == Head(queue)
victim(store, queue) ==
  LET first == SelectInSeq(queue, LAMBDA r : store[r] = "finished")
  IN  queue[IF first = 0 THEN 1 ELSE first]

\* retain: the queue holds a run once.
retain(queue, r) == RemoveFirst(queue, r)

\* RunStore::insert.  Identifiers are fresh: nothing is replaced, and a store
\* that was within its capacity is one run over it.
insert(r, status) ==
  LET store == [runs EXCEPT ![r] = status]
      queue == Append(order, r)
      out == victim(store, queue)
  IN  IF Len(queue) <= capacity THEN runs' = store /\ order' = queue
      ELSE runs' = [store EXCEPT ![out] = "absent"] /\ order' = retain(queue, out)

\* RunStore::remove, of a run that may be gone.
remove(r) == runs' = [runs EXCEPT ![r] = "absent"] /\ order' = retain(order, r)

-----------------------------------------------------------------------------
\* The agent returned a run, in whatever state, and the server retains it.
handle_create_run(status) ==
  /\ created < MaxRuns
  /\ created' = created + 1
  /\ insert(created', status)
  /\ UNCHANGED <<delete, asked, reply, cancelled>>

Goes(d, to) == delete' = [delete EXCEPT ![d] = to]
Answers(d, text) == reply' = [reply EXCEPT ![d] = text]

\* DELETE looks its run up and gives the lock back.
LookUp(d, r) ==
  /\ delete[d] = "idle"
  /\ asked' = [asked EXCEPT ![d] = r]
  /\ \/ runs[r] = "absent" /\ Goes(d, "answered") /\ Answers(d, "not found")
     \/ runs[r] = "finished" /\ Goes(d, "releasing") /\ UNCHANGED reply
     \/ runs[r] = "live" /\ Goes(d, "cancelling") /\ UNCHANGED reply
  /\ UNCHANGED <<created, runs, order, cancelled>>

\* A finished run is released.  When it is gone by now its status is null.
Release(d) ==
  /\ delete[d] = "releasing"
  /\ remove(asked[d])
  /\ Answers(d, IF runs[asked[d]] = "absent" THEN "null" ELSE "finished")
  /\ Goes(d, "answered")
  /\ UNCHANGED <<created, asked, cancelled>>

\* The blocking call of the cancel hook succeeds, or fails or panics.  One whose
\* request was dropped runs to its end, and nobody learns of it.
HookSucceeds(d) ==
  /\ delete[d] \in {"cancelling", "orphaned"}
  /\ cancelled' = cancelled \cup {asked[d]}
  /\ Goes(d, IF delete[d] = "orphaned" THEN "dropped" ELSE "removing")
  /\ UNCHANGED <<created, runs, order, asked, reply>>
HookFails(d) ==
  /\ delete[d] \in {"cancelling", "orphaned"}
  /\ Goes(d, IF delete[d] = "orphaned" THEN "dropped" ELSE "answered")
  /\ IF delete[d] = "orphaned" THEN UNCHANGED reply ELSE Answers(d, "error")
  /\ UNCHANGED <<created, runs, order, asked, cancelled>>

\* And then the run goes by its name.
RemoveCancelled(d) ==
  /\ delete[d] = "removing"
  /\ remove(asked[d])
  /\ Answers(d, "cancelled")
  /\ Goes(d, "answered")
  /\ UNCHANGED <<created, asked, cancelled>>

\* The client goes away while the hook runs, the only await that takes time.
DropDelete(d) ==
  /\ delete[d] = "cancelling"
  /\ Goes(d, "orphaned")
  /\ UNCHANGED <<created, runs, order, asked, reply, cancelled>>

handle_cancel_run(d) ==
  \/ \E r \in Runs : LookUp(d, r)
  \/ Release(d) \/ HookSucceeds(d) \/ HookFails(d) \/ RemoveCancelled(d) \/ DropDelete(d)

AcpNext ==
  \/ \E status \in {"live", "finished"} : handle_create_run(status)
  \/ \E d \in Deletes : handle_cancel_run(d)

AcpSpec == AcpInit /\ [][AcpNext]_acpVars

-----------------------------------------------------------------------------

Retained == {r \in Runs : runs[r] # "absent"}

\* runs.rs:24-25: the queue holds what the map holds, each run once and the
\* oldest first, within the capacity; and what a DELETE released stays away.
StoreInOrder ==
  /\ ToSet(order) = Retained
  /\ \A i, j \in DOMAIN order : i < j => order[i] < order[j]
  /\ Len(order) <= capacity
  /\ \A d \in Deletes : reply[d] \in {"finished", "null", "cancelled"} => asked[d] \notin Retained

\* docs/acp-legacy-openapi.yaml, DELETE, and runs.rs:47-48: a run that is live
\* leaves the store only when its own cancel hook has succeeded, or when a new
\* run needs room and every run that is retained is live.
LiveRunsStay ==
  \A r \in Retained : runs[r] = "live" /\ runs'[r] = "absent" =>
    \/ r \in cancelled
    \/ created' = created + 1 /\ \A other \in Runs : runs'[other] # "finished"

\* Whatever creations, deletions, failures and lost requests interleave.
RunsRetained == []StoreInOrder /\ [][LiveRunsStay]_acpVars
=============================================================================
