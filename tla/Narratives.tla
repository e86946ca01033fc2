------------------------------ MODULE Narratives ------------------------------
(***************************************************************************)
(* The narratives an agent writes down about its trades                    *)
(* (src/src/narrative/service.rs, store.rs, snapshot_store.rs): a row in a *)
(* database and a snapshot file, written one after the other; and the      *)
(* tasks that add the outcome of an order when it fills.                   *)
(*                                                                         *)
(* One connection behind a mutex: a call of the store is one step.  Texts  *)
(* and snapshots are left out.  A narrative keeps what tells it from       *)
(* others: its id (which also names its file), the agent's idempotency key *)
(* and the order it is about.                                              *)
(***************************************************************************)
EXTENDS Integers, FiniteSets

CONSTANTS
  Keys,            \* (agent, idempotency_key) pairs
  NoKey,           \* a request without one
  NoOutcome,       \* outcome_json is NULL
  MaxNarratives    \* bound: snapshots ever written

Outcome == [order : Nat \ {0}, price : Nat, time : Nat]

ASSUME NarrativeAssumption ==
  NoKey \notin Keys /\ NoOutcome \notin Outcome /\ MaxNarratives \in Nat

VARIABLES
  rows,       \* the table
  files,      \* ids whose snapshot file is on disk
  creating,   \* the create_narrative call between its two writes, if any
  outcomes,   \* update_outcome_from_fill tasks that have not run yet
  fills,      \* history: every fill, with the narratives stored before it
  lost        \* history: orders whose outcome task died or failed

narrativeVars == <<rows, files, creating, outcomes, fills, lost>>

NoOrder == 0   \* linked_order_id is None

Ids == 1 .. MaxNarratives

Narrative == [id : Ids, key : Keys \cup {NoKey}, link : Nat,
              outcome : Outcome \cup {NoOutcome}, public : BOOLEAN]
FillNote  == [order : Nat \ {0}, price : Nat, time : Nat, known : SUBSET Ids]

TypeOKNarratives ==
  /\ rows \subseteq Narrative
  /\ files \subseteq Ids
  /\ creating \subseteq Narrative /\ Cardinality(creating) <= 1
  /\ outcomes \subseteq Outcome
  /\ fills \subseteq FillNote
  /\ lost \subseteq Nat

NarrativesInit ==
  /\ rows = {} /\ files = {} /\ creating = {}
  /\ outcomes = {} /\ fills = {} /\ lost = {}

-----------------------------------------------------------------------------
(* create_narrative.  Its id is fresh, so is its file.                     *)
FreshId == Cardinality(files) + 1

WriteSnapshot(key, link) ==
  /\ creating = {}
  /\ FreshId \in Ids
  /\ files' = files \cup {FreshId}
  /\ creating' = {[id |-> FreshId, key |-> key, link |-> link,
                   outcome |-> NoOutcome, public |-> FALSE]}
  /\ UNCHANGED <<rows, outcomes, fills, lost>>

SameKey(n) == {r \in rows : n.key # NoKey /\ r.key = n.key}

InsertAlways(n) == rows \cup {n}   \* mutant of Insert

(* A repeated key answers with the narrative that is there already.        *)
Insert(n) == IF SameKey(n) = {} THEN rows \cup {n} ELSE rows

InsertRow ==
  /\ \E n \in creating : rows' = Insert(n)
  /\ creating' = {}
  /\ UNCHANGED <<files, outcomes, fills, lost>>

(* The reply is an error; the file stays.                                  *)
InsertFails ==
  /\ creating # {}
  /\ creating' = {}
  /\ UNCHANGED <<rows, files, outcomes, fills, lost>>

(* gc_orphans lists them; nothing deletes them.                            *)
Orphans == files \ {r.id : r \in rows}

-----------------------------------------------------------------------------
(* A fill starts one task per order; the task updates every row that names *)
(* the order, and is content when there is none.                           *)
Outcomes(events) ==
  {[order |-> events[i].order.id, price |-> events[i].price, time |-> events[i].time] :
     i \in DOMAIN events}

Noted(events) ==
  {[order |-> o.order, price |-> o.price, time |-> o.time,
    known |-> {r.id : r \in rows}] : o \in Outcomes(events)}

StartOutcomeTasks(events) ==
  /\ fills' = fills \cup Noted(events)
  /\ outcomes' = outcomes \cup Outcomes(events)

WithOutcome(o) ==
  {IF r.link = o.order THEN [r EXCEPT !.outcome = o] ELSE r : r \in rows}

UpdateOutcome(o) ==
  /\ o \in outcomes
  /\ outcomes' = outcomes \ {o}
  /\ rows' = WithOutcome(o)
  /\ UNCHANGED <<files, creating, fills, lost>>

(* Only a warning in the log.                                              *)
UpdateFails(o) ==
  /\ o \in outcomes
  /\ outcomes' = outcomes \ {o}
  /\ lost' = lost \cup {o.order}
  /\ UNCHANGED <<rows, files, creating, fills>>

SetPublic(id) ==
  /\ \E r \in rows : r.id = id
  /\ rows' = {IF r.id = id THEN [r EXCEPT !.public = ~@] ELSE r : r \in rows}
  /\ UNCHANGED <<files, creating, outcomes, fills, lost>>

(* The process ends: what is on disk stays, tasks and the call in progress *)
(* do not.                                                                 *)
NarrativesCrash ==
  /\ creating' = {} /\ outcomes' = {}
  /\ lost' = lost \cup {o.order : o \in outcomes}
  /\ UNCHANGED <<rows, files, fills>>

-----------------------------------------------------------------------------
(* A request repeated after a lost reply, a failure or a restart stores    *)
(* nothing twice: one row per key, one row per id (insert_sync,            *)
(* idx_narratives_idempotency).                                            *)
OneRowPerKey ==
  \A r, s \in rows : (r.id = s.id \/ (r.key = s.key /\ r.key # NoKey)) => r = s

(* Every stored narrative has its snapshot on disk, wherever a create was  *)
(* cut off (the file is written before the row).                           *)
EveryRowHasItsFile == \A r \in rows : r.id \in files

(* An outcome is that of a fill of the very order the narrative names      *)
(* (update_outcome_by_order_id), and an order has one outcome.             *)
OutcomesAreTrue ==
  \A r \in rows : r.outcome # NoOutcome =>
    /\ r.outcome.order = r.link
    /\ \E f \in fills : f.order = r.link /\ f.price = r.outcome.price
                                         /\ f.time = r.outcome.time

(* A fill whose order a stored narrative names reaches it: the outcome is  *)
(* there or its task still runs, unless the task died.  (A narrative that  *)
(* is stored after the fill may never learn of it.)                        *)
NoOutcomeForgotten ==
  \A f \in fills : \A r \in rows :
    (r.id \in f.known /\ r.link = f.order) =>
      r.outcome # NoOutcome \/ f.order \in lost \/ \E o \in outcomes : o.order = f.order

(* What is stored is stored once, with its file, and learns the truth.     *)
NarrativesSound == OneRowPerKey /\ EveryRowHasItsFile /\ OutcomesAreTrue /\ NoOutcomeForgotten
=============================================================================
