---------------------------- MODULE EvidenceStore ----------------------------
(***************************************************************************)
(* The SQLite evidence store.  Its repair events go through a write-behind *)
(* queue: a worker thread saves rows that requests enqueue, a reader first *)
(* drains the queue and waits for the worker, and close drains and stops.  *)
(* Its compatibility records, one for each exact tuple, are read, changed  *)
(* and written back as a whole, by the server for live traffic and by the  *)
(* command line, another process, for reviews; SQLite makes each read and  *)
(* each write atomic and nothing more.  A process may die at any moment and  *)
(* leaves what is in the database.                                         *)
(***************************************************************************)
EXTENDS Naturals, Sequences, FiniteSets, SequencesExt

CONSTANTS
  MaxRows,     \* repair events of a behaviour (bound)
  MaxPending,  \* Queue(maxsize)
  Processes,   \* that open the database
  MaxSamples   \* updates of the record (bound)

\* The queue has room (store.py:682); the bound admits a suite's samples.
ASSUME EvidenceAssumption == MaxRows \in Nat /\ MaxPending \in Nat \ {0} /\ MaxSamples \in Nat \ {0, 1}

VARIABLES
  installed,   \* _write_behind
  rows,        \* fate of each event: "none" before it is recorded
  queue,       \* _write_behind_queue; 0 is the sentinel
  unfinished,  \* its unfinished_tasks
  worker,      \* [at, row]
  reader,      \* [at, row, before]: before is what was accepted when it began
  closer,      \* [at, row]
  stop,        \* _write_behind_stop
  record,      \* compatibility_results' row of one tuple
  copy,        \* each process's fetched record, or NoCopy
  reviews      \* ghost: verifications done

queueVars == <<installed, rows, queue, unfinished, worker, reader, closer, stop>>
recordVars == <<record, copy, reviews>>
evidenceVars == <<queueVars, recordVars>>

Rows == 1..MaxRows
Idle == [at |-> "idle", row |-> 0]
NoCopy == [samples |-> 0]
Fates == {"none", "queued", "held", "saved", "failed", "dropped", "lost"}

\* A record of rates and no counters: how many of its samples were accepted,
\* rejected, and had a tool selected (the code rounds the rates to as much).
OfRates(samples, accepted, rejected, selected) ==
  [samples |-> samples, candidates |-> 0, accepted |-> 0, rejected |-> 0, none |-> 0,
   rates |-> [accepted |-> accepted, rejected |-> rejected, selected |-> selected],
   verified |-> 0, revoked |-> FALSE]

EvidenceTypeOK ==
  /\ rows \in [Rows -> Fates] /\ queue \in BoundedSeq(0..MaxRows, MaxPending) /\ unfinished \in Nat
  /\ worker.at \in {"off", "get", "has"} /\ stop \in BOOLEAN /\ installed \in BOOLEAN
  /\ reader.at \in {"idle", "drain", "has", "join", "seen"} /\ reader.before \subseteq Rows
  /\ closer.at \in {"idle", "drain", "has", "stop", "wake", "join"}
  /\ record.samples \in 0..MaxSamples

EvidenceInit ==
  /\ installed = FALSE /\ rows = [r \in Rows |-> "none"] /\ queue = <<>> /\ unfinished = 0 /\ stop = FALSE
  /\ worker = [at |-> "off", row |-> 0] /\ closer = Idle
  /\ reader = [at |-> "idle", row |-> 0, before |-> {}]
  /\ \E n \in 0..MaxSamples : \E a, s \in 0..n : \E j \in 0..(n - a) :   \* none, or one from before the counters
       record = OfRates(n, a, j, s)
  /\ copy = [p \in Processes |-> NoCopy] /\ reviews = 0

-----------------------------------------------------------------------------
(* The queue. *)

Install ==
  /\ ~installed /\ ~stop /\ installed' = TRUE   \* once (bound)
  /\ worker' = [at |-> "get", row |-> 0]
  /\ UNCHANGED <<rows, queue, unfinished, reader, closer, stop>>

\* record_repair_event: the insert, or a failure that is logged.
Saved(r) == \E fate \in {"saved", "failed"} : rows' = [rows EXCEPT ![r] = fate]

\* record_repair_event_async: a full queue, or none, means a direct write.
RecordAsync ==
  \E r \in Rows :
    /\ rows[r] = "none" /\ \A s \in 1..(r - 1) : rows[s] # "none"
    /\ IF installed /\ Len(queue) < MaxPending
         THEN /\ rows' = [rows EXCEPT ![r] = "queued"]
              /\ queue' = Append(queue, r) /\ unfinished' = unfinished + 1
         ELSE Saved(r) /\ UNCHANGED <<queue, unfinished>>
    /\ UNCHANGED <<worker, reader, closer, stop>>

Hold == rows' = IF Head(queue) = 0 THEN rows ELSE [rows EXCEPT ![Head(queue)] = "held"]

WorkerGets ==
  /\ worker.at = "get" /\ queue # <<>>
  /\ worker' = [at |-> "has", row |-> Head(queue)] /\ queue' = Tail(queue) /\ Hold
  /\ UNCHANGED <<unfinished, reader, closer, stop>>

\* The stop flag is looked at before the row that was taken is written.
WorkerWrites ==
  /\ worker.at = "has"
  /\ unfinished' = unfinished - 1
  /\ IF worker.row = 0 \/ stop
       THEN /\ worker' = [at |-> "off", row |-> 0]
            /\ rows' = IF worker.row = 0 THEN rows ELSE [rows EXCEPT ![worker.row] = "dropped"]
       ELSE worker' = [at |-> "get", row |-> 0] /\ Saved(worker.row)
  /\ UNCHANGED <<queue, reader, closer, stop>>

\* query_repair_stats begins with _flush_write_behind_for_read.
ReadBegins ==
  /\ reader.at = "idle"
  /\ reader' = [at |-> IF installed THEN "drain" ELSE "seen", row |-> 0,
                before |-> {r \in Rows : rows[r] # "none"}]
  /\ UNCHANGED <<rows, queue, unfinished, worker, closer, stop>>

ReaderGets ==
  /\ reader.at = "drain"
  /\ IF queue = <<>> THEN reader' = [reader EXCEPT !.at = "join"] /\ UNCHANGED <<queue, rows>>
     ELSE reader' = [reader EXCEPT !.at = "has", !.row = Head(queue)] /\ queue' = Tail(queue) /\ Hold
  /\ UNCHANGED <<unfinished, worker, closer, stop>>

ReaderWrites ==
  /\ reader.at = "has"
  /\ IF reader.row = 0 THEN UNCHANGED rows ELSE Saved(reader.row)
  /\ unfinished' = unfinished - 1
  /\ reader' = [reader EXCEPT !.at = "drain"]
  /\ UNCHANGED <<queue, worker, closer, stop>>

\* Mutant: the worker's row in flight is not waited for.
ReaderJoinsNot ==
  /\ reader.at = "join"
  /\ reader' = [reader EXCEPT !.at = "seen"]
  /\ UNCHANGED <<rows, queue, unfinished, worker, closer, stop>>

ReaderJoins ==   \* queue.join()
  /\ reader.at = "join" /\ unfinished = 0
  /\ reader' = [reader EXCEPT !.at = "seen"]
  /\ UNCHANGED <<rows, queue, unfinished, worker, closer, stop>>

ReadEnds ==
  /\ reader.at = "seen"
  /\ reader' = [at |-> "idle", row |-> 0, before |-> {}]
  /\ UNCHANGED <<rows, queue, unfinished, worker, closer, stop>>

\* close_write_behind: drain, until empty or a row fails, without task_done;
\* set the flag; put the sentinel; wait, at most five seconds, for the worker.
CloseBegins ==
  /\ installed /\ closer.at = "idle"
  /\ closer' = [at |-> "drain", row |-> 0]
  /\ UNCHANGED <<rows, queue, unfinished, worker, reader, stop>>

CloserGets ==
  /\ closer.at = "drain"
  /\ IF queue = <<>> THEN closer' = [closer EXCEPT !.at = "stop"] /\ UNCHANGED <<queue, rows>>
     ELSE closer' = [at |-> "has", row |-> Head(queue)] /\ queue' = Tail(queue) /\ Hold
  /\ UNCHANGED <<unfinished, worker, reader, stop>>

CloserWrites ==
  /\ closer.at = "has"
  /\ \E fate \in {"saved", "failed"} :
       /\ rows' = [rows EXCEPT ![closer.row] = fate]
       /\ closer' = [closer EXCEPT !.at = IF fate = "saved" THEN "drain" ELSE "stop"]
  /\ UNCHANGED <<queue, unfinished, worker, reader, stop>>

CloserStops ==
  /\ closer.at = "stop"
  /\ stop' = TRUE /\ closer' = [closer EXCEPT !.at = "wake"]
  /\ UNCHANGED <<rows, queue, unfinished, worker, reader>>

CloserWakes ==
  /\ closer.at = "wake" /\ Len(queue) < MaxPending
  /\ queue' = Append(queue, 0) /\ unfinished' = unfinished + 1
  /\ closer' = [closer EXCEPT !.at = "join"]
  /\ UNCHANGED <<rows, worker, reader, stop>>

\* The worker has gone, or five seconds have while it waits for a row (one
\* still writing by then is left out): what is left is forgotten.
Closed ==
  /\ closer.at = "join"
  /\ worker.at # "has"
  /\ installed' = FALSE /\ worker' = [at |-> "off", row |-> 0] /\ closer' = Idle
  /\ rows' = [r \in Rows |-> IF \E i \in DOMAIN queue : queue[i] = r THEN "dropped" ELSE rows[r]]
  /\ queue' = <<>>
  /\ UNCHANGED <<unfinished, reader, stop>>

\* The process dies: its rows in memory are lost, and with them its threads.
\* It may be started again.
Dies ==
  /\ installed' = FALSE /\ stop' = FALSE
  /\ rows' = [r \in Rows |-> IF rows[r] \in {"queued", "held"} THEN "lost" ELSE rows[r]]
  /\ queue' = <<>> /\ unfinished' = 0
  /\ worker' = [at |-> "off", row |-> 0] /\ closer' = Idle
  /\ reader' = [at |-> "idle", row |-> 0, before |-> {}]

QueueNext ==
  /\ \/ Install \/ Closed \/ Dies
     \/ /\ \/ RecordAsync \/ WorkerGets \/ WorkerWrites
           \/ ReadBegins \/ ReaderGets \/ ReaderWrites \/ ReaderJoins \/ ReadEnds
           \/ CloseBegins \/ CloserGets \/ CloserWrites \/ CloserStops \/ CloserWakes
        /\ UNCHANGED installed
  /\ UNCHANGED recordVars

-----------------------------------------------------------------------------
(* The records. *)

Fetch(p) ==   \* get_result
  /\ copy[p] = NoCopy /\ record.samples < MaxSamples
  /\ copy' = [copy EXCEPT ![p] = record]
  /\ UNCHANGED <<record, reviews>>

WriteBack(p, new) == record' = new /\ copy' = [copy EXCEPT ![p] = NoCopy]

\* A record with rates and no counters is given counters from its rates.
Seeded(r) ==
  IF r.candidates = 0 /\ r.none = 0 /\ r.samples > 0
    THEN [r EXCEPT !.candidates = r.samples, !.accepted = r.rates.accepted, !.rejected = r.rates.rejected,
                   !.none = r.samples - r.rates.selected]
    ELSE r

\* Mutant: the merge starts from an empty verification state.
ObserveAfresh(p) ==
  /\ copy[p] # NoCopy /\ copy[p].samples < MaxSamples
  /\ LET r == Seeded(copy[p])
     IN  WriteBack(p, [r EXCEPT !.samples = @ + 1, !.verified = reviews + 1])
  /\ UNCHANGED reviews

\* record_evidence_observation: n decisions of which a were accepted.
Observe(p) ==
  /\ copy[p] # NoCopy /\ copy[p].samples < MaxSamples
  /\ \E n \in 0..2 : \E a \in 0..n :
       LET r == Seeded(copy[p])
       IN  WriteBack(p, [r EXCEPT !.samples = @ + 1, !.candidates = @ + n, !.accepted = @ + a,
                                  !.rejected = @ + (n - a), !.none = @ + (IF n = 0 THEN 1 ELSE 0)])
  /\ UNCHANGED reviews

MarkVerified(p) ==
  /\ copy[p] # NoCopy /\ copy[p].samples > 0
  /\ reviews' = reviews + 1
  /\ WriteBack(p, [copy[p] EXCEPT !.verified = reviews'])

Revoke(p) ==   \* and unrevoke
  /\ copy[p] # NoCopy /\ copy[p].samples > 0
  /\ \E value \in BOOLEAN : WriteBack(p, [copy[p] EXCEPT !.revoked = value])
  /\ UNCHANGED reviews

\* interop test stores a fresh record of rates, none for rejections, and no
\* counters.
StoreSuite(p) ==
  /\ copy[p] = NoCopy
  /\ \E total \in 1..2 : \E passed, selected \in 0..total : record' = OfRates(total, passed, 0, selected)
  /\ UNCHANGED <<copy, reviews>>

\* A process dies between the read and the write.
Abandons(p) ==
  /\ copy[p] # NoCopy
  /\ copy' = [copy EXCEPT ![p] = NoCopy]
  /\ UNCHANGED <<record, reviews>>

RecordNext ==
  /\ \E p \in Processes : Fetch(p) \/ Observe(p) \/ MarkVerified(p) \/ Revoke(p) \/ StoreSuite(p) \/ Abandons(p)
  /\ reviews' <= MaxSamples
  /\ UNCHANGED queueVars

-----------------------------------------------------------------------------
InQueue(r) == Cardinality({i \in DOMAIN queue : queue[i] = r})
HeldBy(r) == {h \in {"worker", "reader", "closer"} :
                CASE h = "worker" -> worker.at = "has" /\ worker.row = r
                  [] h = "reader" -> reader.at = "has" /\ reader.row = r
                  [] h = "closer" -> closer.at = "has" /\ closer.row = r}

\* A row that was accepted is in one place only, whoever takes it from the
\* queue first, so it is written once; and when a reader's flush returns,
\* every row accepted before the read began has been dealt with: none is in
\* the queue or in flight (store.py:795).  A crash, whenever it comes, leaves
\* nothing for a later reader to wait for.
ReaderComplete ==
  /\ \A r \in Rows : /\ InQueue(r) = (IF rows[r] = "queued" THEN 1 ELSE 0)
                     /\ Cardinality(HeldBy(r)) = (IF rows[r] = "held" THEN 1 ELSE 0)
  /\ reader.at = "seen" => \A r \in reader.before : rows[r] \in {"saved", "failed", "dropped", "lost"}

\* However the writes of several processes overtake one another, and whoever
\* dies between the read and the write, the record that wins has counters that
\* fit together, and it claims no later review than one that took place.
RecordSound ==
  /\ record.accepted + record.rejected <= record.candidates
  /\ record.none <= record.samples
  /\ record.verified <= reviews

\* The evidence the gateway keeps, through races and crashes: a reader's flush
\* waits for all it began with (store.py:805), and a record's counters fit
\* together (recorder.py:111).
EvidenceSound == ReaderComplete /\ RecordSound

(* What the store's own words promise and it does not keep. *)

\* store.py:677: close drains the write-behind queue.
CloseDrains == \A r \in Rows : rows[r] # "dropped"

\* store.py:808: a reader waits for the rows in flight.  Those that close took
\* from the queue are never marked done, and are waited for all the same.
JoinReturns ==
  reader.at = "join" /\ unfinished > 0 =>
    queue # <<>> \/ worker.at = "has" \/ \E r \in Rows : rows[r] = "held"

\* recorder.py:57: live traffic never touches the revocation state.  A write-
\* back of a record fetched before the revocation undoes it.
ObservationsKeepRevocation ==
  [][\A p \in Processes : (copy[p] # NoCopy /\ record'.samples = copy[p].samples + 1)
       => record'.revoked = record.revoked]_recordVars
=============================================================================
