# Interop in TLA+

Interop (`src/agent_interop`) is an asyncio gateway between coding agents and
local model servers. A request is decoded from the agent's protocol, prepared
(history, context budget, tools), sent to a model through a ladder of
compatibility attempts, and its answer is extracted, repaired, checked and
encoded. This directory holds TLA+ models of the parts whose correctness
depends on order, concurrency, failure or bounds, the TLC configurations that
check them on small instances, and proofs, checked by TLAPS, of what matters
most for every instance. Paths below are relative to `src/src/agent_interop`.

## 1. Inventory

One process, one event loop. A request is one asyncio task, and requests
interleave only where a task awaits. What they share is the admission
controller, the context store, the session, controller, qualification and
evidence stores, and caches. What one request owns is its execution record, its
`AttemptBudget`, its ref registry and its repair budget.

| Component | State | Operations | Hard behaviour | What makes it correct | Model |
|---|---|---|---|---|---|
| Inference admission, `admission.py` | per (backend, model): a semaphore, `queued`, `active`, `capacity`; per context: slot counts | `acquire`, `release_by_key`, `release_now`, `generation_slot`, `set_route_capacity` | grants racing timeouts and cancellations; nested slots; semaphore replaced at run time | no permit lost or forged, exact counters, cap kept, no lost wake-up, waiters served | Admission, SlotPool |
| Attempt budget, `execution_attempts/budget.py` | token totals, bytes, three attempt counters, generations by purpose, clock | `allow`, `allow_private_generation`, `reserve_generation`, `commit`, `commit_estimated`, `release` | estimate replaced by actuals; overruns; exactly-once reconciliation | an implementation of a ledger; overruns do not compound | AttemptBudget, TokenLedger |
| Generation seam, `generation_seam.py` | the open reservation | `prepare`, `dispatch`, `run_step`, `finalize_reservation` | failure on every step between reservation and answer | every exit reconciles once | GenerationSeam |
| Compatibility ladder, `execution_attempts/executor.py`, `planning/` | rung, replans | `execute` | retries inside retries | bounded, ends, keeps the tool choice | RequestExecution, Preparation |
| Private loop, `private_loop.py` | depth, pending internal calls | `run` | a model that never stops asking | bounded by depth and budget | RequestExecution, RequestRefs |
| Controlled attempt, `controller/` | turn counters, per session and per attempt | `execute`; `get`, `put`, `remove` of the session's record | two models alternating; attempts of one session overlapping; the record replaced or expired meanwhile | bounded; turns alternate; the client's choice restored | RequestExecution, ControllerSession |
| Tool transaction and repair, `transaction.py`, `repair/` | verdicts, repair budget; arguments under repair | `process_tool_batch`, hidden regeneration; resolve, recover, validate, mend | failures swallowed on purpose; one mending undoing another | verdicts respect batch policy and choice; values are kept, names unambiguous | RequestExecution, Repair |
| Context store, `context_store/store.py` | sessions, entries, pins, dedup index, byte counters | `store`, `get`, `search`, `pin_refs`, `unpin_refs`, `evict_expired` | eviction by one request of what another uses; hand-kept counters | exact index and counters, caps, pinned entries stay | ContextStore |
| Ref registry and internal tools, `context_store/registry.py`, `executor.py` | refs of a request | `register_all`, `register`, `close`, four tools | failure between pin and close; shared ids | registered refs live, pinned, and released at the end | RequestRefs |
| Stream engine, `stream_engine.py`, `streaming/` | coordinator flags, pending calls, reservation, slot, stream-safety cache | `run_send_stream`, accumulation, continued turn, batch | many exits; a consumer that stops early; early release of the slot | one terminal event, one reconciliation, nothing kept, a truthful stop reason | StreamEngine, ToolFragments |
| HTTP transport, `transport/` | retry counter, pool of connections; line and record buffers | `send`, streams, SSE and NDJSON decoders | timeout after the body was sent; chunks that break anywhere | no generation duplicated by a retry; every call ends; framing independent of chunks | Transport, Framing |
| Upstream and protocol codecs, `upstreams/`, `protocols/` | loop variables of a decoder; encoder state | `decode_stream_chunk`; `encode_stream_event`, trailer, failure | interleaved fragments; errors before and after the terminal | calls arrive as made; one honest terminal frame | UpstreamCodecs, StreamEncoders |
| Qualification, `qualification/` | records by model digest in memory, store and file; one lock per digest | `ensure`, probes, promotion, `qualify_route` | concurrent first requests; a tag repointed during probes; restart; another process | probes run once, evidence only of what was probed | Qualification |
| Evidence, `evidence/` | SQLite rows, write-behind queue, worker | enqueue, flush, close; observe, review, revoke | drain by reader, worker and closer; read-modify-write by two processes | a flush means written; counters fit together | EvidenceStore |
| Session loop detection, `session.py` | windows of signatures, flags, access order | `begin_request`, `record_*` | eviction of a session in the middle of a request | table and index agree; a flag is earned | LoopDetection |
| Readiness and runtime cache, `readiness/`, `backends/` | probe snapshot, TTL entries | health check, probe pass, get, put | checks waiting behind a pass; stale entries | one pass at a time; an answer from a fresh snapshot | Readiness, Qualification |
| Extraction, `extraction.py`, `parsing/` | masks and spans of one text | parsers, fallback strategies, merge with native calls | several parsers over one text | nothing read twice, nothing quoted trusted | Extraction |
| Tool surface, planning, projection, `tool_surface/`, `planning/`, `context_budget/`, `projection/` | the plan and invocation of a request | surface, ladder, adaptation passes, projection, replan | a replan of what other steps fixed before | no native tool leaks, what is offered is authorised, fits | Preparation |
| Model profiles, `model/` | index of loaded profiles | load three tiers, resolve, overlay evidence | broken and overriding files; order of the index | highest tier wins, unknown is not trusted | Profiles |
| HTTP server, `server/app.py`, `auth.py` | body buffer, answer | authenticate, read, decode, answer or stream | limits met in the middle of a body; failure in the middle of a stream | nothing kept past the limit; one honest end | Server |
| CLI, launcher, installer, replay, testing, MCP, plugin, configuration and data types | processes, files | I/O at the edge, declarations | none a model checker reaches | | not modelled |

Calls go one way: server → `Gateway.handle_request` → preparation (context
store, optional summary generation) → ladder → send path or controlled attempt →
seam → budget, admission, transport; answers come back through the private loop
and the tool transaction, each of which may start further generations through
the same seam. `PROJECT.json` lists the components with their status and, under
`hazards`, every place where this code is hard to test.

## 2. Modules

```
SlotPool  <-- implemented by --  Admission          <- MCAdmission, MCAdmissionShared
                                                    <- AdmissionProofs
TokenLedger <-- implemented by -- RequestExecution  <- MCRequest
                                    GenerationSeam  <- RequestProofs
                                      AttemptBudget
                                  RequestRefs       <- MCContextStore
                                    ContextStore    <- RefsProofs
                                  StreamEngine      <- MCStream
                                    ToolFragments   <- StreamProofs
Transport, Framing, UpstreamCodecs, StreamEncoders  <- MCWire
MCWire                                              <- WireProofs
EvidenceStore, Qualification, LoopDetection, ControllerSession, Server,
Readiness, Repair, Extraction, Profiles, Preparation
                                                    <- MCServices
EvidenceStore, Qualification                        <- EvidenceProofs
Repair, Extraction, Profiles, Preparation           <- ToolProofs
MCServices, EvidenceProofs, ToolProofs              <- ServicesProofs
```

An indented module is extended by the one above it. `map` in `PROJECT.json`
gives the source lines of every definition. MCWire and MCServices put together
components that share no state: a variable `part` says which of them is at work
in a behaviour, the others rest in one of their initial states. Their runs
therefore explore the sum of their parts, and nothing is lost by it.

**Admission** follows one key of the controller: the states of two keys are
disjoint. `value` and `waiters` are CPython's semaphore, and `pc` follows a caller
through `wait_for`, which in CPython 3.11 (the oldest version supported) runs
`semaphore.acquire()` in an inner task. From 3.12 on there is no inner task;
the same steps occur with `pending` and `won` passed through at once. A step ends
where the code suspends. The controller's own lock never spans a suspension
and adds no step. `depth` and `live` are the `generation_slot` bodies a task is
inside of and those whose slot has not been given back.

**SlotPool** is what admission promises: a set of holders, never more than the
cap, and a cap that is only lowered, on an idle route.

**AttemptBudget** has one operator per method. Token counts are pairs, bodies
are counted in whole rendered requests, and the deadline is a clock that may
expire at any time once the first check has started it. **GenerationSeam** adds one
generation: reserve, wait for a slot, send, reconcile. The ghosts `sent`, `lost` and
`stranded` record what reached the transport and what nobody reconciled.
**RequestExecution** is the request's task. `pc` is where it stands and `caller`
who waits for `_handle_request_send`, which the summary, a rung, the primary
and the controller all call. The models' answers are reduced to what the
gateway makes of them: internal calls, a withheld tool, candidates that are
accepted or rejected, text. Which rungs a plan has is any ladder of the
planner's shape. A controller's turn may be withheld a tool, too: the controlled
attempt then returns that as its answer, and the ladder exposes the tool and runs the
attempt once more from its first turn.

**TokenLedger** is what the accounting promises: one open estimate at a time,
opened inside the ceilings; what was sent is charged once; only what was not sent
is free. It also has a step in which an estimate is abandoned, which the code
takes on cancellation and on exceptions.

**ContextStore** has one operator per public method, each atomic under the
store's lock. A blob stands for the dedup key `(kind, tool_call_id, sha256)`, a
ref for the number of the `store()` that made it, and `last_accessed_at` for the
relation `older`, a strict order of the live entries. A `store()` ends in `Settle`,
which evicts what the three caps ask for, oldest first, and settles the counters
with what is gone. **RequestRefs** runs several requests over it: preparation stores, the
registry pins, the internal tools read, search and mint, the `finally` unpins.

**StreamEngine** is `handle_stream` with `run_send_stream`. The engine is an
async generator, so `outq` holds what it has yielded and no step of the engine is
enabled until the consumer has taken it: the code after a yield runs only when the
consumer asks for more. `Deliver` is that consumer; the server's stops at
`message_stop` and closes the generator, which then never resumes, another one
drains it. `claim` is the stop reason the backend's last frame gave, and
`StopReason` what the client is told once it is known what became of the calls; an
answer that was not streamed corrects the claim by a rule of its own
(`AssembledStop`). A continued turn that ends in text returns with no
`message_stop`. `Raise` is the exception that any awaited call may throw, `Disconnect`
the client that leaves. The ladder is RequestExecution's subject and answers here
in one step; of the ledger only the status of the one reservation is left. Two
streams of one serving tuple follow one another, because the second depends on
what the first left in the stream-safety cache. **ToolFragments** is the
accumulator of tool-call fragments.

**Transport** runs several calls of `UpstreamTransport.send` over httpx's pool; the
environment connects, answers, times out and breaks as it likes. **Framing** cuts a
body into chunks in every way and runs the SSE and NDJSON decoders over them; a
byte is only its role. **UpstreamCodecs** lets a backend make calls with pieces of
arguments in any order its protocol permits, and decodes them with each of the
four codecs; a piece carries the call and place it was made for, so that a
misplaced one shows. A body may end after any frame (`RunsOut`), which the engine takes
for a natural end and completes what calls there are. **StreamEncoders** feeds gateway
events to each of the three encoders, with every way a stream can end: `message_stop`,
an exception before or after it, a generator that just returns (`EndsSilently`).

**EvidenceStore** is the write-behind queue (its worker thread, a reader that flushes
and waits, `close`) and, apart from it, one compatibility record that several processes
read, merge and write back. The process may die at any time, and a merge between its
read and its write. Nothing in the package calls `install_write_behind`, so the queue
serves embedding programs and tests. A record of the time before counters is seeded from
rates taken to be whole numbers of its samples; rates averaged by an older version may
round to counters that do not fit, which is not modelled. **Qualification** keeps
records in memory, in the store and in the file, and a backend that may serve another
model under the tag between any two steps; no task is named like the operator's call or
like nobody. **LoopDetection** and **ControllerSession** are tables that overlapping
requests look up early and write late; a session expires together with all that were
used less recently, which is what the code's `time.time()` gives as long as the clock is
not set back. **Server** is the path of one HTTP request, **Readiness** the health
checks, whose snapshot is capped at an age past its time to live. **Repair**,
**Extraction**, **Profiles** and **Preparation** are algorithms, walked step by step
from every input the instance allows: values are their classes, texts are sequences of
tokens, schemas have two fields, sizes are small numbers. A generation of Preparation
that asks for a withheld tool is replanned with it, up to the route's selection rounds,
and the next rung starts again from the surface that was prepared; `wire.exposed` is
what a replan added. `ServicesSpec` in MCServices is their specification, one part at
work and ten at rest.

## 3. What TLC checks

| Run | Expect | Question |
|---|---|---|
| Admission | pass | Do permits, counters, wake-ups, the cap and service hold when grants race timeouts, cancellations and nested slots? |
| AdmissionShared | violation | Does the cap hold for tasks whose contexts are copies of a used one? |
| Request | pass | Whatever models, transport and clock do, and with a controlled attempt that is run again for a withheld tool: accounted once, bounded, ended, tool choice kept? |
| RequestPhantom | violation | Is a reservation never left dangling in a request that goes on? |
| RequestPurpose | violation | Does the worker count mean public generations? |
| ContextStore | pass | Do index, counters, caps and pins hold under concurrent requests with distinct ids? |
| StoreLeak | violation | Do pins never outlive their request? |
| StoreSharedId | violation | Are registered refs safe when two requests carry one id? |
| StoreUnregistered | violation | Is every ref a model is shown registered? |
| Stream | pass | Is a stream, whichever exit it takes and whoever consumes it, accounted for before its first closing event, ended by one terminal, rid of slot and refs, and truthful about why it stopped? |
| Wire | pass | Is an inference call never sent twice, and does every call end; do frames not depend on chunks; do streamed calls arrive and leave as they were made? |
| Services | pass | Do evidence, qualification, sessions, the front door, repair, extraction, profiles and preparation keep their promises, each under its own races and inputs? |

The properties of Services are conjunctions of the parts' own properties:
`EvidenceSound` (a reader sees what was accepted before it, unless the process died; a
record's counters fit together, which is not to say that no observation was lost),
`QualificationSound` (`StagedEvidence`, `ProbedOnce`), `SessionsHonest`
(`SessionsSound`, `TurnsAlternate`), `FrontDoorSound` (`BodyBounded`,
`AnsweredHonestly`, `ChecksSound`), `ToolOutputSound` (`ValuesKept`, `NamesOneTool`,
`ReadOnce`, `Trusted`, `Reported`), `PlanSound` (profiles and preparation).
`TurnsAlternate` speaks of the counters of one attempt and of a record's two counters:
turns that overlapping attempts lose of one another are lost in both, and nothing in the
code says how many a session may take. `PlanSound` asks that what is sent fits, except
of a generation to which a replan added a tool: nothing checks its size again. Every
property of a passing run has a mutant of the code, listed in `PROJECT.json`, that
breaks it.

**Disagreements.** The six violations are disagreements between the code and
its own comments; `findings` quotes both sides. In short: a shared slot dict lets
gathered tasks in an embedding program exceed the cap; a swallowed transport
exception leaves a phantom estimate; summaries and controller turns count as
worker; a failed `register_all` leaks pins; a reused request id (it can be the
client's header) unpins another request's refs; controller projections and history
searches show refs that nobody pinned.

Other statements of comments that the code does not keep are written down at the
end of their modules, under a heading that says so, and are listed in `findings`
without a run; TLC refutes each of them when it is added to the module's
configuration. The ones with most weight:

- `StreamEngine!OnlyDecidedCalls`: in native mode the calls of a continued turn
  reach the client without the batch decision; `RejectionRevokes`: the observation
  of a rejected batch comes after the `message_stop` at which the server stops
  listening; `RecordFinal`: two exits leave the record active; `UnlockedByWholeBatch`:
  a partly accepted batch unlocks direct streaming; `ToolUseReported`: accepted calls of
  an answer that came with the finish reason `length` are told as `max_tokens`.
- `EvidenceStore!JoinReturns`: `close` takes rows without `task_done`, so that a
  reader's flush that overlaps it waits for ever; `CloseDrains`: rows can be
  dropped; `ObservationsKeepRevocation`: a merge undoes a revocation.
- `UpstreamCodecs!AllCallsFaithful`: Ollama's calls in two messages of an answer are
  concatenated, and Responses gives no names; `MarkedComplete`: calls of a body that
  ends without a completion marker are completed as if it had one.
- `StreamEncoders!TerminalAlways`: a stream whose generator returns without
  `message_stop` leaves a Chat Completions client (and an Anthropic one) without a
  terminal frame; `OutputIndexesDistinct`: text and the first call share an
  `output_index`. `Server!ParseErrorsEncoded`: a body that is not UTF-8, or nests too
  deeply, is answered by a bare 500, as is a bearer token outside ASCII.
- `ControllerSession!NoPendingLost`: an overlapping attempt overwrites pending
  results. `Framing!LineBounded`: a line without end is not limited.
- `Preparation!PlanOnWire`, `WorkKept`, `QualificationKeepsFacts`: a replan (on a native
  rung), a later adaptation pass and a qualification each leave something behind that
  the request is then sent without.

At this commit `planning/__init__.py` imports a name its module does not define
and `gateway.py` passes `plan()` arguments its signature lacks, so the package does
not import. The models follow the files as they are written, that call aside.

**Bounds.** Admission: 4 tasks, 2 permits, 2 queue places, 2 nested slots. This is
the least with a queue that fills, two waiters to pass a wake-up between, and a
nested slot beside them; the capacity can still drop to 1. About 49,000 states.

Request: two worker rungs and a controller; loop, repair and replan bounds of 1, one
primary turn and two of the controller; ceilings that admit about five generations,
which is as many as it takes a controlled attempt run once too often to pass
`GenerationsBounded`, a formula in these constants; a backend that reports less or more
than was estimated, so that ceilings are hit, overrun and missed. More turns are left to
the proofs. About 1,230,000 states.

ContextStore: 4 requests in 3 sessions with room for 2 (so that whole
sessions are evicted), two requests in one session; caps of 2 bytes per
session and in all (the tightest the configuration accepts) with blobs of 1, 1, 2
and 4 bytes, so that both passes of eviction, the refused entry and the entry
evicted at once occur; 3 refs ever made, 2 refs per request (`MaxRefs` and
`MaxProjected` bound the model, not the code). Symmetry among twins is used only
there, where no liveness is checked. About 130,000 states.

Stream: two streams one after the other, each of up to four frames and decoded
events, which is enough for a fragment, its completion, text and an error in one
stream; two fragment keys with one call at a time and one byte of arguments, and
one tolerated malformed frame, so that each limit is met and passed. About
5,190,000 states, since each frame may claim any stop reason.

Wire: two senders over one connection with two retries; bodies of five bytes with
limits of 3 on a line, 1 on data and 4 in all (a record, its blank line and one byte
past a limit; a line end of two bytes broken between chunks); up to three calls of
two pieces; four gateway events before the end. About 50,000 states.

Services: a queue of two with three events; two processes over one record of up to
two samples; one tag served with two templates of a digest, two requests and an
operator's call, one restart or foreign write; two session keys of which one fits,
two clients, four repairs (three flag a session); two overlapping attempts with
turn limits of 3; bodies of three bytes in chunks of up to two; two checks of one
route. Repair, extraction, profiles and preparation take their inputs from the
definitions of MCServices: every spelling of a tool name and four schemas; every
text of up to two tokens and every object between every pair of tags, with
surroundings; up to two profile files in a tier; every combination of policy,
serving and request listed there, with one or two selection rounds. About 606,000
states.

`CHECK_DEADLOCK FALSE` appears in the store's configurations and in that of the
services: when all requests are over, or an algorithm has its result, those
models stop.

**Fairness.** `Admission!FairSpec`: weak fairness of every step the event loop
schedules by itself, and of the end of a slot's body, because the transport has
deadlines; strong fairness of the outermost exit, because a request nests only a
bounded number of generations (what `GenerationsBounded` and `RequestEnds`
show). Nothing is assumed of the queue timeout, which only helps.
`RequestExecution!FairSpec`: weak fairness of the task's own steps, since
admission and transport both time out. Neither the client's departure nor the
deadline is promised: the request ends without them. `MCWire!WireSpec`: weak
fairness of each sender's next step, whichever it is, because httpx's connect, pool,
write and read timeouts and the finite backoff end every wait; that the backend
ever answers is not assumed.

## 4. What is proved

Eight modules hold theorems; `theorems` in `PROJECT.json` lists the results. All of
them hold for every value of the constants that satisfies the named assumptions,
which are the ranges the code's configuration validates or the shape of the
instance's sets. The method is the same throughout: an inductive invariant, a lemma
per action that it is kept, and the property as a consequence.

**`AdmissionProofs`**, for any set of tasks, cap, queue length and nesting depth,
under `PrivateContexts` (each task has a context of its own, as the server's
request tasks do; the AdmissionShared run shows it is needed):

- `AdmissionTypeOK`, `PermitsConserved`, `CountersAreExact`, `CapIsRespected`
- `NoWakeUpIsLost`: a free permit beside a waiter is about to be handed on
- `AdmissionImplementsPool`: `Spec` implements `SlotPool`

Permit conservation alone is not inductive: whether a release frees a permit
depends on the slot dict, not on who holds one. `IInv` adds that a
context's count is the number of its task's live levels (`SlotCount`), that those
are levels it is inside of (`Levels`), that a task in the queue holds nothing
(`AskerHoldsNothing`), and what the counters are (`Counts`). For the lost wake-up,
`Deque` says what the positions of the semaphore's deque hold: every task lined up
is in it once, and no other is. The refinement maps an outermost `AcquireFast` or
`AcquireWon` to `Enter`, an outermost release to `Leave`, a capacity swap to
`Tighten` and everything else to a stutter; that there is room to enter comes
from conservation.

**`RequestProofs`**, for any ladder of the planner's shape, any ceilings, loop, turn
and repair bounds, and whatever usage a backend reports: all safety properties of
the Request run.

- `RequestKeepsLedger`: the accounting implements `TokenLedger`, step by step
- `GenerationsAreCounted`: what was sent is charged once, under its purpose
- `OverrunIsBounded`: a ceiling is overrun by one answer's error, never by two
- `RequestTypeCorrect`, `SuccessKeepsToolChoice`
- `RequestCostIsBounded`: the formula for a request's generations, in which a controlled
  attempt counts twice once a withheld tool has been replanned

The accounting is separated from the control. `SeamMove` is what any action of a
request does to budget and seam, and every action is shown to be such a move or to
leave both alone; `SeamInv` (a reservation was made inside the ceilings, what is open
is one estimate) is then kept by moves, whoever makes them, and the refinement is a
case split over moves. The control has `ControlInv`: who may be waiting for whom at
each `pc` (`PlaceInv`), that the wire keeps the client's choice except for a
controller's primary (`ChoiceInv`), how turns alternate (`TurnsInv`). The bound on
generations is `CountsInv`: for each purpose, what was begun is covered by an
allowance that grows with the rungs, turns and depth already used, and a second
allowance of turns once the controlled attempt is run again (`Rerun`). It is what is
left of the allowance that makes it inductive, not the total.

**`RefsProofs`**, for any requests, sessions, blobs, sizes and caps: all safety
properties of the ContextStore run.

- `IndexIsExact`: index and live entries correspond one to one
- `PinnedEntriesStay`: no step drops or replaces a pinned entry
- `CountersAreExact`: the counter of each bucket, and the total, are what the live
  entries weigh
- `CapsHold`: all three caps, after every step
- `RegisteredRefsSurvive`, under `DistinctIds` (no two requests share an id; the
  StoreSharedId run shows it is needed): what a running request has registered is live,
  in its session and pinned by it
- `RefsTypeCorrect`

The invariant adds that refs are fresh (`Fresh`) and entries well formed
(`Entries`). Of each store operation the lemmas state that what it drops is
unpinned (`PinsKept`). `Booked` is the bookkeeping: counters and weights agree, which
needs sums over finite sets; they are unfolded from the library's own recursive
function, whose value on every set is fixed by an argument by smallest
counterexample, since an induction theorem cannot be instantiated here. `CapsHold`
rests on `EvictionLeaves`: taking the oldest evictable entries until the excess is
covered leaves no more than the cap, because the newcomer itself can always go.

**`StreamProofs`**, for any limits of the accumulator, any number of tolerated frames
and streams of any length: all six invariants of the Stream run, `AccountedBeforeStop`,
`OneStopPerStream`, `StreamsReconcileHonestly`, `StreamsReturnResources`,
`StopsSpeakTrue` and `StreamTypeCorrect`. `StopsSpeakTrue` says that a turn that handed
out calls never ends as end_turn, and on the direct path as tool_call whatever the
backend's last frame claimed; and that one without calls ends as tool_call only on such
a claim, which an Anthropic backend can make. None of them is inductive: what a consumer
may still be told is in `outq`, and what an exit owes depends on how far the task has
come. `Told` is what the consumer took together with what waits for it, which a delivery
leaves alone. `Terminal` says that a stop is the last event there is and that once one
is offered the record is final and nothing follows; `Holds` says, place by place,
whether the transport was opened, the reservation is open and the slot is free;
`Accounts` ties the record to the reservation, and the stop reason to the calls and the
claim. Four lemmas cover the kinds of step (`SilentStep`, `OfferStep`, `ErrorStep`,
`LastStep`), and each action is shown to be of one kind; the consumer's step, the
disconnect and the next request have proofs of their own. For the types, `Ranked` shows
that calls handed over by rank are the open ones, one each, and `FragmentInv` that their
number and arguments stay in bounds.

**`WireProofs`**, the two ends of the wire. For any senders, retries and size of the
pool: `InferenceSentOnce`, `PoolIsRespected`, `TransportTypeOK`. The invariant says
for each sender what its place implies: whether it holds a connection, how many of
its attempts reached the backend, and that a request that may not be repeated is past
its only chance once it did. For any number of gateway events, each of the three
protocols and every way to end:

- `StreamsEndHonestly`: after a `message_stop`, an error or an exception one terminal
  frame, no content after it, no success after an error; after a generator that just
  returned none, and at most the `[DONE]` of Responses
- `StreamsAssemble`: blocks, tool indexes and sequence numbers fit together
- `EncoderTypeCorrect`

A stream's frames are described apart from the encoder: `Unended` (no terminal, and
every error is known to the encoder), `Ended` (exactly one, honest about the errors
before it) and `Blocks`, `Once`, `Rising` (what may be put together). `Made` ties them
to the encoder's fields: the open text block is the one block that is started and not
stopped, and every number used is below the next. Lemmas say what one more frame does
to each; an event is one to three frames, and the exception that ends a stream is an
error, a terminal and a trailer one after the other.

Of the bytes, for a body and chunks of any length: `ChunksLeaveNoTrace`, that while a
stream is open its decoder is the one that was fed the same bytes one at a time, and
that a stream that ends well is flushed from there. Feeding is a fold over a sequence of
any length, of which the provers know only the definition: `AllFold` says that there is
a function that computes it, by the smallest length without one, `FedByByte` reads off
it the decoder after each byte, and `FedInTwo` follows, that feeding two chunks is
feeding them joined. On this rests `BodiesAreRead`, for any limits too: what the engine
gets are the frames of the body in their order, none made of a part of one, and the
limits refuse a body for what it is and not for how it was cut. Framing tells the
meaning of a body by the places of its line ends, with sets and cardinalities, and so
without the decoder's folds. The proof goes byte by byte: `ReadTo` says that after p
bytes the decoder holds what the last line end left it (`Reading`: the data lines of the
open record, what they weigh, a frame for each blank line so far, no line refused;
`JSONReading` likewise) and the part of a line after it, or has failed on a body that is
too large. `SSELineRead` and `JSONLineRead` are the step of a line end, `SSEFlushed` and
`JSONFlushed` that of the end of the body. A limit met early is met rightly because the
line that is too long already (`LongLine`) only gets longer. `WireTypeCorrect` gives the
types of all four parts: what one byte keeps of a decoder (`ByteKeeps`) and one event of
an accumulator (`EventKeeps`), a whole chunk and a whole frame keep (`FoldKeeps`), so
that a record never passes its limit and the calls being assembled are numbered within
those the backend made.

Here too a proof failed for a reason: four definitions (`SSELine`, `Byte`,
`AnthropicReason`, `ChatReason`) were a CASE whose guards overlap. TLC takes the first that
holds, as the code's `if` and `elif` do, but the language leaves the choice open, and
with it a record could pass its limit. Their guards now exclude one another.

On the backend's side, for any number of calls in any number of argument pieces:
`CallsArriveAsMade`. While frames are read (`CodecInv`), a Chat Completions turn has all
its calls open, call k at index k - 1 with the pieces given so far (`ChatInv`); an
Anthropic turn has closed the calls of the blocks that stopped (`BetweenBlocks`) and the
block it is in is the last call (`InBlock`). A frame carries at most two events, so its
fold unfolds without induction (`AbsorbedOne`, `AbsorbedTwo`); `CloseOne` and
`CloseMany` say that closing by index puts the calls in the order they were made. The
calls are as whole as what has come: a body that ends early closes them with the pieces
there are, in the code as in the model. Ollama's chunks carry any number of calls and
its calls do get mixed up (`AllCallsFaithful`), so only the two protocols of the
property are followed.

**`EvidenceProofs`**, **`ServicesProofs`**, for any events, processes, worlds, tasks,
sessions, clients and limits:

- `EvidenceIsHonest`: `QueueInv` gives every event one place (queue, or one hand) and
  the unfinished count at least the number under way, so that a join that returns has
  waited for all that came before; `RecordInv` says that the counters fit in the record
  and in every copy a process has read. A process that dies takes its rows in memory and
  its copy with it, and the same invariants hold of what is left
- `QualificationIsSound`: `Locked` (the task that probes holds its digest's lock) and
  `RanIsKnown` (a probe that ran for good is in memory or in the store, unless evidence
  was lost) make a second probe impossible; `Staged` follows each record through its
  merges
- `SessionsAreHonest`: `LoopInv` (table, access order and the earned signatures),
  `ControllerInv` (an attempt waits for its controller only after a turn of its worker)
- `FrontDoorIsSound`: `ServerInv`, `ReadinessInv` (one check holds the lock; a snapshot
  that is answered from was young during the check)

**`ToolProofs`** holds the lemmas of the four algorithms, `ServicesProofs` their two
theorems:

- `ToolOutputIsSound`, for any texts, plans, tools, schemas, aliases and rules. Of the
  repair, `NameInv` says that the tool a name leads to is the only declared one it fits,
  and `ArgumentInv` that every argument still says what the model said, under a name its
  aliases lead to, through any number of mendings, and that what is accepted has no
  issue left. Of the extraction, `FindingClean` says that the calls found so far have a
  place each, disjoint from one another and from the text that is left, and outside
  fences unless the whole message is the call; `Trusted` and `Reported` that no call is
  believed further than the plan and its nonce allow and that none of the backend's own
  is lost or doubled. Each parser has a lemma (`...Good`) that what it finds in such a
  text is such a finding. Parsers scan with folds: `Steps`, `StepsTyped` and
  `StepsIndexed` unfold a fold, and that a scan keeps its places in rising order is
  proved by smallest counterexample.
- `PlanIsSound`, for any profile files, records, tools, costs, routes and models.
  `ProfileInv` says that the index holds, of each id among the files read so far, the
  first usable file, in order, and that an operator's file is heard or stops the load.
  `PrepInv` says stage by stage what is settled: the content that is kept
  (`ContentKept`), the plan (`PlanKept`), what is offered (`OfferKept`), from which no
  native tool leaks and all that is offered is authorised and named, through any number
  of replans.

The assumptions of these four parts (`RepairAssumption`, `ExtractionAssumption`,
`ProfilesAssumption`, `PreparationAssumption`) say no more than that texts, lists of
files and lists of patterns are sequences, that tools and fields are finitely many, that
a pack maps a name to one tool, that a profile's strategies name registered parsers (its
file is validated for it), that a call reported by the backend has no place in the text,
and that the gateway's private tool names are reserved.

`ServicesTypeCorrect` gives the types of all of them. The invariants above say most of
it; what they leave open are sizes, each kept by a small invariant of its own: the
queue of events (`QueueFits`), the samples of a record in the hands of any process
(`SamplesFit`), the stages and templates of what is known of a model (`QualFits`), the
repairs and signatures of a session (`LoopFits`), and the index, which has no more
entries than files were read (`IndexFits`).

Each of the seven is a theorem of `ServicesSpec`. A lemma (`OneAtWork`) shows that a step
of the services is a step of one part or leaves it alone, so that every part's
invariant is proved from its own actions.

A proof that failed showed that a statement of `Profiles` was wrong: two files of one id
in one tier do not always stop the load, as the loader's comment says
(`model/profiles_v2.py:496`). When a higher tier has the id, both are passed over.
`BadOverrideStops` now says what does hold, and the comment's own claim is
`DuplicatesStop` among the findings.

**Only model-checked.** Liveness: `WaiterServed`, `RequestEnds` and `CallsEnd` need
fairness and ENABLED, which are beyond the provers.

## 5. Plan

Proofs: every invariant and action property of the passing runs is proved. Models
still missing: history reconciliation and the rendering of histories to text, as
functions on message lists; the repair of one call composed with the batch it belongs
to; validation of internal arguments; the translation of whole requests by the codecs.

## 6. Not modelled

Configuration and data types (`config.py`, `abi.py`, `types.py`): declarations and
parsing, no state that changes. CLI, launcher, installer, plugin, MCP, agents: I/O
and process management at the edge. Replay and conformance tooling. Of the server:
the inspection endpoints and the lifespan. Of evidence: SQL, migrations, reports,
calibration and diagnostics. Of the codecs: the field-by-field translation of whole
requests and answers. `history/reconcile.py` and the rendering of histories. Of
repair: the normalisation of file paths. Of the tool surface: lexical scores, which
are constants here. Token estimation and metering: sizes are given numbers.

In the modelled parts: which content is compacted; validation of internal
arguments; named tool choice, folded into required except in Extraction and
Preparation; `clear_session`, `pin_ref`, `unpin_ref` and `_evict_oldest_session` of
the store and `record_actual_usage` of the budget, which have no caller in the
package; automatic selection of a native mode, since nothing sets
`automatic_selection` on a behaviour (`selects` is FALSE in the instance).
`PROJECT.json` gives the reason for each component.

## 7. Running

`tlc -workers 2 -config MCAdmission.cfg MCAdmission` and likewise for `MCStream`,
`MCWire`, `MCServices` and the other configurations (those of the request use module
`MCRequest`, those of the store `MCContextStore`); `tlapm AdmissionProofs.tla`, and
`RequestProofs`, `RefsProofs`, `StreamProofs`, `WireProofs`, `EvidenceProofs`,
`ToolProofs`, `ServicesProofs` likewise. The longest runs, Stream, Request and
Services, take two or three minutes each; the longest proofs, ToolProofs and
WireProofs, about ten minutes each.
