--------------------------- MODULE ServicesProofs ---------------------------
(***************************************************************************)
(* Proofs about the services around a request.  Each service has an        *)
(* inductive invariant of its own, kept by its own steps; a behaviour of   *)
(* all of them takes a step of one and leaves the others alone.            *)
(***************************************************************************)
EXTENDS MCServices, EvidenceProofs, ToolProofs, FiniteSetTheorems, SequenceTheorems, TLAPS

-----------------------------------------------------------------------------
(* Controller sessions. *)

\* An attempt waits for its controller only when a turn of its worker was
\* within the limit.
ControllerInv ==
  /\ ControllerTypeOK
  /\ TurnsAlternate
  /\ \A a \in Attempts : attempts[a].at = "controller" => attempts[a].controller < MaxTurns

LEMMA ControllerInvInit == ControllerInit => ControllerInv
<1> SUFFICES ASSUME ControllerInit PROVE ControllerInv
  OBVIOUS
<1>1. 0 \in 0..MaxTurns
  BY ControllerAssumption
<1>2. NoEntry \in Entries
  BY <1>1 DEF NoEntry, Entries
<1>3. ControllerTypeOK
  BY <1>1, <1>2 DEF ControllerInit, ControllerTypeOK, Waiting
<1>4. TurnsAlternate
  BY DEF ControllerInit, TurnsAlternate, NoEntry, Waiting
<1> QED
  BY <1>3, <1>4 DEF ControllerInit, ControllerInv, Waiting

\* Every attempt but one stays as it is.
LEMMA OneAttempt ==
  ASSUME ControllerInv, NEW a \in Attempts, NEW new,
         new \in [at : {"idle", "worker", "controller"}, primary : 0..MaxTurns,
                  controller : 0..MaxTurns, saw : Entries],
         new.primary = new.controller + (IF new.at = "controller" THEN 1 ELSE 0),
         new.at = "controller" => new.controller < MaxTurns,
         attempts' = [attempts EXCEPT ![a] = new],
         entry' \in Entries, entry'.primary = entry'.controller,
         entry' # NoEntry => entry'.primary >= 1,
         lost' \in BOOLEAN
  PROVE  ControllerInv'
<1>1. ControllerTypeOK'
  BY DEF ControllerInv, ControllerTypeOK
<1>2. \A b \in Attempts : attempts'[b] = IF b = a THEN new ELSE attempts[b]
  BY DEF ControllerInv, ControllerTypeOK
<1>3. TurnsAlternate'
  BY <1>2 DEF ControllerInv, TurnsAlternate
<1> QED
  BY <1>1, <1>2, <1>3 DEF ControllerInv

LEMMA ControllerInvStep == ControllerInv /\ [ControllerNext]_controllerVars => ControllerInv'
<1> SUFFICES ASSUME ControllerInv, [ControllerNext]_controllerVars PROVE ControllerInv'
  OBVIOUS
<1> USE ControllerAssumption
<1>1. /\ NoEntry \in Entries
      /\ NoEntry.primary = NoEntry.controller
  BY DEF NoEntry, Entries
<1>2. /\ Waiting \in [at : {"idle", "worker", "controller"}, primary : 0..MaxTurns,
                      controller : 0..MaxTurns, saw : Entries]
      /\ Waiting.primary = Waiting.controller + (IF Waiting.at = "controller" THEN 1 ELSE 0)
      /\ Waiting.at # "controller"
  BY <1>1 DEF Waiting
<1>3. /\ entry \in Entries /\ entry.primary \in 0..MaxTurns /\ entry.controller \in 0..MaxTurns
      /\ entry.primary = entry.controller
      /\ entry # NoEntry => entry.primary >= 1
      /\ lost \in BOOLEAN
  BY DEF ControllerInv, ControllerTypeOK, TurnsAlternate, Entries
<1>4. CASE UNCHANGED controllerVars
  BY <1>4 DEF controllerVars, ControllerInv, ControllerTypeOK, TurnsAlternate
<1>5. CASE Forget
  BY <1>5, <1>1 DEF Forget, ControllerInv, ControllerTypeOK, TurnsAlternate
<1>6. ASSUME NEW a \in Attempts, Begin(a) \/ WorkerTurn(a) \/ ControllerTurn(a)
      PROVE  ControllerInv'
  <2> DEFINE p == attempts[a].primary
             n == attempts[a].controller
  <2>1. /\ attempts \in [Attempts -> [at : {"idle", "worker", "controller"}, primary : 0..MaxTurns,
                                      controller : 0..MaxTurns, saw : Entries]]
        /\ attempts[a] \in [at : {"idle", "worker", "controller"}, primary : 0..MaxTurns,
                            controller : 0..MaxTurns, saw : Entries]
        /\ p \in 0..MaxTurns /\ n \in 0..MaxTurns
        /\ p = n + (IF attempts[a].at = "controller" THEN 1 ELSE 0)
        /\ attempts[a].at = "controller" => n < MaxTurns
    BY DEF ControllerInv, ControllerTypeOK, TurnsAlternate
  <2>2. ASSUME UNCHANGED attempts, entry' \in {entry, NoEntry}, lost' \in BOOLEAN
        PROVE  ControllerInv'
    BY <2>2, <1>1, <1>3 DEF ControllerInv, ControllerTypeOK, TurnsAlternate
  <2>3. ASSUME Abandon(a), entry' \in {entry, NoEntry}, lost' \in BOOLEAN
        PROVE  ControllerInv'
    BY <2>3, <1>1, <1>2, <1>3, OneAttempt DEF Abandon
  <2>4. CASE Begin(a)
    <3>1. ASSUME NEW brought \in BOOLEAN, ~Spent(entry), UNCHANGED <<entry, lost>>,
                 attempts' = [attempts EXCEPT ![a] =
                    [at |-> "worker", primary |-> entry.primary,
                     controller |-> entry.controller, saw |-> entry]]
          PROVE  ControllerInv'
      <4> DEFINE new == [at |-> "worker", primary |-> entry.primary,
                         controller |-> entry.controller, saw |-> entry]
      <4>1. /\ new \in [at : {"idle", "worker", "controller"}, primary : 0..MaxTurns,
                        controller : 0..MaxTurns, saw : Entries]
            /\ new.primary = new.controller + (IF new.at = "controller" THEN 1 ELSE 0)
            /\ new.at # "controller"
        BY <1>3
      <4>2. /\ attempts' = [attempts EXCEPT ![a] = new]
            /\ entry' = entry /\ lost' \in BOOLEAN
        BY <3>1, <1>3
      <4> HIDE DEF new
      <4> QED
        BY <4>1, <4>2, <1>3, OneAttempt
    <3> QED
      BY <2>4, <3>1, <2>2, <1>3 DEF Begin
  <2>5. CASE WorkerTurn(a)
    <3>1. ASSUME attempts[a].at = "worker", ~(n >= MaxTurns \/ p >= MaxTurns), UNCHANGED <<entry, lost>>,
                 attempts' = [attempts EXCEPT ![a].at = "controller", ![a].primary = @ + 1]
          PROVE  ControllerInv'
      <4> DEFINE new == [attempts[a] EXCEPT !.at = "controller", !.primary = @ + 1]
      <4>1. /\ new \in [at : {"idle", "worker", "controller"}, primary : 0..MaxTurns,
                        controller : 0..MaxTurns, saw : Entries]
            /\ new.primary = new.controller + (IF new.at = "controller" THEN 1 ELSE 0)
            /\ new.controller < MaxTurns
        BY <3>1, <2>1
      <4>2. /\ attempts' = [attempts EXCEPT ![a] = new]
            /\ entry' = entry /\ lost' \in BOOLEAN
        BY <3>1, <1>3, <2>1
      <4> HIDE DEF new
      <4> QED
        BY <4>1, <4>2, <1>3, OneAttempt
    <3> QED
      BY <2>5, <3>1, <2>3, <1>3 DEF WorkerTurn
  <2>6. CASE ControllerTurn(a)
    <3>1. ASSUME attempts[a].at = "controller", UNCHANGED <<entry, lost>>,
                 attempts' = [attempts EXCEPT ![a].at = "worker", ![a].controller = n + 1]
          PROVE  ControllerInv'
      <4> DEFINE new == [attempts[a] EXCEPT !.at = "worker", !.controller = n + 1]
      <4>1. /\ new \in [at : {"idle", "worker", "controller"}, primary : 0..MaxTurns,
                        controller : 0..MaxTurns, saw : Entries]
            /\ new.primary = new.controller + (IF new.at = "controller" THEN 1 ELSE 0)
            /\ new.at # "controller"
        BY <3>1, <2>1
      <4>2. /\ attempts' = [attempts EXCEPT ![a] = new]
            /\ entry' = entry /\ lost' \in BOOLEAN
        BY <3>1, <1>3, <2>1
      <4> HIDE DEF new
      <4> QED
        BY <4>1, <4>2, <1>3, OneAttempt
    <3>2. ASSUME attempts[a].at = "controller", Abandon(a), lost' \in BOOLEAN, NEW pending \in BOOLEAN,
                 entry' = [primary |-> p, controller |-> n + 1, pending |-> pending]
          PROVE  ControllerInv'
      <4>1. /\ entry' \in Entries /\ entry'.primary = entry'.controller /\ entry'.primary >= 1
        BY <3>2, <2>1 DEF Entries
      <4> QED
        BY <4>1, <3>2, <1>2, OneAttempt DEF Abandon
    <3>3. CASE Abandon(a) /\ UNCHANGED <<entry, lost>>
      BY <3>3, <2>3, <1>3
    <3>4. CASE Abandon(a) /\ entry' = NoEntry /\ UNCHANGED lost
      BY <3>4, <2>3, <1>3
    <3> QED
      BY <2>6, <3>1, <3>2, <3>3, <3>4, <1>3 DEF ControllerTurn
  <2> QED
    BY <1>6, <2>4, <2>5, <2>6
<1> QED
  BY <1>4, <1>5, <1>6 DEF ControllerNext

-----------------------------------------------------------------------------
(* The HTTP server. *)

Told == {"start", "content", "error", "stop", "finish"}
Statuses == {0, 200, 400, 401, 403, 413, 422, 500, 502}
Begun == [status |-> 200, error |-> FALSE]

ServerTyped ==
  /\ mode \in Modes /\ request \in Incoming
  /\ phase \in {"arrived", "reading", "read", "parsed", "gateway", "stopping", "closing", "answered"}
  /\ kept \in Nat /\ answer \in [status : Statuses, error : BOOLEAN]
  /\ events \in Seq(Told)

Authentic ==
  /\ mode = "none_loopback" => request.loopback
  /\ mode # "none_loopback" => mode # "misspelt" /\ request.token = "right"

\* A stream under way: opened first and once, its end still to come.
Opened(es) ==
  /\ Len(es) >= 1 /\ es[1] = "start"
  /\ \A i \in DOMAIN es : es[i] # "finish" /\ (es[i] = "start" => i = 1)

\* Only what was authenticated is read; nothing is said before the gateway is
\* called, then only a stream's events, from its opener on.
ServerInv ==
  /\ ServerTyped
  /\ BodyBounded /\ AnsweredHonestly
  /\ phase = "arrived" => kept = 0
  /\ phase \notin {"arrived", "answered"} => Authentic
  /\ phase \in {"arrived", "reading", "read", "parsed"} => events = <<>> /\ answer = NoAnswer
  /\ phase = "gateway" /\ ~request.streams => events = <<>> /\ answer = NoAnswer
  /\ phase \in {"stopping", "closing"} => request.streams
  /\ (phase \in {"gateway", "stopping", "closing"} /\ request.streams) => answer = Begun /\ Opened(events)

LEMMA ServerInvInit == ServerInit => ServerInv
<1> SUFFICES ASSUME ServerInit PROVE ServerInv
  OBVIOUS
<1>1. ServerTyped
  BY DEF ServerInit, ServerTyped, NoAnswer, Statuses
<1>2. BodyBounded
  BY ServerAssumption DEF ServerInit, BodyBounded
<1> QED
  BY <1>1, <1>2 DEF ServerInit, ServerInv, AnsweredHonestly

\* A concatenation, piece by piece.
LEMMA Pieces ==
  ASSUME NEW S, NEW a \in Seq(S), NEW b \in Seq(S)
  PROVE  /\ a \o b \in Seq(S) /\ Len(a \o b) = Len(a) + Len(b)
         /\ \A i \in 1..Len(a) : (a \o b)[i] = a[i]
         /\ \A i \in 1..Len(b) : (a \o b)[Len(a) + i] = b[i]
<1>1. a \o b \in Seq(S) /\ Len(a \o b) = Len(a) + Len(b) /\ Len(a) \in Nat /\ Len(b) \in Nat
  OBVIOUS
<1>2. ASSUME NEW i \in 1..Len(a) PROVE (a \o b)[i] = a[i]
  BY <1>1
<1>3. ASSUME NEW i \in 1..Len(b) PROVE (a \o b)[Len(a) + i] = b[i]
  <2>1. Len(a) + i \in 1..(Len(a) + Len(b)) /\ Len(a) + i > Len(a)
    BY <1>1
  <2>2. (a \o b)[Len(a) + i] = b[Len(a) + i - Len(a)]
    BY <2>1
  <2>3. Len(a) + i - Len(a) = i
    BY <1>1
  <2> QED
    BY <2>2, <2>3
<1> QED
  BY <1>1, <1>2, <1>3

\* What an encoder is given when it fails.
LEMMA FailureTells ==
  ASSUME NEW es \in Seq(Told)
  PROVE  /\ Failure(es) \in Seq(Told)
         /\ Len(Failure(es)) = Len(es) + 3
         /\ \A i \in 1..Len(es) : Failure(es)[i] = es[i]
         /\ Failure(es)[Len(es) + 1] = "error"
         /\ Failure(es)[Len(es) + 2] = "stop"
         /\ Failure(es)[Len(es) + 3] = "finish"
<1> DEFINE tail == <<"error", "stop", "finish">>
<1>1. /\ tail \in Seq(Told) /\ Len(tail) = 3
      /\ tail[1] = "error" /\ tail[2] = "stop" /\ tail[3] = "finish"
  BY DEF Told
<1>2. Failure(es) = es \o tail
  BY DEF Failure
<1> HIDE DEF tail
<1>3. /\ es \o tail \in Seq(Told) /\ Len(es \o tail) = Len(es) + 3
      /\ \A i \in 1..Len(es) : (es \o tail)[i] = es[i]
      /\ \A j \in 1..3 : (es \o tail)[Len(es) + j] = tail[j]
  <2>1. tail \in Seq(Told)
    BY <1>1
  <2>2. /\ es \o tail \in Seq(Told) /\ Len(es \o tail) = Len(es) + Len(tail)
        /\ \A i \in 1..Len(es) : (es \o tail)[i] = es[i]
        /\ \A j \in 1..Len(tail) : (es \o tail)[Len(es) + j] = tail[j]
    BY <2>1, Pieces
  <2> QED
    BY <2>2, <1>1, Zenon
<1> QED
  BY <1>1, <1>2, <1>3

\* A stream that fails ends with an error and its end, and keeps its opener.
LEMMA FailureIsHonest ==
  ASSUME NEW es \in Seq(Told), es = <<>> \/ Opened(es), NEW f, f = Failure(es)
  PROVE  /\ f \in Seq(Told) /\ f # <<>> /\ f[Len(f)] = "finish"
         /\ \A i \in DOMAIN f : (f[i] = "finish" => i = Len(f)) /\ (f[i] = "start" => i = 1)
         /\ \E i \in DOMAIN f : f[i] = "error"
<1>1. /\ f \in Seq(Told) /\ Len(f) = Len(es) + 3 /\ Len(es) \in Nat
      /\ \A i \in 1..Len(es) : f[i] = es[i]
      /\ f[Len(es) + 1] = "error" /\ f[Len(es) + 2] = "stop" /\ f[Len(es) + 3] = "finish"
  <2>1. Len(es) \in Nat
    OBVIOUS
  <2> QED
    BY <2>1, FailureTells
<1>2. /\ Len(f) \in Nat /\ DOMAIN f = 1..Len(f) /\ DOMAIN es = 1..Len(es)
  BY <1>1
<1>3. \A i \in DOMAIN es : es[i] # "finish" /\ (es[i] = "start" => i = 1)
  BY <1>2 DEF Opened
<1>4. ASSUME NEW i \in DOMAIN f
      PROVE  (f[i] = "finish" => i = Len(f)) /\ (f[i] = "start" => i = 1)
  <2>1. CASE i <= Len(es)
    <3>1. i \in DOMAIN es /\ f[i] = es[i]
      BY <2>1, <1>1, <1>2
    <3> QED
      BY <3>1, <1>3
  <2>2. CASE i > Len(es)
    <3>1. i = Len(es) + 1 \/ i = Len(es) + 2 \/ i = Len(es) + 3
      BY <2>2, <1>1, <1>2
    <3> QED
      BY <3>1, <1>1
  <2> QED
    BY <2>1, <2>2, <1>1, <1>2
<1>5. f # <<>> /\ f[Len(f)] = "finish"
  BY <1>1, <1>2
<1>6. Len(es) + 1 \in DOMAIN f
  BY <1>1, <1>2
<1> QED
  BY <1>1, <1>4, <1>5, <1>6

\* An answer to a client whose body is what it was.
LEMMA ClosesWith ==
  ASSUME ServerInv, phase' = "answered", UNCHANGED <<mode, request, kept>>,
         answer' \in [status : Statuses, error : BOOLEAN], events' \in Seq(Told),
         AnsweredHonestly'
  PROVE  ServerInv'
<1>1. ServerTyped'
  BY DEF ServerInv, ServerTyped
<1>2. BodyBounded'
  BY DEF ServerInv, BodyBounded
<1> QED
  BY <1>1, <1>2 DEF ServerInv

\* An answer that is no stream.
LEMMA Responds ==
  ASSUME ServerInv, NEW status \in Statuses \ {0}, Respond(status), events = <<>>,
         UNCHANGED <<mode, request, kept, events>>
  PROVE  ServerInv'
<1>1. answer' = [status |-> status, error |-> status >= 400] /\ phase' = "answered" /\ events' = <<>>
  BY DEF Respond
<1>2. answer' \in [status : Statuses, error : BOOLEAN] /\ events' \in Seq(Told)
  BY <1>1
<1>3. AnsweredHonestly'
  BY <1>1 DEF AnsweredHonestly
<1> QED
  BY <1>1, <1>2, <1>3, ClosesWith

\* A body that cannot be used.
LEMMA BodyRefused ==
  ASSUME ServerInv, NEW status \in {400, 413, 422}, NEW streams \in BOOLEAN, ParseError(status, streams),
         phase \in {"reading", "read", "parsed"}, UNCHANGED <<mode, request, kept>>
  PROVE  ServerInv'
<1>1. /\ phase' = "answered" /\ events = <<>>
      /\ answer' = [status |-> IF streams THEN 200 ELSE status, error |-> TRUE]
      /\ events' = IF streams THEN Failure(<<>>) ELSE <<>>
  BY DEF ParseError, ServerInv
<1>2. answer' \in [status : Statuses, error : BOOLEAN] /\ answer'.status # 0 /\ answer'.error = TRUE
  BY <1>1 DEF Statuses
<1>3. CASE streams
  <2> DEFINE es == <<>>
  <2>1. es \in Seq(Told) /\ es = <<>> /\ events' = Failure(es)
    BY <1>1, <1>3
  <2> HIDE DEF es
  <2>2. /\ events' \in Seq(Told) /\ events' # <<>> /\ events'[Len(events')] = "finish"
        /\ \A i \in DOMAIN events' : (events'[i] = "finish" => i = Len(events')) /\ (events'[i] = "start" => i = 1)
        /\ \E i \in DOMAIN events' : events'[i] = "error"
    <3>1. ASSUME NEW f, f = Failure(es)
          PROVE  /\ f \in Seq(Told) /\ f # <<>> /\ f[Len(f)] = "finish"
                 /\ \A i \in DOMAIN f : (f[i] = "finish" => i = Len(f)) /\ (f[i] = "start" => i = 1)
                 /\ \E i \in DOMAIN f : f[i] = "error"
      <4>1. es = <<>> \/ Opened(es)
        BY <2>1
      <4>2. es \in Seq(Told)
        BY <2>1
      <4> QED
        BY <4>1, <4>2, <3>1, FailureIsHonest
    <3> QED
      BY <3>1, <2>1
  <2>3. AnsweredHonestly'
    BY <2>2, <1>2 DEF AnsweredHonestly
  <2> QED
    BY <1>1, <1>2, <2>2, <2>3, ClosesWith
<1>4. CASE ~streams
  <2>1. events' = <<>> /\ answer'.status >= 400 /\ events' \in Seq(Told)
    BY <1>1, <1>4
  <2>2. AnsweredHonestly'
    BY <2>1, <1>2 DEF AnsweredHonestly
  <2> QED
    BY <1>1, <1>2, <2>1, <2>2, ClosesWith
<1> QED
  BY <1>3, <1>4

\* An opened stream goes on, and ends.
LEMMA StreamGoesOn ==
  ASSUME NEW es \in Seq(Told), Opened(es), NEW e \in Told
  PROVE  LET more == Append(es, e) IN
         /\ more \in Seq(Told) /\ Len(more) = Len(es) + 1 /\ DOMAIN more = 1..Len(more)
         /\ more[Len(more)] = e /\ more[1] = "start"
         /\ \A i \in DOMAIN es : i \in DOMAIN more /\ more[i] = es[i]
         /\ \A i \in DOMAIN more : i \in DOMAIN es \/ i = Len(more)
BY DEF Opened

LEMMA StaysOpen ==
  ASSUME NEW es \in Seq(Told), Opened(es), NEW e \in {"content", "error", "stop"},
         NEW more, more = Append(es, e)
  PROVE  more \in Seq(Told) /\ Opened(more)
<1>1. e \in Told /\ e # "finish" /\ e # "start"
  BY DEF Told
<1> QED
  BY <1>1, StreamGoesOn DEF Opened

LEMMA Finishes ==
  ASSUME NEW es \in Seq(Told), Opened(es), NEW more, more = Append(es, "finish")
  PROVE  /\ more \in Seq(Told) /\ more # <<>> /\ more[Len(more)] = "finish"
         /\ \A i \in DOMAIN more : (more[i] = "finish" => i = Len(more)) /\ (more[i] = "start" => i = 1)
         /\ (\E i \in DOMAIN more : more[i] = "error") <=> (\E i \in DOMAIN es : es[i] = "error")
<1>1. "finish" \in Told
  BY DEF Told
<1>2. /\ more \in Seq(Told) /\ Len(more) = Len(es) + 1 /\ DOMAIN more = 1..Len(more)
      /\ more[Len(more)] = "finish"
      /\ \A i \in DOMAIN es : i \in DOMAIN more /\ more[i] = es[i]
      /\ \A i \in DOMAIN more : i \in DOMAIN es \/ i = Len(more)
  BY <1>1, StreamGoesOn
<1>3. \A i \in DOMAIN es : es[i] # "finish" /\ (es[i] = "start" => i = 1)
  BY DEF Opened
<1>4. \A i \in DOMAIN more : (more[i] = "finish" => i = Len(more)) /\ (more[i] = "start" => i = 1)
  BY <1>2, <1>3
<1>5. (\E i \in DOMAIN more : more[i] = "error") <=> (\E i \in DOMAIN es : es[i] = "error")
  BY <1>2
<1>6. more # <<>>
  BY <1>2
<1> QED
  BY <1>2, <1>4, <1>5, <1>6

LEMMA ServerInvStep == ServerInv /\ [ServerNext]_serverVars => ServerInv'
<1> SUFFICES ASSUME ServerInv, [ServerNext]_serverVars PROVE ServerInv'
  OBVIOUS
<1> USE ServerAssumption
<1>1. CASE UNCHANGED serverVars
  BY <1>1 DEF serverVars, ServerInv, ServerTyped, BodyBounded, AnsweredHonestly, Authentic, Opened
<1>2. CASE Authenticate
  <2>1. phase = "arrived" /\ kept = 0 /\ events = <<>> /\ answer = NoAnswer /\ UNCHANGED <<mode, request, kept, events>>
    BY <1>2 DEF Authenticate, ServerInv
  <2>2. \/ Authentic /\ phase' = "reading" /\ UNCHANGED answer
        \/ Respond(401) \/ Respond(403) \/ Respond(500)
    BY <1>2 DEF Authenticate, Authentic, ServerInv, ServerTyped, Modes, Incoming
  <2>3. CASE Authentic /\ phase' = "reading" /\ UNCHANGED answer
    BY <2>1, <2>3 DEF ServerInv, ServerTyped, BodyBounded, AnsweredHonestly, Authentic
  <2>4. 401 \in Statuses \ {0} /\ 403 \in Statuses \ {0} /\ 500 \in Statuses \ {0}
    BY DEF Statuses
  <2> QED
    BY <2>1, <2>2, <2>3, <2>4, Responds
<1>3. CASE DeclaredTooLarge
  <2>1. /\ ParseError(413, FALSE) /\ phase \in {"reading", "read", "parsed"}
        /\ UNCHANGED <<mode, request, kept>>
    BY <1>3 DEF DeclaredTooLarge
  <2>2. 413 \in {400, 413, 422} /\ FALSE \in BOOLEAN
    OBVIOUS
  <2> QED
    BY ONLY ServerInv, <2>1, <2>2, BodyRefused
<1>4. ASSUME NEW size \in 1..MaxChunk, Chunk(size) PROVE ServerInv'
  <2>1. phase = "reading" /\ UNCHANGED <<mode, request>>
    BY <1>4 DEF Chunk
  <2>2. ASSUME kept + size > MaxBody, NEW sniffed \in BOOLEAN, ParseError(413, sniffed), UNCHANGED kept
        PROVE  ServerInv'
    BY <2>1, <2>2, BodyRefused
  <2>3. ASSUME ~(kept + size > MaxBody), kept' = kept + size, UNCHANGED <<phase, answer, events>>
        PROVE  ServerInv'
    <3>1. kept' \in Nat /\ kept' <= MaxBody
      BY <2>3 DEF ServerInv, ServerTyped
    <3>2. Authentic /\ Authentic'
      BY <2>1, <2>3 DEF ServerInv, Authentic
    <3> QED
      BY <2>1, <2>3, <3>1, <3>2 DEF ServerInv, ServerTyped, BodyBounded, AnsweredHonestly, Authentic
  <2>4. ASSUME Respond(500), UNCHANGED events, UNCHANGED kept PROVE ServerInv'
    <3>1. events = <<>> /\ 500 \in Statuses \ {0}
      BY <2>1 DEF ServerInv, Statuses
    <3> QED
      BY <2>1, <2>4, <3>1, Responds
  <2> QED
    BY <1>4, <2>2, <2>3, <2>4 DEF Chunk
<1>5. CASE BodyEnds
  BY <1>5 DEF BodyEnds, ServerInv, ServerTyped, BodyBounded, AnsweredHonestly, Authentic
<1>6. CASE ParseRequest
  <2>1. phase = "read" /\ UNCHANGED <<mode, request, kept>> /\ request.streams \in BOOLEAN
    BY <1>6 DEF ParseRequest, ServerInv, ServerTyped, Incoming
  <2>2. \/ phase' = "parsed" /\ UNCHANGED <<answer, events>>
        \/ ParseError(400, request.streams) \/ ParseError(400, FALSE)
        \/ Respond(500) /\ UNCHANGED events
    BY <1>6 DEF ParseRequest, ServerInv, ServerTyped, Incoming, Kinds
  <2>3. CASE phase' = "parsed" /\ UNCHANGED <<answer, events>>
    BY <2>1, <2>3 DEF ServerInv, ServerTyped, BodyBounded, AnsweredHonestly, Authentic
  <2>4. ASSUME NEW streams \in BOOLEAN, ParseError(400, streams) PROVE ServerInv'
    BY <2>1, <2>4, BodyRefused
  <2>5. ASSUME Respond(500), UNCHANGED events PROVE ServerInv'
    <3>1. events = <<>> /\ 500 \in Statuses \ {0}
      BY <2>1 DEF ServerInv, Statuses
    <3> QED
      BY <2>1, <2>5, <3>1, Responds
  <2> QED
    BY <2>1, <2>2, <2>3, <2>4, <2>5
<1>7. CASE Decode
  <2>1. phase = "parsed" /\ UNCHANGED <<mode, request, kept>> /\ request.streams \in BOOLEAN
    BY <1>7 DEF Decode, ServerInv, ServerTyped, Incoming
  <2>2. \/ /\ phase' = "gateway" /\ request.streams
           /\ events' = <<"start">> /\ answer' = Begun
        \/ /\ phase' = "gateway" /\ ~request.streams
           /\ UNCHANGED <<events, answer>>
        \/ ParseError(422, request.streams)
    BY <1>7 DEF Decode, Begun
  <2>3. CASE phase' = "gateway" /\ request.streams /\ events' = <<"start">> /\ answer' = Begun
    <3>1. events' \in Seq(Told) /\ Opened(events') /\ answer' \in [status : Statuses, error : BOOLEAN]
      BY <2>3 DEF Told, Opened, Begun, Statuses
    <3> QED
      BY <2>1, <2>3, <3>1 DEF ServerInv, ServerTyped, BodyBounded, AnsweredHonestly, Authentic
  <2>4. CASE phase' = "gateway" /\ ~request.streams /\ UNCHANGED <<events, answer>>
    BY <2>1, <2>4 DEF ServerInv, ServerTyped, BodyBounded, AnsweredHonestly, Authentic
  <2> QED
    BY <2>1, <2>2, <2>3, <2>4, BodyRefused
<1>8. CASE Result \/ Raised
  <2>1. /\ UNCHANGED <<mode, request, kept, events>> /\ events = <<>>
        /\ \E status \in {502, 200, 400, 500} : Respond(status)
    BY <1>8 DEF Result, Raised, ServerInv
  <2> QED
    BY <2>1, Responds DEF Statuses
<1>9. CASE Event
  <2>1. /\ phase = "gateway" /\ request.streams /\ UNCHANGED <<mode, request, kept, answer>>
        /\ answer = Begun /\ events \in Seq(Told) /\ Opened(events)
    BY <1>9 DEF Event, ServerInv, ServerTyped
  <2>2. /\ phase' \in {"gateway", "closing", "stopping"}
        /\ events' \in Seq(Told) /\ Opened(events')
    <3>1. ASSUME NEW e \in {"content", "error", "stop"}, events' = Append(events, e)
          PROVE  events' \in Seq(Told) /\ Opened(events')
      BY <2>1, <3>1, StaysOpen
    <3> QED
      BY <1>9, <2>1, <3>1 DEF Event
  <2> QED
    BY <2>1, <2>2 DEF ServerInv, ServerTyped, BodyBounded, AnsweredHonestly, Authentic
<1>10. CASE StreamEnds
  <2>1. /\ phase \in {"closing", "stopping"} /\ UNCHANGED <<mode, request, kept>>
        /\ events \in Seq(Told) /\ Opened(events) /\ answer = Begun
        /\ events' = Append(events, "finish") /\ phase' = "answered"
        /\ answer' = [answer EXCEPT !.error = \E i \in DOMAIN events : events[i] = "error"]
    BY <1>10 DEF StreamEnds, ServerInv, ServerTyped
  <2>2. answer' = [status |-> 200, error |-> \E i \in DOMAIN events : events[i] = "error"]
    BY <2>1 DEF Begun
  <2>3. /\ answer' \in [status : Statuses, error : BOOLEAN] /\ answer'.status = 200
        /\ answer'.error <=> \E i \in DOMAIN events : events[i] = "error"
    BY <2>2 DEF Statuses
  <2>4. /\ events' \in Seq(Told) /\ events' # <<>> /\ events'[Len(events')] = "finish"
        /\ \A i \in DOMAIN events' : (events'[i] = "finish" => i = Len(events')) /\ (events'[i] = "start" => i = 1)
        /\ (\E i \in DOMAIN events' : events'[i] = "error") <=> (\E i \in DOMAIN events : events[i] = "error")
    BY <2>1, Finishes
  <2>5. AnsweredHonestly'
    BY <2>3, <2>4 DEF AnsweredHonestly
  <2> QED
    BY <2>1, <2>3, <2>4, <2>5, ClosesWith
<1>11. CASE StreamRaises
  <2>1. /\ phase \in {"gateway", "closing"} /\ UNCHANGED <<mode, request, kept>>
        /\ events \in Seq(Told) /\ Opened(events) /\ answer = Begun
        /\ events' = Failure(events) /\ phase' = "answered"
        /\ answer' = [answer EXCEPT !.error = TRUE]
    BY <1>11 DEF StreamRaises, ServerInv, ServerTyped
  <2>2. answer' \in [status : Statuses, error : BOOLEAN] /\ answer'.status = 200 /\ answer'.error = TRUE
    BY <2>1 DEF Begun, Statuses
  <2>3. /\ events' \in Seq(Told) /\ events' # <<>> /\ events'[Len(events')] = "finish"
        /\ \A i \in DOMAIN events' : (events'[i] = "finish" => i = Len(events')) /\ (events'[i] = "start" => i = 1)
        /\ \E i \in DOMAIN events' : events'[i] = "error"
    BY <2>1, FailureIsHonest
  <2>4. AnsweredHonestly'
    BY <2>2, <2>3 DEF AnsweredHonestly
  <2> QED
    BY <2>1, <2>2, <2>3, <2>4, ClosesWith
<1>12. CASE Disconnect
  <2>1. /\ phase \in {"gateway", "closing"} /\ request.streams /\ UNCHANGED <<mode, request, kept, events>>
        /\ events \in Seq(Told) /\ Opened(events) /\ answer = Begun
        /\ phase' = "answered" /\ answer' = [answer EXCEPT !.status = 0]
    BY <1>12 DEF Disconnect, ServerInv, ServerTyped
  <2>2. answer' \in [status : Statuses, error : BOOLEAN] /\ answer'.status = 0
    <3>1. 0 \in Statuses /\ Begun.error \in BOOLEAN /\ Begun = [status |-> Begun.status, error |-> Begun.error]
      BY DEF Begun, Statuses
    <3>2. answer' = [status |-> 0, error |-> Begun.error]
      BY <2>1, <3>1
    <3> QED
      BY <3>1, <3>2
  <2>3. events' # <<>>
    BY <2>1 DEF Opened
  <2>4. AnsweredHonestly'
    BY <2>1, <2>2, <2>3 DEF AnsweredHonestly
  <2> QED
    BY <2>1, <2>2, <2>4, ClosesWith
<1> QED
  BY <1>1, <1>2, <1>3, <1>4, <1>5, <1>6, <1>7, <1>8, <1>9, <1>10, <1>11, <1>12 DEF ServerNext

-----------------------------------------------------------------------------
(* Readiness. *)

AllProbed(snapshot) == \A r \in Routes : snapshot[r] # "not probed"

\* Young enough at some moment of a check that began since ticks ago.
YoungDuring(old, since) == old - since < Ttl \/ old = MaxAge

\* A pass that is under way has an answer of every route it no longer waits
\* for; a snapshot is nobody's or everybody's.
ReadinessInv ==
  /\ ReadinessTypeOK
  /\ \A c \in Checks : checks[c].at = "probing" <=> holder = c
  /\ probing # {} => holder # "nobody"
  /\ holder # "nobody" => \A r \in Routes \ probing : fresh[r] # "not probed"
  /\ results = NotProbed \/ AllProbed(results)
  /\ \A c \in Checks : checks[c].at = "idle" => checks[c].since = 0
  /\ \A c \in Checks : checks[c].at = "answering" => AllProbed(results) /\ YoungDuring(age, checks[c].since)

LEMMA ReadinessInvInit == ReadinessInit => ReadinessInv
<1> SUFFICES ASSUME ReadinessInit PROVE ReadinessInv
  OBVIOUS
<1>1. 0 \in 0..MaxAge /\ MaxAge \in 0..MaxAge
  BY ReadinessAssumption
<1>2. NotProbed \in [Routes -> Answers \union {"not probed"}]
  BY DEF NotProbed
<1>3. ReadinessTypeOK
  BY <1>1, <1>2 DEF ReadinessInit, ReadinessTypeOK, Resting
<1> QED
  BY <1>3, ReadinessAssumption DEF ReadinessInit, ReadinessInv, Resting

\* A step that ends at a snapshot and a lock of this kind, and moves one check.
LEMMA OneCheck ==
  ASSUME ReadinessInv, NEW c \in Checks, NEW new,
         new \in [at : {"idle", "waiting", "probing", "answering"}, since : 0..MaxAge],
         new.at = "probing" <=> holder' = c,
         new.at = "idle" => new.since = 0,
         new.at = "answering" => AllProbed(results') /\ YoungDuring(age', new.since),
         checks' = [checks EXCEPT ![c] = new],
         holder' \in {holder, c, "nobody"}, holder \in {holder', c, "nobody"},
         UNCHANGED <<backends, results, age>>,
         probing' \subseteq Routes, probing' # {} => holder' # "nobody",
         fresh' \in [Routes -> Answers \union {"not probed"}],
         holder' # "nobody" => \A r \in Routes \ probing' : fresh'[r] # "not probed"
  PROVE  ReadinessInv'
<1>1. \A d \in Checks : checks'[d] = IF d = c THEN new ELSE checks[d]
  BY DEF ReadinessInv, ReadinessTypeOK
<1>2. checks' \in [Checks -> [at : {"idle", "waiting", "probing", "answering"}, since : 0..MaxAge]]
  BY DEF ReadinessInv, ReadinessTypeOK
<1>3. ReadinessTypeOK'
  BY <1>2 DEF ReadinessInv, ReadinessTypeOK
<1>4. ASSUME NEW d \in Checks PROVE checks'[d].at = "probing" <=> holder' = d
  <2>1. CASE d = c
    BY <2>1, <1>1
  <2>2. CASE d # c
    <3>1. checks'[d] = checks[d] /\ (checks[d].at = "probing" <=> holder = d) /\ d # "nobody"
      BY <2>2, <1>1, ReadinessAssumption DEF ReadinessInv
    <3>2. holder' = d <=> holder = d
      BY <2>2, <3>1
    <3> QED
      BY <3>1, <3>2
  <2> QED
    BY <2>1, <2>2
<1>5. results' = NotProbed \/ AllProbed(results')
  BY DEF ReadinessInv
<1>6. ASSUME NEW d \in Checks, checks'[d].at = "idle" PROVE checks'[d].since = 0
  <2>1. CASE d = c
    BY <2>1, <1>1, <1>6
  <2>2. CASE d # c
    <3>1. checks'[d] = checks[d]
      BY <2>2, <1>1
    <3> QED
      BY <3>1, <1>6 DEF ReadinessInv
  <2> QED
    BY <2>1, <2>2
<1>7. ASSUME NEW d \in Checks, checks'[d].at = "answering"
      PROVE  AllProbed(results') /\ YoungDuring(age', checks'[d].since)
  <2>1. CASE d = c
    BY <2>1, <1>1, <1>7
  <2>2. CASE d # c
    BY <2>2, <1>1, <1>7 DEF ReadinessInv
  <2> QED
    BY <2>1, <2>2
<1> QED
  BY <1>3, <1>4, <1>5, <1>6, <1>7 DEF ReadinessInv, AllProbed, YoungDuring

\* How ages and the lives of checks go on together.
LEMMA Ages ==
  ASSUME NEW old \in 0..MaxAge, NEW since \in 0..MaxAge
  PROVE  /\ Older(old) \in 0..MaxAge
         /\ old < Ttl => YoungDuring(old, since)
         /\ YoungDuring(old, since) => YoungDuring(Older(old), Older(since))
<1> USE ReadinessAssumption
<1>1. MaxAge \in Nat /\ Ttl \in Nat /\ Ttl >= 1 /\ old \in Nat /\ since \in Nat /\ old <= MaxAge /\ since <= MaxAge
  OBVIOUS
<1>2. Older(old) \in 0..MaxAge
  <2>1. CASE old < MaxAge
    BY <2>1, <1>1 DEF Older
  <2>2. CASE ~(old < MaxAge)
    BY <2>2, <1>1 DEF Older
  <2> QED
    BY <2>1, <2>2
<1>3. old < Ttl => YoungDuring(old, since)
  BY <1>1 DEF YoungDuring
<1>4. ASSUME YoungDuring(old, since) PROVE YoungDuring(Older(old), Older(since))
  <2>1. CASE ~(old < MaxAge)
    BY <2>1, <1>1 DEF YoungDuring, Older
  <2>2. CASE old < MaxAge /\ since < MaxAge
    BY <2>2, <1>1, <1>4 DEF YoungDuring, Older
  <2>3. CASE old < MaxAge /\ ~(since < MaxAge)
    <3>1. old + 1 - since < Ttl
      BY <2>3, <1>1
    <3>2. Older(old) = old + 1 /\ Older(since) = since
      BY <2>3 DEF Older
    <3> QED
      BY <3>1, <3>2 DEF YoungDuring
  <2> QED
    BY <2>1, <2>2, <2>3
<1> QED
  BY <1>2, <1>3, <1>4

LEMMA ReadinessInvStep == ReadinessInv /\ [ReadinessNext]_readinessVars => ReadinessInv'
<1> SUFFICES ASSUME ReadinessInv, [ReadinessNext]_readinessVars PROVE ReadinessInv'
  OBVIOUS
<1> USE ReadinessAssumption
<1> DEFINE Kind == [at : {"idle", "waiting", "probing", "answering"}, since : 0..MaxAge]
<1>1. /\ checks \in [Checks -> Kind] /\ age \in 0..MaxAge
      /\ fresh \in [Routes -> Answers \union {"not probed"}] /\ probing \subseteq Routes
      /\ results \in [Routes -> Answers \union {"not probed"}]
      /\ backends \in [Routes -> Answers]
  BY DEF ReadinessInv, ReadinessTypeOK
<1>2. Served => AllProbed(results) /\ age < Ttl
  BY DEF Served, ReadinessInv
<1>3. 0 \in 0..MaxAge /\ Resting \in Kind /\ Resting.at = "idle" /\ Resting.since = 0
  BY DEF Resting
<1>4. CASE UNCHANGED readinessVars
  BY <1>4 DEF readinessVars, ReadinessInv, ReadinessTypeOK, AllProbed, YoungDuring
<1>5. ASSUME NEW c \in Checks, CheckBegins(c) PROVE ReadinessInv'
  <2> DEFINE new == [checks[c] EXCEPT !.at = IF Served THEN "answering" ELSE "waiting"]
  <2>1. /\ checks[c].at = "idle" /\ checks[c].since = 0 /\ checks' = [checks EXCEPT ![c] = new]
        /\ UNCHANGED <<backends, results, age, holder, probing, fresh>>
    BY <1>5, <1>1 DEF CheckBegins, ReadinessInv
  <2>2. new \in Kind /\ new.since = 0 /\ new.at = IF Served THEN "answering" ELSE "waiting"
    BY <2>1, <1>1
  <2>3. new.at = "answering" => AllProbed(results') /\ YoungDuring(age', new.since)
    <3>1. new.at = "answering" => Served
      BY <2>2
    <3>2. Served => YoungDuring(age, 0)
      BY <1>1, <1>2, <1>3, Ages
    <3> QED
      BY <3>1, <3>2, <2>1, <2>2, <1>2
  <2>4. holder # c
    BY <2>1 DEF ReadinessInv
  <2> HIDE DEF new
  <2> QED
    BY <2>1, <2>2, <2>3, <2>4, <1>1, OneCheck DEF ReadinessInv
<1>6. ASSUME NEW c \in Checks, Locks(c) PROVE ReadinessInv'
  <2>1. /\ checks[c].at = "waiting" /\ holder = "nobody" /\ UNCHANGED <<backends, results, age, fresh>>
        /\ probing = {}
    BY <1>6 DEF Locks, ReadinessInv
  <2>2. CASE Served
    <3> DEFINE new == [checks[c] EXCEPT !.at = "answering"]
    <3>1. /\ checks' = [checks EXCEPT ![c] = new] /\ UNCHANGED <<holder, probing>>
      BY <1>6, <2>2, <1>1 DEF Locks
    <3>2. new \in Kind /\ new.at = "answering" /\ new.since \in 0..MaxAge
      BY <1>1
    <3>3. AllProbed(results') /\ YoungDuring(age', new.since)
      BY <2>1, <3>2, <1>1, <1>2, <2>2, Ages
    <3> HIDE DEF new
    <3> QED
      BY <2>1, <3>1, <3>2, <3>3, <1>1, OneCheck
  <2>3. CASE ~Served
    <3> DEFINE new == [checks[c] EXCEPT !.at = "probing"]
    <3>1. /\ checks' = [checks EXCEPT ![c] = new] /\ holder' = c /\ probing' = Routes
      BY <1>6, <2>3, <1>1 DEF Locks
    <3>2. new \in Kind /\ new.at = "probing"
      BY <1>1
    <3> HIDE DEF new
    <3> QED
      BY <2>1, <3>1, <3>2, <1>1, OneCheck
  <2> QED
    BY <2>2, <2>3
<1>7. ASSUME NEW c \in Checks, PassCancelled(c) PROVE ReadinessInv'
  <2>1. /\ checks[c].at = "probing" /\ holder = c /\ holder' = "nobody" /\ probing' = {} /\ fresh' = NotProbed
        /\ checks' = [checks EXCEPT ![c] = Resting] /\ UNCHANGED <<backends, results, age>>
    BY <1>7 DEF PassCancelled, ReadinessInv
  <2>2. fresh' \in [Routes -> Answers \union {"not probed"}]
    BY <2>1 DEF NotProbed
  <2> QED
    BY <2>1, <2>2, <1>1, <1>3, OneCheck
<1>8. ASSUME NEW c \in Checks, CheckEnds(c) PROVE ReadinessInv'
  <2>1. /\ checks[c].at = "answering" /\ checks' = [checks EXCEPT ![c] = Resting]
        /\ UNCHANGED <<backends, results, age, holder, probing, fresh>> /\ holder # c
    BY <1>8 DEF CheckEnds, ReadinessInv
  <2> QED
    BY <2>1, <1>1, <1>3, OneCheck DEF ReadinessInv
<1>9. ASSUME NEW c \in Checks, PassEnds(c) PROVE ReadinessInv'
  <2> DEFINE new == [checks[c] EXCEPT !.at = "answering"]
  <2>1. /\ checks[c].at = "probing" /\ holder = c /\ probing = {} /\ probing' = {}
        /\ results' = fresh /\ fresh' = NotProbed /\ age' = 0 /\ holder' = "nobody" /\ backends' = backends
        /\ checks' = [checks EXCEPT ![c] = new]
    BY <1>9, <1>1 DEF PassEnds, ReadinessInv
  <2>2. new \in Kind /\ new.at = "answering"
    BY <1>1
  <2>3. AllProbed(results')
    BY <2>1 DEF ReadinessInv, AllProbed
  <2>4. \A d \in Checks : checks'[d] = IF d = c THEN new ELSE checks[d]
    BY <2>1, <1>1
  <2>5. checks' \in [Checks -> Kind]
    BY <2>1, <2>2, <1>1
  <2> HIDE DEF new
  <2>6. ReadinessTypeOK'
    BY <2>1, <2>5, <1>1, <1>3 DEF ReadinessTypeOK, NotProbed
  <2>7. ASSUME NEW d \in Checks
        PROVE  checks'[d].at # "probing" /\ (checks'[d].at = "idle" => checks'[d].since = 0)
    <3>1. CASE d = c
      BY <3>1, <2>4, <2>2
    <3>2. CASE d # c
      BY <3>2, <2>4, <2>1 DEF ReadinessInv
    <3> QED
      BY <3>1, <3>2
  <2>8. ASSUME NEW d \in Checks PROVE YoungDuring(age', checks'[d].since)
    <3>1. checks'[d].since \in 0..MaxAge
      BY <2>5
    <3> QED
      BY <2>1, <3>1 DEF YoungDuring
  <2> QED
    BY <2>1, <2>3, <2>6, <2>7, <2>8 DEF ReadinessInv, AllProbed, YoungDuring
<1>10. ASSUME NEW r \in Routes, ProbeAnswers(r) PROVE ReadinessInv'
  <2>1. /\ r \in probing /\ probing' = probing \ {r} /\ fresh' = [fresh EXCEPT ![r] = backends[r]]
        /\ UNCHANGED <<backends, results, age, holder, checks>>
    BY <1>10 DEF ProbeAnswers
  <2>2. backends[r] \in Answers /\ backends[r] # "not probed"
    BY <1>1 DEF Answers
  <2>3. fresh' \in [Routes -> Answers \union {"not probed"}]
    BY <2>1, <2>2, <1>1
  <2>4. holder' # "nobody" => \A s \in Routes \ probing' : fresh'[s] # "not probed"
    BY <2>1, <2>2, <1>1 DEF ReadinessInv
  <2>5. ReadinessTypeOK'
    BY <2>1, <2>3, <1>1 DEF ReadinessInv, ReadinessTypeOK
  <2> QED
    BY <2>1, <2>4, <2>5 DEF ReadinessInv, AllProbed, YoungDuring
<1>11. ASSUME NEW r \in Routes, Changes(r) PROVE ReadinessInv'
  <2>1. backends' \in [Routes -> Answers] /\ UNCHANGED <<results, age, holder, probing, fresh, checks>>
    BY <1>11, <1>1 DEF Changes
  <2> QED
    BY <2>1 DEF ReadinessInv, ReadinessTypeOK, AllProbed, YoungDuring
<1>12. CASE Passes
  <2>1. /\ age' = Older(age) /\ UNCHANGED <<backends, results, holder, probing, fresh>>
        /\ checks' = [c \in Checks |-> IF checks[c].at = "idle" THEN checks[c]
                                       ELSE [checks[c] EXCEPT !.since = Older(@)]]
    BY <1>12 DEF Passes
  <2>2. age' \in 0..MaxAge
    BY <2>1, <1>1, Ages
  <2>3. ASSUME NEW c \in Checks
        PROVE  /\ checks'[c] \in Kind /\ checks'[c].at = checks[c].at
               /\ checks'[c].since = IF checks[c].at = "idle" THEN checks[c].since ELSE Older(checks[c].since)
    <3>1. checks[c] \in Kind /\ checks[c].since \in 0..MaxAge
      BY <1>1
    <3>2. Older(checks[c].since) \in 0..MaxAge
      BY <3>1, Ages
    <3> QED
      BY <2>1, <3>1, <3>2
  <2>4. checks' \in [Checks -> Kind]
    BY <2>1, <2>3
  <2>5. ASSUME NEW c \in Checks, checks[c].at = "answering"
        PROVE  YoungDuring(age', checks'[c].since)
    <3>1. /\ YoungDuring(age, checks[c].since) /\ checks[c].since \in 0..MaxAge
          /\ checks'[c].since = Older(checks[c].since)
      BY <2>5, <2>3, <1>1 DEF ReadinessInv
    <3>2. YoungDuring(Older(age), Older(checks[c].since))
      BY <3>1, <1>1, Ages
    <3> QED
      BY <3>1, <3>2, <2>1
  <2>6. ReadinessTypeOK'
    BY <2>1, <2>2, <2>4 DEF ReadinessInv, ReadinessTypeOK
  <2>7. /\ \A c \in Checks : checks'[c].at = "probing" <=> holder' = c
        /\ \A c \in Checks : checks'[c].at = "idle" => checks'[c].since = 0
    BY <2>1, <2>3 DEF ReadinessInv
  <2>8. /\ probing' # {} => holder' # "nobody"
        /\ holder' # "nobody" => \A r \in Routes \ probing' : fresh'[r] # "not probed"
        /\ results' = NotProbed \/ AllProbed(results')
    BY <2>1 DEF ReadinessInv, AllProbed
  <2>9. \A c \in Checks : checks'[c].at = "answering" =>
           AllProbed(results') /\ YoungDuring(age', checks'[c].since)
    BY <2>1, <2>3, <2>5 DEF ReadinessInv, AllProbed
  <2> QED
    BY <2>6, <2>7, <2>8, <2>9 DEF ReadinessInv
<1> QED
  BY <1>4, <1>5, <1>6, <1>7, <1>8, <1>9, <1>10, <1>11, <1>12 DEF ReadinessNext

LEMMA ReadinessInvSound == ReadinessInv => ChecksSound
BY DEF ReadinessInv, ChecksSound, AllProbed, YoungDuring

-----------------------------------------------------------------------------
(* Sessions and their loops. *)

\* A sequence cut in two: nothing is in both parts.
LEMMA CutInTwo ==
  ASSUME NEW S, NEW s \in Seq(S), IsInjective(s), NEW n \in 0..Len(s)
  PROVE  /\ SubSeq(s, n + 1, Len(s)) \in Seq(S)
         /\ IsInjective(SubSeq(s, n + 1, Len(s)))
         /\ ToSet(SubSeq(s, n + 1, Len(s))) = ToSet(s) \ ToSet(SubSeq(s, 1, n))
<1> DEFINE front == SubSeq(s, 1, n)
           back == SubSeq(s, n + 1, Len(s))
<1>1. /\ Len(s) \in Nat /\ n \in Nat /\ n <= Len(s) /\ DOMAIN s = 1..Len(s)
      /\ \A i \in 1..Len(s) : s[i] \in S
  OBVIOUS
<1>2. /\ front \in Seq(S) /\ Len(front) = n /\ DOMAIN front = 1..n
      /\ \A i \in 1..n : front[i] = s[i]
  BY <1>1
<1>3. /\ back \in Seq(S) /\ Len(back) = Len(s) - n /\ DOMAIN back = 1..(Len(s) - n)
      /\ \A i \in 1..(Len(s) - n) : back[i] = s[n + i]
  <2>1. n + 1 \in Int /\ Len(s) \in Int /\ \A i \in (n + 1)..Len(s) : s[i] \in S
    BY <1>1
  <2>2. /\ back \in Seq(S)
        /\ Len(back) = IF n + 1 <= Len(s) THEN Len(s) - (n + 1) + 1 ELSE 0
        /\ \A i \in 1..(Len(s) - (n + 1) + 1) : back[i] = s[n + 1 + i - 1]
    BY <2>1, SubSeqProperties
  <2> HIDE DEF back
  <2>3. Len(back) = Len(s) - n /\ DOMAIN back = 1..Len(back)
    BY <2>2, <1>1
  <2>4. ASSUME NEW i \in 1..(Len(s) - n) PROVE back[i] = s[n + i]
    <3>1. i \in 1..(Len(s) - (n + 1) + 1) /\ n + 1 + i - 1 = n + i
      BY <1>1
    <3> QED
      BY <3>1, <2>2
  <2> QED
    BY <2>2, <2>3, <2>4
<1> HIDE DEF front, back
<1>4. \A i, j \in 1..Len(s) : s[i] = s[j] => i = j
  BY <1>1 DEF IsInjective
<1>5. IsInjective(back)
  <2> SUFFICES ASSUME NEW i \in 1..(Len(s) - n), NEW j \in 1..(Len(s) - n), back[i] = back[j] PROVE i = j
    BY <1>3 DEF IsInjective
  <2>1. n + i \in 1..Len(s) /\ n + j \in 1..Len(s) /\ s[n + i] = s[n + j]
    BY <1>1, <1>3
  <2>2. n + i = n + j
    BY <2>1, <1>4
  <2> QED
    BY <2>2, <1>1
<1>6. ASSUME NEW x \in ToSet(back) PROVE x \in ToSet(s) \ ToSet(front)
  <2>1. PICK i \in 1..(Len(s) - n) : x = s[n + i]
    BY <1>3 DEF ToSet
  <2>2. n + i \in 1..Len(s) /\ n + i > n
    BY <2>1, <1>1
  <2>3. x \in ToSet(s)
    BY <2>1, <2>2, <1>1 DEF ToSet
  <2>4. ASSUME NEW j \in 1..n PROVE front[j] # x
    <3>1. j \in 1..Len(s) /\ j # n + i
      BY <2>2, <1>1
    <3> QED
      BY <3>1, <2>1, <2>2, <1>2, <1>4
  <2> QED
    BY <2>3, <2>4, <1>2 DEF ToSet
<1>7. ASSUME NEW x \in ToSet(s) \ ToSet(front) PROVE x \in ToSet(back)
  <2>1. PICK i \in 1..Len(s) : x = s[i]
    BY <1>1 DEF ToSet
  <2>2. i \notin 1..n
    BY <2>1, <1>2 DEF ToSet
  <2>3. i - n \in 1..(Len(s) - n) /\ n + (i - n) = i
    BY <2>1, <2>2, <1>1
  <2>4. back[i - n] = x
    BY <2>1, <2>3, <1>3
  <2> QED
    BY <2>3, <2>4, <1>3 DEF ToSet
<1> QED
  BY <1>3, <1>5, <1>6, <1>7 DEF front, back

\* A sequence without its head.
LEMMA BehindHead ==
  ASSUME NEW S, NEW s \in Seq(S), IsInjective(s), s # <<>>
  PROVE  /\ Tail(s) \in Seq(S) /\ IsInjective(Tail(s))
         /\ Head(s) \in ToSet(s) /\ ToSet(Tail(s)) = ToSet(s) \ {Head(s)}
<1> DEFINE t == Tail(s)
<1>1. /\ Len(s) \in Nat /\ Len(s) >= 1 /\ DOMAIN s = 1..Len(s) /\ Head(s) = s[1]
  OBVIOUS
<1>2. /\ t \in Seq(S) /\ Len(t) = Len(s) - 1 /\ DOMAIN t = 1..(Len(s) - 1)
      /\ \A i \in 1..(Len(s) - 1) : t[i] = s[i + 1]
  BY <1>1
<1> HIDE DEF t
<1>3. \A i, j \in 1..Len(s) : s[i] = s[j] => i = j
  BY <1>1 DEF IsInjective
<1>4. IsInjective(t)
  <2> SUFFICES ASSUME NEW i \in 1..(Len(s) - 1), NEW j \in 1..(Len(s) - 1), t[i] = t[j] PROVE i = j
    BY <1>2 DEF IsInjective
  <2>1. i + 1 \in 1..Len(s) /\ j + 1 \in 1..Len(s) /\ s[i + 1] = s[j + 1]
    BY <1>1, <1>2
  <2>2. i + 1 = j + 1
    BY <2>1, <1>3
  <2> QED
    BY <2>2
<1>5. 1 \in 1..Len(s)
  BY <1>1
<1>6. ASSUME NEW x \in ToSet(t) PROVE x \in ToSet(s) \ {Head(s)}
  <2>1. PICK i \in 1..(Len(s) - 1) : x = s[i + 1]
    BY <1>2 DEF ToSet
  <2>2. i + 1 \in 1..Len(s) /\ i + 1 # 1
    BY <2>1, <1>1
  <2> QED
    BY <2>1, <2>2, <1>1, <1>3, <1>5 DEF ToSet
<1>7. ASSUME NEW x \in ToSet(s) \ {Head(s)} PROVE x \in ToSet(t)
  <2>1. PICK i \in 1..Len(s) : x = s[i]
    BY <1>1 DEF ToSet
  <2>2. i - 1 \in 1..(Len(s) - 1) /\ (i - 1) + 1 = i
    <3>1. i # 1
      BY <2>1, <1>1
    <3> QED
      BY <3>1, <1>1
  <2>3. t[i - 1] = x
    BY <2>1, <2>2, <1>2
  <2> QED
    BY <2>2, <2>3, <1>2 DEF ToSet
<1>8. Head(s) \in ToSet(s)
  BY <1>1, <1>5 DEF ToSet
<1> QED
  BY <1>2, <1>4, <1>6, <1>7, <1>8 DEF t

\* A sequence without one of its places.
LEMMA WithoutPlace ==
  ASSUME NEW S, NEW s \in Seq(S), IsInjective(s), NEW p \in 1..Len(s)
  PROVE  /\ RemoveAt(s, p) \in Seq(S) /\ IsInjective(RemoveAt(s, p))
         /\ ToSet(RemoveAt(s, p)) = ToSet(s) \ {s[p]}
<1> DEFINE before == SubSeq(s, 1, p - 1)
           after == SubSeq(s, p + 1, Len(s))
           rest == RemoveAt(s, p)
           At(j) == IF j < p THEN j ELSE j + 1
<1>1. /\ Len(s) \in Nat /\ p \in Nat /\ 1 <= p /\ p <= Len(s) /\ DOMAIN s = 1..Len(s)
      /\ \A i \in 1..Len(s) : s[i] \in S
  OBVIOUS
<1>2. /\ before \in Seq(S) /\ Len(before) = p - 1
      /\ \A i \in 1..(p - 1) : before[i] = s[i]
  <2>1. 1 \in Int /\ p - 1 \in Int /\ \A i \in 1..(p - 1) : s[i] \in S
    BY <1>1
  <2>2. /\ before \in Seq(S)
        /\ Len(before) = IF 1 <= p - 1 THEN p - 1 - 1 + 1 ELSE 0
        /\ \A i \in 1..(p - 1 - 1 + 1) : before[i] = s[1 + i - 1]
    BY <2>1, SubSeqProperties
  <2> HIDE DEF before
  <2> QED
    BY <2>2, <1>1
<1>3. /\ after \in Seq(S) /\ Len(after) = Len(s) - p
      /\ \A i \in 1..(Len(s) - p) : after[i] = s[p + i]
  <2>1. p + 1 \in Int /\ Len(s) \in Int /\ \A i \in (p + 1)..Len(s) : s[i] \in S
    BY <1>1
  <2>2. /\ after \in Seq(S)
        /\ Len(after) = IF p + 1 <= Len(s) THEN Len(s) - (p + 1) + 1 ELSE 0
        /\ \A i \in 1..(Len(s) - (p + 1) + 1) : after[i] = s[p + 1 + i - 1]
    BY <2>1, SubSeqProperties
  <2> HIDE DEF after
  <2>3. ASSUME NEW i \in 1..(Len(s) - p) PROVE after[i] = s[p + i]
    <3>1. i \in 1..(Len(s) - (p + 1) + 1) /\ p + 1 + i - 1 = p + i
      BY <1>1
    <3> QED
      BY <3>1, <2>2
  <2> HIDE DEF after
  <2>4. Len(after) = Len(s) - p
    <3>1. p \in Nat /\ Len(s) \in Nat /\ p <= Len(s)
      BY <1>1
    <3>2. Len(after) = IF p + 1 <= Len(s) THEN Len(s) - (p + 1) + 1 ELSE 0
      BY <2>2
    <3> QED
      BY ONLY <3>1, <3>2
  <2> QED
    BY <2>2, <2>3, <2>4
<1>4. rest = before \o after
  BY DEF RemoveAt
<1> HIDE DEF before, after, rest
<1>5. /\ rest \in Seq(S) /\ Len(rest) = Len(before) + Len(after)
      /\ \A i \in 1..Len(before) : rest[i] = before[i]
      /\ \A i \in 1..Len(after) : rest[Len(before) + i] = after[i]
  <2>1. before \in Seq(S) /\ after \in Seq(S)
    BY <1>2, <1>3
  <2>2. /\ before \o after \in Seq(S) /\ Len(before \o after) = Len(before) + Len(after)
        /\ \A i \in 1..Len(before) : (before \o after)[i] = before[i]
        /\ \A i \in 1..Len(after) : (before \o after)[Len(before) + i] = after[i]
    BY <2>1, Pieces
  <2> QED
    BY <2>2, <1>4
<1>6. /\ Len(rest) = Len(s) - 1 /\ DOMAIN rest = 1..(Len(s) - 1)
      /\ \A i \in 1..(p - 1) : rest[i] = s[i]
      /\ \A i \in 1..(Len(s) - p) : rest[p - 1 + i] = s[p + i]
  <2>1. Len(rest) = Len(s) - 1
    BY <1>1, <1>2, <1>3, <1>5
  <2>2. DOMAIN rest = 1..Len(rest)
    BY <1>5
  <2>3. \A i \in 1..(p - 1) : rest[i] = s[i]
    BY <1>2, <1>5
  <2>4. \A i \in 1..(Len(s) - p) : rest[p - 1 + i] = s[p + i]
    BY <1>2, <1>3, <1>5
  <2> QED
    BY <2>1, <2>2, <2>3, <2>4
<1>7. ASSUME NEW j \in 1..(Len(s) - 1)
      PROVE  rest[j] = s[At(j)] /\ At(j) \in 1..Len(s) /\ At(j) # p
  <2>1. CASE j < p
    BY <2>1, <1>1, <1>6
  <2>2. CASE ~(j < p)
    <3> DEFINE i == j + 1 - p
    <3>1. i \in 1..(Len(s) - p) /\ p - 1 + i = j /\ p + i = j + 1
      BY <2>2, <1>1
    <3>2. rest[p - 1 + i] = s[p + i]
      BY <3>1, <1>6
    <3> HIDE DEF i
    <3> QED
      BY <2>2, <3>1, <3>2, <1>1
  <2> QED
    BY <2>1, <2>2
<1>8. \A i, j \in 1..Len(s) : s[i] = s[j] => i = j
  BY <1>1 DEF IsInjective
<1>9. IsInjective(rest)
  <2> SUFFICES ASSUME NEW i \in 1..(Len(s) - 1), NEW j \in 1..(Len(s) - 1), rest[i] = rest[j] PROVE i = j
    BY <1>6 DEF IsInjective
  <2>1. At(i) = At(j)
    BY <1>7, <1>8
  <2> QED
    BY <2>1, <1>1
<1>10. ASSUME NEW x \in ToSet(rest) PROVE x \in ToSet(s) \ {s[p]}
  <2>1. PICK j \in 1..(Len(s) - 1) : x = rest[j]
    BY <1>6 DEF ToSet
  <2>2. x = s[At(j)] /\ At(j) \in 1..Len(s) /\ At(j) # p
    BY <2>1, <1>7
  <2> HIDE DEF At
  <2> QED
    BY <2>2, <1>1, <1>8 DEF ToSet
<1>11. ASSUME NEW x \in ToSet(s) \ {s[p]} PROVE x \in ToSet(rest)
  <2>1. PICK i \in 1..Len(s) : x = s[i]
    BY <1>1 DEF ToSet
  <2>2. i # p
    BY <2>1
  <2>3. CASE i < p
    <3>1. i \in 1..(p - 1) /\ i \in 1..(Len(s) - 1)
      BY <2>1, <2>3, <1>1
    <3>2. rest[i] = x
      BY <3>1, <2>1, <1>6
    <3> QED
      BY <3>1, <3>2, <1>6 DEF ToSet
  <2>4. CASE i > p
    <3>1. i - 1 \in 1..(Len(s) - 1) /\ At(i - 1) = i
      BY <2>1, <2>4, <1>1
    <3>2. rest[i - 1] = x
      BY <3>1, <2>1, <1>7
    <3> QED
      BY <3>1, <3>2, <1>6 DEF ToSet
  <2> QED
    BY <2>1, <2>2, <2>3, <2>4, <1>1
<1> QED
  BY <1>5, <1>9, <1>10, <1>11 DEF rest

\* The key comes last, once.
LEMMA TouchedLast ==
  ASSUME NEW S, NEW s \in Seq(S), IsInjective(s), NEW k \in S
  PROVE  /\ Touched(s, k) \in Seq(S) /\ IsInjective(Touched(s, k))
         /\ ToSet(Touched(s, k)) = ToSet(s) \cup {k}
<1> DEFINE rest == IF k \in ToSet(s) THEN RemoveAt(s, CHOOSE i \in DOMAIN s : s[i] = k) ELSE s
           more == Append(rest, k)
<1>1. /\ rest \in Seq(S) /\ IsInjective(rest) /\ ToSet(rest) = ToSet(s) \ {k}
  <2>1. CASE k \in ToSet(s)
    <3> DEFINE p == CHOOSE i \in DOMAIN s : s[i] = k
    <3>1. p \in DOMAIN s /\ s[p] = k
      BY <2>1 DEF ToSet
    <3>2. p \in 1..Len(s)
      BY <3>1
    <3>3. rest = RemoveAt(s, p)
      BY <2>1
    <3> HIDE DEF p, rest
    <3> QED
      BY <3>1, <3>2, <3>3, WithoutPlace
  <2>2. CASE k \notin ToSet(s)
    BY <2>2
  <2> QED
    BY <2>1, <2>2
<1>2. Touched(s, k) = more
  BY DEF Touched
<1> HIDE DEF rest
<1>3. /\ more \in Seq(S) /\ Len(rest) \in Nat /\ DOMAIN more = 1..(Len(rest) + 1)
      /\ DOMAIN rest = 1..Len(rest)
      /\ \A i \in 1..Len(rest) : more[i] = rest[i]
      /\ more[Len(rest) + 1] = k
  BY <1>1
<1> HIDE DEF more
<1>4. \A i \in 1..Len(rest) : rest[i] # k
  BY <1>1, <1>3 DEF ToSet
<1>5. IsInjective(more)
  <2> SUFFICES ASSUME NEW i \in 1..(Len(rest) + 1), NEW j \in 1..(Len(rest) + 1), more[i] = more[j] PROVE i = j
    BY <1>3 DEF IsInjective
  <2>1. CASE i \in 1..Len(rest) /\ j \in 1..Len(rest)
    BY <2>1, <1>1, <1>3 DEF IsInjective
  <2>2. CASE i \notin 1..Len(rest) \/ j \notin 1..Len(rest)
    BY <2>2, <1>3, <1>4
  <2> QED
    BY <2>1, <2>2
<1>6. ToSet(more) = ToSet(rest) \cup {k}
  <2>1. \A i \in DOMAIN more : i \in DOMAIN rest \/ i = Len(rest) + 1
    BY <1>3
  <2>2. Len(rest) + 1 \in DOMAIN more /\ \A i \in DOMAIN rest : i \in DOMAIN more
    BY <1>3
  <2> QED
    BY <2>1, <2>2, <1>3 DEF ToSet
<1> QED
  BY <1>1, <1>2, <1>3, <1>5, <1>6

\* A session that has recorded n signatures in its present life.
KeptSession(s, n) ==
  /\ s \in [repairs : Nat, consecutive : Nat, signatures : Seq(Signatures), flagged : BOOLEAN]
  /\ s.repairs = n /\ s.consecutive <= n /\ Len(s.signatures) <= n
  /\ s.flagged => n >= 3

\* The detector has no more to look at than the session recorded.
LoopInv ==
  /\ access \in Seq(Keys) /\ IsInjective(access) /\ ToSet(access) = DOMAIN sessions
  /\ IsFiniteSet(DOMAIN sessions) /\ Cardinality(DOMAIN sessions) <= MaxSessions
  /\ earned \in [Keys -> Nat]
  /\ \A k \in DOMAIN sessions : KeptSession(sessions[k], earned[k])

LEMMA LoopInvInit == LoopInit => LoopInv
<1> SUFFICES ASSUME LoopInit PROVE LoopInv
  OBVIOUS
<1>1. DOMAIN sessions = {} /\ access = <<>> /\ earned \in [Keys -> Nat]
  BY DEF LoopInit
<1>2. access \in Seq(Keys) /\ DOMAIN access = {}
  BY <1>1
<1>3. IsInjective(access) /\ ToSet(access) = {}
  BY <1>2 DEF IsInjective, ToSet
<1>4. IsFiniteSet({}) /\ Cardinality({}) = 0
  BY FS_EmptySet
<1> QED
  BY <1>1, <1>2, <1>3, <1>4, SessionAssumption DEF LoopInv

\* Three signatures alike are three signatures.
LEMMA LoopingNeedsThree ==
  ASSUME NEW s, NEW n \in Nat, s.consecutive \in Nat, s.signatures \in Seq(Signatures),
         s.consecutive <= n, Len(s.signatures) <= n, Looping(s)
  PROVE  n >= 3
<1>1. CASE s.consecutive > 3
  BY <1>1
<1>2. ASSUME NEW i \in DOMAIN s.signatures,
             Cardinality({j \in DOMAIN s.signatures : s.signatures[j] = s.signatures[i]}) >= 3
      PROVE  n >= 3
  <2> DEFINE len == Len(s.signatures)
             alike == {j \in DOMAIN s.signatures : s.signatures[j] = s.signatures[i]}
  <2>1. len \in Nat /\ DOMAIN s.signatures = 1..len
    OBVIOUS
  <2>2. alike \in SUBSET (1..len)
    BY <2>1
  <2>3. 1 \in Int /\ len \in Int
    BY <2>1
  <2>4. IsFiniteSet(1..len) /\ Cardinality(1..len) = IF 1 > len THEN 0 ELSE len - 1 + 1
    BY <2>3, FS_Interval
  <2>5. IsFiniteSet(alike) /\ Cardinality(alike) <= Cardinality(1..len)
    BY <2>2, <2>4, FS_Subset
  <2>6. Cardinality(alike) \in Nat /\ Cardinality(1..len) \in Nat
    BY <2>4, <2>5, FS_CardinalityType
  <2>7. Cardinality(alike) >= 3
    BY <1>2
  <2> HIDE DEF alike
  <2> QED
    BY <2>1, <2>4, <2>5, <2>6, <2>7
<1> QED
  BY <1>1, <1>2 DEF Looping

LEMMA RecordedIsKept ==
  ASSUME NEW s, NEW n \in Nat, KeptSession(s, n), NEW signature \in Signatures
  PROVE  KeptSession(Recorded(s, signature), n + 1)
<1> DEFINE all == Append(s.signatures, signature)
           window == IF Len(all) > Recent THEN Tail(all) ELSE all
           streak == IF signature.result = "repair" THEN s.consecutive + 1 ELSE 0
           t == [s EXCEPT !.repairs = @ + 1, !.consecutive = streak, !.signatures = window]
<1>1. /\ s \in [repairs : Nat, consecutive : Nat, signatures : Seq(Signatures), flagged : BOOLEAN]
      /\ s.repairs = n /\ s.consecutive <= n /\ Len(s.signatures) <= n
      /\ s.flagged => n >= 3
  BY DEF KeptSession
<1>2. window \in Seq(Signatures) /\ Len(window) <= n + 1
  <2>1. all \in Seq(Signatures) /\ Len(all) = Len(s.signatures) + 1 /\ Len(s.signatures) \in Nat
    BY <1>1
  <2> HIDE DEF all
  <2>2. CASE Len(all) > Recent
    <3>1. all # <<>>
      BY <2>1
    <3>2. Tail(all) \in Seq(Signatures) /\ Len(Tail(all)) = Len(all) - 1
      BY <2>1, <3>1
    <3> QED
      BY <2>1, <2>2, <3>2, <1>1
  <2>3. CASE ~(Len(all) > Recent)
    BY <2>1, <2>3, <1>1
  <2> QED
    BY <2>2, <2>3
<1>3. streak \in Nat /\ streak <= n + 1
  BY <1>1
<1> HIDE DEF window, streak
<1>4. /\ t \in [repairs : Nat, consecutive : Nat, signatures : Seq(Signatures), flagged : BOOLEAN]
      /\ t.repairs = n + 1 /\ t.consecutive = streak /\ t.signatures = window /\ t.flagged = s.flagged
  <2>1. s.repairs + 1 = n + 1 /\ n + 1 \in Nat
    BY <1>1
  <2>2. t = [s EXCEPT !.repairs = n + 1, !.consecutive = streak, !.signatures = window]
    BY <2>1
  <2> HIDE DEF t
  <2>3. t.repairs = n + 1 /\ t.consecutive = streak /\ t.signatures = window /\ t.flagged = s.flagged
    BY <1>1, <2>2
  <2>4. t \in [repairs : Nat, consecutive : Nat, signatures : Seq(Signatures), flagged : BOOLEAN]
    BY <1>1, <1>2, <1>3, <2>1, <2>2
  <2> QED
    BY <2>3, <2>4
<1>5. Looping(t) => n + 1 >= 3
  BY <1>2, <1>3, <1>4, LoopingNeedsThree
<1>6. Looping(t) \in BOOLEAN
  BY DEF Looping
<1>7. Recorded(s, signature) = [t EXCEPT !.flagged = @ \/ Looping(t)]
  BY DEF Recorded, window, streak
<1> HIDE DEF t
<1>8. /\ Recorded(s, signature) \in [repairs : Nat, consecutive : Nat, signatures : Seq(Signatures), flagged : BOOLEAN]
      /\ Recorded(s, signature).repairs = n + 1 /\ Recorded(s, signature).consecutive = streak
      /\ Recorded(s, signature).signatures = window
      /\ Recorded(s, signature).flagged => s.flagged \/ Looping(t)
  BY <1>4, <1>6, <1>7
<1> QED
  BY <1>1, <1>2, <1>3, <1>5, <1>8 DEF KeptSession

LEMMA NewSessionIsKept == KeptSession(NewSession, 0)
<1>1. <<>> \in Seq(Signatures) /\ Len(<<>>) = 0
  OBVIOUS
<1>2. NewSession.signatures = <<>> /\ NewSession.repairs = 0 /\ NewSession.consecutive = 0 /\ NewSession.flagged = FALSE
  BY DEF NewSession
<1>3. NewSession \in [repairs : Nat, consecutive : Nat, signatures : Seq(Signatures), flagged : BOOLEAN]
  BY <1>1 DEF NewSession
<1> QED
  BY <1>1, <1>2, <1>3 DEF KeptSession

LEMMA BeginKeepsLoopInv ==
  ASSUME LoopInv, NEW c \in Clients, BeginRequest(c)
  PROVE  LoopInv'
<1> USE SessionAssumption
<1>1. PICK k \in Keys, n \in 0..Len(access) :
        LET order == SubSeq(access, n + 1, Len(access))
            alive == Without(sessions, ToSet(SubSeq(access, 1, n)))
            full == k \notin DOMAIN alive /\ Cardinality(DOMAIN alive) >= MaxSessions
            spared == IF full THEN Without(alive, {Head(order)}) ELSE alive
            table == IF k \in DOMAIN spared THEN spared
                     ELSE [j \in DOMAIN spared \union {k} |-> IF j = k THEN NewSession ELSE spared[j]]
        IN  /\ sessions' = table
            /\ access' = Touched(IF full THEN Tail(order) ELSE order, k)
            /\ earned' = [j \in Keys |-> IF j \in DOMAIN spared THEN earned[j] ELSE 0]
  BY DEF BeginRequest
<1> DEFINE order == SubSeq(access, n + 1, Len(access))
           alive == Without(sessions, ToSet(SubSeq(access, 1, n)))
           full == k \notin DOMAIN alive /\ Cardinality(DOMAIN alive) >= MaxSessions
           spared == IF full THEN Without(alive, {Head(order)}) ELSE alive
           ranked == IF full THEN Tail(order) ELSE order
           table == IF k \in DOMAIN spared THEN spared
                    ELSE [j \in DOMAIN spared \union {k} |-> IF j = k THEN NewSession ELSE spared[j]]
<1>2. /\ sessions' = table /\ access' = Touched(ranked, k)
      /\ earned' = [j \in Keys |-> IF j \in DOMAIN spared THEN earned[j] ELSE 0]
  BY <1>1
<1>3. /\ access \in Seq(Keys) /\ IsInjective(access) /\ ToSet(access) = DOMAIN sessions
      /\ IsFiniteSet(DOMAIN sessions) /\ Cardinality(DOMAIN sessions) <= MaxSessions
      /\ earned \in [Keys -> Nat]
      /\ \A j \in DOMAIN sessions : KeptSession(sessions[j], earned[j])
  BY DEF LoopInv
<1>4. /\ order \in Seq(Keys) /\ IsInjective(order)
      /\ ToSet(order) = ToSet(access) \ ToSet(SubSeq(access, 1, n))
  BY <1>3, CutInTwo
<1>5. /\ DOMAIN alive = ToSet(order) /\ DOMAIN alive \subseteq DOMAIN sessions
      /\ \A j \in DOMAIN alive : alive[j] = sessions[j]
  BY <1>3, <1>4 DEF Without
<1>6. IsFiniteSet(DOMAIN alive) /\ Cardinality(DOMAIN alive) \in Nat /\ Cardinality(DOMAIN alive) <= MaxSessions
  <2>1. IsFiniteSet(DOMAIN alive) /\ Cardinality(DOMAIN alive) <= Cardinality(DOMAIN sessions)
    BY <1>3, <1>5, FS_Subset
  <2>2. Cardinality(DOMAIN alive) \in Nat /\ Cardinality(DOMAIN sessions) \in Nat
    BY <2>1, <1>3, FS_CardinalityType
  <2> HIDE DEF alive
  <2> QED
    BY <2>1, <2>2, <1>3
<1> HIDE DEF order, alive
<1>7. /\ ranked \in Seq(Keys) /\ IsInjective(ranked) /\ ToSet(ranked) = DOMAIN spared
      /\ DOMAIN spared \subseteq DOMAIN sessions
      /\ \A j \in DOMAIN spared : spared[j] = sessions[j]
      /\ IsFiniteSet(DOMAIN spared) /\ Cardinality(DOMAIN spared) \in Nat /\ Cardinality(DOMAIN spared) <= MaxSessions
      /\ k \notin DOMAIN spared => Cardinality(DOMAIN spared) < MaxSessions
  <2>1. CASE ~full
    <3>1. spared = alive /\ ranked = order
      BY <2>1
    <3>2. k \notin DOMAIN alive => Cardinality(DOMAIN alive) < MaxSessions
      BY <2>1, <1>6
    <3> HIDE DEF spared, ranked, full
    <3> QED
      BY <3>1, <3>2, <1>4, <1>5, <1>6
  <2>2. CASE full
    <3>1. spared = Without(alive, {Head(order)}) /\ ranked = Tail(order) /\ Cardinality(DOMAIN alive) >= MaxSessions
      BY <2>2
    <3>2. DOMAIN alive # {}
      BY <3>1, <1>6, FS_EmptySet
    <3>3. order # <<>>
      BY <3>2, <1>5 DEF ToSet
    <3> HIDE DEF spared, ranked, full
    <3>4. /\ ranked \in Seq(Keys) /\ IsInjective(ranked)
          /\ Head(order) \in DOMAIN alive /\ ToSet(ranked) = DOMAIN alive \ {Head(order)}
      BY <3>1, <3>3, <1>4, <1>5, BehindHead
    <3>5. DOMAIN spared = DOMAIN alive \ {Head(order)} /\ \A j \in DOMAIN spared : spared[j] = alive[j]
      BY <3>1 DEF Without
    <3>6. IsFiniteSet(DOMAIN spared) /\ Cardinality(DOMAIN spared) = Cardinality(DOMAIN alive) - 1
      BY <3>4, <3>5, <1>6, FS_RemoveElement
    <3>7. Cardinality(DOMAIN spared) \in Nat
      BY <3>6, FS_CardinalityType
    <3> QED
      BY <3>4, <3>5, <3>6, <3>7, <1>5, <1>6
  <2> QED
    BY <2>1, <2>2
<1> HIDE DEF spared, ranked, full
<1>8. /\ access' \in Seq(Keys) /\ IsInjective(access') /\ ToSet(access') = DOMAIN spared \cup {k}
  BY <1>2, <1>7, TouchedLast
<1>9. /\ DOMAIN sessions' = DOMAIN spared \cup {k}
      /\ \A j \in DOMAIN spared : sessions'[j] = sessions[j]
      /\ k \notin DOMAIN spared => sessions'[k] = NewSession
  BY <1>2, <1>7
<1> HIDE DEF table
<1>10. IsFiniteSet(DOMAIN sessions') /\ Cardinality(DOMAIN sessions') <= MaxSessions
  <2>1. /\ IsFiniteSet(DOMAIN spared \cup {k})
        /\ Cardinality(DOMAIN spared \cup {k}) =
             IF k \in DOMAIN spared THEN Cardinality(DOMAIN spared) ELSE Cardinality(DOMAIN spared) + 1
    BY <1>7, FS_AddElement
  <2>2. Cardinality(DOMAIN spared \cup {k}) <= MaxSessions
    BY <2>1, <1>7
  <2> QED
    BY <2>1, <2>2, <1>9
<1>11. earned' \in [Keys -> Nat] /\ \A j \in Keys : earned'[j] = IF j \in DOMAIN spared THEN earned[j] ELSE 0
  BY <1>2, <1>3
<1>12. ASSUME NEW j \in DOMAIN sessions' PROVE KeptSession(sessions'[j], earned'[j])
  <2>1. j \in Keys
    <3>1. DOMAIN spared \subseteq Keys
      BY <1>3, <1>7 DEF ToSet
    <3> QED
      BY <3>1, <1>9
  <2>2. CASE j \in DOMAIN spared
    BY <2>1, <2>2, <1>3, <1>7, <1>9, <1>11
  <2>3. CASE j \notin DOMAIN spared
    <3>1. j = k /\ sessions'[j] = NewSession /\ earned'[j] = 0
      BY <2>1, <2>3, <1>9, <1>11
    <3> QED
      BY <3>1, NewSessionIsKept
  <2> QED
    BY <2>2, <2>3
<1> QED
  BY <1>8, <1>9, <1>10, <1>11, <1>12 DEF LoopInv

LEMMA LoopInvStep == LoopInv /\ [LoopNext]_loopVars => LoopInv'
<1> SUFFICES ASSUME LoopInv, [LoopNext]_loopVars PROVE LoopInv'
  OBVIOUS
<1>1. ASSUME UNCHANGED <<sessions, access, earned>> PROVE LoopInv'
  BY <1>1 DEF LoopInv, IsInjective, ToSet, KeptSession
<1>2. ASSUME NEW c \in Clients, RecordRepair(c) PROVE LoopInv'
  <2> DEFINE k == client[c]
  <2>1. CASE UNCHANGED <<sessions, access, earned>>
    BY <2>1, <1>1
  <2>2. ASSUME k \in DOMAIN sessions, NEW signature \in Signatures,
               sessions' = [sessions EXCEPT ![k] = Recorded(@, signature)],
               earned' = [earned EXCEPT ![k] = @ + 1], access' = access
        PROVE  LoopInv'
    <3>1. k \in Keys /\ earned[k] \in Nat /\ DOMAIN sessions' = DOMAIN sessions
      <4>1. ToSet(access) \subseteq Keys
        BY DEF LoopInv, ToSet
      <4> QED
        BY <4>1, <2>2 DEF LoopInv
    <3>2. KeptSession(sessions'[k], earned'[k])
      <4>1. sessions'[k] = Recorded(sessions[k], signature) /\ earned'[k] = earned[k] + 1
        BY <2>2, <3>1 DEF LoopInv
      <4>2. KeptSession(sessions[k], earned[k])
        BY <2>2 DEF LoopInv
      <4> HIDE DEF k
      <4>3. KeptSession(Recorded(sessions[k], signature), earned[k] + 1)
        BY <4>2, <3>1, RecordedIsKept
      <4> QED
        BY <4>1, <4>3
    <3>3. \A j \in DOMAIN sessions : j # k => sessions'[j] = sessions[j] /\ earned'[j] = earned[j]
      <4>1. DOMAIN sessions \subseteq Keys
        BY DEF LoopInv, ToSet
      <4> QED
        BY <4>1, <2>2, <3>1 DEF LoopInv
    <3>4. earned' \in [Keys -> Nat]
      BY <2>2, <3>1 DEF LoopInv
    <3> HIDE DEF k
    <3>5. ASSUME NEW j \in DOMAIN sessions' PROVE KeptSession(sessions'[j], earned'[j])
      <4>1. CASE j = k
        BY <4>1, <3>2
      <4>2. CASE j # k
        BY <4>2, <3>1, <3>3 DEF LoopInv
      <4> QED
        BY <4>1, <4>2
    <3> QED
      BY <2>2, <3>1, <3>4, <3>5 DEF LoopInv
  <2> QED
    BY <1>2, <2>1, <2>2 DEF RecordRepair
<1> QED
  BY <1>1, <1>2, BeginKeepsLoopInv DEF LoopNext, EndRequest, loopVars

LEMMA LoopInvSound == LoopInv => SessionsSound
BY DEF LoopInv, SessionsSound, KeptSession

-----------------------------------------------------------------------------
(* The types of the services' states, where they bound what is counted. *)

\* No session records more repairs than are counted, or keeps more signatures
\* than the detector looks at.
Bounded(s) == s.repairs <= MaxRepairs /\ Len(s.signatures) <= Recent
LoopFits ==
  /\ \A k \in DOMAIN sessions : Bounded(sessions[k])
  /\ client \in [Clients -> Keys \union {"idle"}]

LEMMA LoopFitsInit == LoopInit => LoopFits
BY DEF LoopInit, LoopFits

LEMMA NewSessionIsBounded == Bounded(NewSession)
BY SessionAssumption DEF Bounded, NewSession, Recent

LEMMA RecordedIsBounded ==
  ASSUME NEW s, NEW n \in Nat, KeptSession(s, n), Bounded(s), n < MaxRepairs, NEW signature \in Signatures
  PROVE  Bounded(Recorded(s, signature))
<1>1. PICK r : r = Recorded(s, signature)
  OBVIOUS
<1>2. PICK all : all = Append(s.signatures, signature)
  OBVIOUS
<1>3. s.signatures \in Seq(Signatures) /\ Len(s.signatures) \in Nat /\ Len(s.signatures) <= Recent
  BY DEF KeptSession, Bounded
<1>4. all \in Seq(Signatures) /\ Len(all) = Len(s.signatures) + 1
  BY <1>2, <1>3
<1>5. r.signatures = IF Len(all) > Recent THEN Tail(all) ELSE all
  BY <1>1, <1>2 DEF Recorded, KeptSession
<1>6. Len(r.signatures) <= Recent
  <2>1. CASE Len(all) > Recent
    <3>1. all # <<>>
      BY <1>3, <1>4
    <3>2. Len(Tail(all)) = Len(all) - 1
      BY <1>4, <3>1
    <3> QED
      BY <2>1, <3>2, <1>3, <1>4, <1>5
  <2>2. CASE ~(Len(all) > Recent)
    BY <2>2, <1>3, <1>4, <1>5 DEF Recent
  <2> QED
    BY <2>1, <2>2
<1>7. KeptSession(r, n + 1)
  BY <1>1, RecordedIsKept
<1>8. r.repairs = n + 1
  BY <1>7 DEF KeptSession
<1> QED
  BY <1>1, <1>6, <1>8, SessionAssumption DEF Bounded

LEMMA LoopFitsStep == LoopInv /\ LoopFits /\ [LoopNext]_loopVars => LoopFits'
<1> SUFFICES ASSUME LoopInv, LoopFits, [LoopNext]_loopVars PROVE LoopFits'
  OBVIOUS
<1>1. ASSUME NEW c \in Clients, BeginRequest(c) PROVE LoopFits'
  <2>1. PICK k \in Keys, n \in 0..Len(access) :
          LET order == SubSeq(access, n + 1, Len(access))
              alive == Without(sessions, ToSet(SubSeq(access, 1, n)))
              full == k \notin DOMAIN alive /\ Cardinality(DOMAIN alive) >= MaxSessions
              spared == IF full THEN Without(alive, {Head(order)}) ELSE alive
              table == IF k \in DOMAIN spared THEN spared
                       ELSE [j \in DOMAIN spared \union {k} |-> IF j = k THEN NewSession ELSE spared[j]]
          IN  /\ sessions' = table
              /\ access' = Touched(IF full THEN Tail(order) ELSE order, k)
              /\ client' = [client EXCEPT ![c] = IF table[k].flagged THEN "idle" ELSE k]
              /\ earned' = [j \in Keys |-> IF j \in DOMAIN spared THEN earned[j] ELSE 0]
    BY <1>1, Zenon DEF BeginRequest
  <2> DEFINE alive == Without(sessions, ToSet(SubSeq(access, 1, n)))
             full == k \notin DOMAIN alive /\ Cardinality(DOMAIN alive) >= MaxSessions
             spared == IF full THEN Without(alive, {Head(SubSeq(access, n + 1, Len(access)))}) ELSE alive
             table == IF k \in DOMAIN spared THEN spared
                      ELSE [j \in DOMAIN spared \union {k} |-> IF j = k THEN NewSession ELSE spared[j]]
  <2>2. sessions' = table /\ client' = [client EXCEPT ![c] = IF table[k].flagged THEN "idle" ELSE k]
    BY <2>1
  <2>3. client' \in [Clients -> Keys \union {"idle"}]
    <3> HIDE DEF table
    <3> QED
      BY <2>2 DEF LoopFits
  <2>4. \A j \in DOMAIN alive : j \in DOMAIN sessions /\ alive[j] = sessions[j]
    BY DEF Without
  <2>5. \A j \in DOMAIN spared : j \in DOMAIN sessions /\ spared[j] = sessions[j]
    <3> HIDE DEF alive, full
    <3> QED
      BY <2>4 DEF Without
  <2>6. ASSUME NEW j \in DOMAIN sessions' PROVE Bounded(sessions'[j])
    <3>1. sessions'[j] = NewSession \/ \E i \in DOMAIN sessions : sessions'[j] = sessions[i]
      <4> HIDE DEF spared
      <4> QED
        BY <2>2, <2>5
    <3> HIDE DEF table
    <3> QED
      BY <3>1, NewSessionIsBounded DEF LoopFits
  <2> HIDE DEF table
  <2>7. LoopFits' <=> /\ \A j \in DOMAIN sessions' : Bounded(sessions'[j])
                      /\ client' \in [Clients -> Keys \union {"idle"}]
    BY DEF LoopFits, Bounded
  <2> QED
    BY <2>3, <2>6, <2>7
<1>2. ASSUME sessions' = sessions, client' \in [Clients -> Keys \union {"idle"}] PROVE LoopFits'
  BY <1>2 DEF LoopFits, Bounded
<1>3. ASSUME NEW c \in Clients, RecordRepair(c) PROVE LoopFits'
  <2>1. client' = client /\ client \in [Clients -> Keys \union {"idle"}]
    BY <1>3 DEF RecordRepair, LoopFits
  <2>2. PICK k : k = client[c]
    OBVIOUS
  <2>3. \/ sessions' = sessions
        \/ /\ k \in DOMAIN sessions /\ sessions[k].repairs < MaxRepairs
           /\ \E signature \in Signatures : sessions' = [sessions EXCEPT ![k] = Recorded(@, signature)]
    BY <1>3, <2>2 DEF RecordRepair
  <2>4. ASSUME k \in DOMAIN sessions, sessions[k].repairs < MaxRepairs, NEW signature \in Signatures,
               sessions' = [sessions EXCEPT ![k] = Recorded(@, signature)]
        PROVE  LoopFits'
    <3>1. k \in Keys /\ earned[k] \in Nat
      BY <2>4 DEF LoopInv, ToSet
    <3>2. KeptSession(sessions[k], earned[k]) /\ sessions[k].repairs = earned[k] /\ Bounded(sessions[k])
      BY <2>4 DEF LoopInv, LoopFits, KeptSession
    <3>3. PICK s, n : s = sessions[k] /\ n = earned[k]
      OBVIOUS
    <3>4. Bounded(Recorded(s, signature))
      BY <3>1, <3>2, <3>3, <2>4, RecordedIsBounded
    <3>5. PICK r : r = Recorded(s, signature)
      OBVIOUS
    <3>6. sessions' = [sessions EXCEPT ![k] = r] /\ DOMAIN sessions' = DOMAIN sessions
      BY <2>4, <3>3, <3>5
    <3>7. ASSUME NEW j \in DOMAIN sessions' PROVE Bounded(sessions'[j])
      <4>1. sessions'[j] = IF j = k THEN r ELSE sessions[j]
        BY <3>6
      <4>2. CASE j = k
        BY <4>1, <4>2, <3>4, <3>5
      <4>3. CASE j # k
        BY <4>1, <4>3, <3>6 DEF LoopFits
      <4> QED
        BY <4>2, <4>3
    <3>8. LoopFits' <=> /\ \A j \in DOMAIN sessions' : Bounded(sessions'[j])
                        /\ client' \in [Clients -> Keys \union {"idle"}]
      BY DEF LoopFits, Bounded
    <3> QED
      BY <2>1, <3>7, <3>8
  <2> QED
    BY <2>1, <2>3, <2>4, <1>2
<1>4. ASSUME NEW c \in Clients, EndRequest(c) PROVE LoopFits'
  BY <1>2, <1>4 DEF EndRequest, LoopFits
<1>5. CASE UNCHANGED loopVars
  BY <1>2, <1>5 DEF loopVars, LoopFits
<1> QED
  BY <1>1, <1>3, <1>4, <1>5 DEF LoopNext

LEMMA LoopIsTyped ==
  ASSUME LoopInv, LoopFits
  PROVE  LoopTypeOK
<1>1. DOMAIN sessions \subseteq Keys
  BY DEF LoopInv, ToSet
<1>2. ASSUME NEW k \in DOMAIN sessions
      PROVE  /\ sessions[k].repairs \in 0..MaxRepairs /\ sessions[k].consecutive \in 0..MaxRepairs
             /\ sessions[k].signatures \in BoundedSeq(Signatures, Recent)
             /\ sessions[k].flagged \in BOOLEAN
  <2>1. PICK s, n : s = sessions[k] /\ n = earned[k]
    OBVIOUS
  <2>2. KeptSession(s, n) /\ Bounded(s)
    BY <2>1 DEF LoopInv, LoopFits
  <2>3. /\ s.repairs \in 0..MaxRepairs /\ s.consecutive \in 0..MaxRepairs /\ s.flagged \in BOOLEAN
        /\ s.signatures \in Seq(Signatures) /\ Len(s.signatures) <= Recent
    BY <2>2, SessionAssumption DEF KeptSession, Bounded
  <2>4. PICK q \in Seq(Signatures) : q = s.signatures
    BY <2>3
  <2>5. PICK m \in Nat : m = Len(q) /\ m \in 0 .. Recent
    BY <2>3, <2>4 DEF Recent
  <2>7. q \in [1 .. m -> Signatures]
    BY <2>5
  <2>6. q \in BoundedSeq(Signatures, Recent)
    BY <2>5, <2>7 DEF BoundedSeq, SeqOf
  <2> QED
    BY <2>1, <2>3, <2>4, <2>6
<1> QED
  BY <1>1, <1>2 DEF LoopTypeOK, LoopInv, LoopFits

\* Of the files read so far no more are in the index than there were.
IndexFits == Len(index) <= ReadOf

LEMMA IndexFitsInit == ProfilesInit => IndexFits
<1> SUFFICES ASSUME ProfilesInit PROVE IndexFits
  OBVIOUS
<1>1. library \in Libraries /\ index = <<>> /\ files = Tiered(library)
  BY DEF ProfilesInit
<1>2. PICK t : t = Tiered(library)
  OBVIOUS
<1>3. Len(t) \in Nat
  BY <1>1, <1>2, TieredAt
<1> QED
  BY <1>1, <1>2, <1>3 DEF IndexFits, ReadOf

LEMMA PlacedIsOneMore ==
  ASSUME index \in Seq(Rated), NEW e \in Rated
  PROVE  Len(Placed(e)) = Len(index) + 1
<1>1. PICK n \in Nat : n = Len(index) /\ DOMAIN index = 1 .. n
  OBVIOUS
<1>2. PICK D : D = {i \in DOMAIN index : NotBelow(index[i], e)}
  OBVIOUS
<1>3. D \subseteq 1 .. n
  BY <1>1, <1>2
<1>4. IsFiniteSet(1 .. n) /\ Cardinality(1 .. n) = n
  <2>1. 1 \in Int /\ n \in Int
    BY <1>1
  <2>2. IsFiniteSet(1 .. n) /\ Cardinality(1 .. n) = IF 1 > n THEN 0 ELSE n - 1 + 1
    BY <2>1, FS_Interval
  <2> QED
    BY <2>2, <1>1
<1>5. IsFiniteSet(D) /\ Cardinality(D) <= n
  BY <1>3, <1>4, FS_Subset
<1>6. Cardinality(D) \in Nat
  BY <1>5, FS_CardinalityType
<1>7. PICK d : d = Cardinality(D) + 1
  OBVIOUS
<1>8. d \in 1 .. Len(index) + 1
  BY <1>1, <1>5, <1>6, <1>7
<1>9. Placed(e) = InsertAt(index, d, e)
  BY <1>2, <1>7 DEF Placed
<1>10. PICK r : r = InsertAt(index, d, e)
  OBVIOUS
<1>11. Len(r) = Len(index) + 1
  BY <1>8, <1>10, InsertedAt
<1> QED
  BY <1>9, <1>10, <1>11

LEMMA IndexFitsStep == ProfileInv /\ IndexFits /\ [ProfilesNext]_profileVars => IndexFits'
<1> SUFFICES ASSUME ProfileInv, IndexFits, [ProfilesNext]_profileVars PROVE IndexFits'
  OBVIOUS
<1>1. CASE LoadFile
  <2>1. PICK t : t = Tiered(library)
    OBVIOUS
  <2>2. PICK g : g = ReadOf
    OBVIOUS
  <2>3. /\ g + 1 \in DOMAIN t /\ ReadOf' = g + 1 /\ g \in 0 .. Len(t)
        /\ index' = IF FirstAt(t, g + 1) THEN Placed(EntryAt(t, g + 1)) ELSE index
    BY <1>1, <2>1, <2>2, LoadFileReads
  <2>4. library \in Libraries /\ index \in Seq(Rated) /\ Len(index) \in Nat /\ Len(index) <= g
    BY <2>2 DEF ProfileInv, IndexFits
  <2>5. PICK e : e = EntryAt(t, g + 1)
    OBVIOUS
  <2>6. PICK i \in DOMAIN t : i = g + 1
    BY <2>3
  <2>7. e \in Rated
    BY <2>1, <2>4, <2>5, <2>6, FileAt
  <2>8. Len(Placed(e)) = Len(index) + 1
    BY <2>4, <2>7, PlacedIsOneMore
  <2>9. Len(index') <= g + 1
    <3>1. index' = index \/ index' = Placed(e)
      BY <2>3, <2>5
    <3> QED
      BY <3>1, <2>3, <2>4, <2>8
  <2> QED
    BY <2>3, <2>9 DEF IndexFits
<1>2. CASE ResolveProfile \/ UNCHANGED profileVars
  <2>1. UNCHANGED <<library, files, index>>
    BY <1>2 DEF ResolveProfile, profileVars
  <2>2. ReadOf' = ReadOf
    BY <2>1 DEF ReadOf, Tiered
  <2> QED
    BY <2>1, <2>2 DEF IndexFits
<1> QED
  BY <1>1, <1>2 DEF ProfilesNext

LEMMA ProfilesAreTyped ==
  ASSUME ProfileInv, IndexFits
  PROVE  ProfilesTypeOK
<1>1. PICK t : t = Tiered(library)
  OBVIOUS
<1>2. PICK g : g = ReadOf
  OBVIOUS
<1>3. /\ library \in Libraries /\ files \in Seq(ToSet(t)) /\ Len(files) \in Nat /\ Len(files) <= Len(t)
      /\ index \in Seq(Rated) /\ Len(index) \in Nat /\ Len(index) <= g /\ Indexed(index, t, g)
  BY <1>1, <1>2 DEF ProfileInv, IndexFits
<1>4. Len(t) \in Nat /\ DOMAIN t = 1 .. Len(t) /\ g = Len(t) - Len(files)
  <2>1. t \in Seq(ToSet(t))
    BY <1>1, <1>3, TieredAt
  <2> QED
    BY <2>1, <1>1, <1>2 DEF ReadOf
<1>5. Len(files) + Len(index) <= Len(t)
  BY <1>3, <1>4
<1>6. ASSUME NEW k \in DOMAIN index PROVE index[k].tier \in DOMAIN library
  <2>1. PICK i \in 1 .. g : index[k] = EntryAt(t, i)
    BY <1>3 DEF Indexed
  <2>2. i \in DOMAIN t
    BY <1>3, <1>4
  <2>3. index[k].tier \in Tiers
    BY <2>1, <2>2, <1>1, <1>3, FileAt
  <2> QED
    BY <2>3, <1>3, ProfilesAssumption DEF Tiers
<1> QED
  BY <1>1, <1>5, <1>6 DEF ProfilesTypeOK, ProfileInv

LEMMA ServerIsTyped == ServerInv => ServerTypeOK
BY DEF ServerInv, ServerTyped, ServerTypeOK, Statuses, Told

LEMMA ExtractionIsTyped == ExtractInv => ExtractionTypeOK
BY DEF ExtractInv, ReadingTypeOK, ReadingOrder, FindingClean, Clean, ExtractionTypeOK

-----------------------------------------------------------------------------
(* The services together: a step of one leaves the variables of the others. *)

LEMMA OneAtWork ==
  ASSUME [ServicesNext]_servicesVars
  PROVE  /\ [ControllerNext]_controllerVars /\ [RepairNext]_repairVars
         /\ [PreparationNext]_prepVars /\ [ProfilesNext]_profileVars
         /\ [ExtractionNext]_extractionVars /\ [LoopNext]_loopVars
         /\ [ServerNext]_serverVars
         /\ [ReadinessNext]_readinessVars
         /\ [QueueNext]_queueVars /\ [RecordNext]_recordVars
         /\ [QualificationNext]_qualificationVars
BY DEF ServicesNext, servicesVars, evidenceVars

\* A flagged session was flagged by what it did itself in its present life, no
\* more of them are kept than allowed, and the turns of a controlled attempt
\* alternate, however requests, evictions and attempts overlap (session.py,
\* controller/attempt.py).
THEOREM SessionsAreHonest == ServicesSpec => []SessionsHonest
<1> DEFINE Inv == LoopInv /\ ControllerInv
<1>1. ServicesInit => Inv
  BY LoopInvInit, ControllerInvInit DEF ServicesInit
<1>2. Inv /\ [ServicesNext]_servicesVars => Inv'
  BY OneAtWork, LoopInvStep, ControllerInvStep
<1>3. Inv => SessionsHonest
  BY LoopInvSound DEF ControllerInv, SessionsHonest
<1> QED
  BY <1>1, <1>2, <1>3, PTL DEF ServicesSpec

\* Every repair event is in one place until it has its end, a reader's flush
\* waits for all it began with, and a compatibility record's counters fit
\* together however its writers overlap: for any numbers of events and any
\* processes, across close and a full queue (evidence/store.py, recorder.py).
THEOREM EvidenceIsHonest == ServicesSpec => []EvidenceSound
<1> DEFINE Inv == QueueInv /\ RecordInv
<1>1. ServicesInit => Inv
  BY QueueInvInit, RecordInvInit DEF ServicesInit
<1>2. Inv /\ [ServicesNext]_servicesVars => Inv'
  BY OneAtWork, QueueInvStep, RecordInvStep
<1>3. Inv => EvidenceSound
  BY EvidenceIsSound
<1> QED
  BY <1>1, <1>2, <1>3, PTL DEF ServicesSpec

\* No record of a model claims what was not established in stages, and while
\* no evidence is lost no probe is paid for twice, whatever requests, API calls
\* and restarts overlap: for any worlds and any tasks (qualification/).
THEOREM QualificationIsSound == ServicesSpec => []QualificationSound
<1>1. ServicesInit => QualInv
  BY QualInvInit DEF ServicesInit
<1>2. QualInv /\ [ServicesNext]_servicesVars => QualInv'
  BY OneAtWork, QualInvStep
<1>3. QualInv => QualificationSound
  BY QualInvSound
<1> QED
  BY <1>1, <1>2, <1>3, PTL DEF ServicesSpec

\* An authenticated body within its limit, an answer that says what happened,
\* a readiness that was really probed: in every reachable state, for any
\* limits, routes and overlapping checks (server/app.py, readiness/).
THEOREM FrontDoorIsSound == ServicesSpec => []FrontDoorSound
<1> DEFINE Inv == ServerInv /\ ReadinessInv
<1>1. ServicesInit => Inv
  BY ServerInvInit, ReadinessInvInit DEF ServicesInit
<1>2. Inv /\ [ServicesNext]_servicesVars => Inv'
  BY OneAtWork, ServerInvStep, ReadinessInvStep
<1>3. Inv => FrontDoorSound
  BY ReadinessInvSound DEF ServerInv, FrontDoorSound, ServerSound
<1> QED
  BY <1>1, <1>2, <1>3, PTL DEF ServicesSpec

\* Each piece of what a model wrote becomes one call at most and none that
\* stays text, fenced only as the whole message; no call is trusted further than
\* plan and nonce allow, none of the backend's is lost or doubled; and a call
\* that is accepted still says what the model said, under names its aliases lead
\* to, for the one declared tool that fits its name: for any texts, plans, tools,
\* schemas, aliases and rules, however many mendings there are (extraction.py,
\* gateway.py:2385, repair/pipeline.py, repair/rules.py).
THEOREM ToolOutputIsSound == ServicesSpec => []ToolOutputSound
<1> DEFINE Inv == NameInv /\ ArgumentInv /\ ExtractInv
<1>1. ServicesInit => Inv
  BY NameInvInit, ArgumentInvInit, ExtractInvInit DEF ServicesInit
<1>2. Inv /\ [ServicesNext]_servicesVars => Inv'
  BY OneAtWork, NameInvStep, ArgumentInvStep, ExtractInvStep
<1>3. Inv => ToolOutputSound
  BY RepairInvSound, ExtractInvSound DEF ToolOutputSound
<1> QED
  BY <1>1, <1>2, <1>3, PTL DEF ServicesSpec

\* An id has the entry of its highest tier, an operator's file is heard, a model
\* nothing is known of is not trusted; and what a generation is sent is the
\* client's own declarations and what this request enabled, in one form, of a
\* size that fits: for any files, records, tools, costs, routes and models
\* (model/profiles_v2.py, registry.py; gateway.py, planning/, tool_surface/).
THEOREM PlanIsSound == ServicesSpec => []PlanSound
<1> DEFINE Inv == ProfileInv /\ PrepInv
<1>1. ServicesInit => Inv
  BY ProfileInvInit, PrepInvInit DEF ServicesInit
<1>2. Inv /\ [ServicesNext]_servicesVars => Inv'
  BY OneAtWork, ProfileInvStep, PrepInvStep
<1>3. Inv => PlanSound
  BY ProfileInvSound, PrepInvSound DEF PlanSound
<1> QED
  BY <1>1, <1>2, <1>3, PTL DEF ServicesSpec

\* The state of every service has its type: no counter passes its bound, no
\* queue, window, index or table outgrows what it is allowed, whatever calls,
\* writers, evictions and restarts overlap (evidence/, qualification/,
\* session.py, controller/, server/app.py, readiness/, repair/, extraction.py,
\* model/, gateway.py).
THEOREM ServicesTypeCorrect == ServicesSpec => []ServicesTypeOK
<1> DEFINE Established == /\ QueueInv /\ RecordInv /\ QualInv /\ LoopInv /\ ControllerInv /\ ServerInv
                   /\ ReadinessInv /\ ArgumentInv /\ ExtractInv /\ ProfileInv /\ PrepInv
           InBounds == QueueFits /\ SamplesFit /\ FlagsTyped /\ QualFits /\ LoopFits /\ IndexFits
           Inv == Established /\ InBounds
<1>1. ServicesInit => Inv
  <2>1. ServicesInit => Established
    BY QueueInvInit, RecordInvInit, QualInvInit, LoopInvInit, ControllerInvInit, ServerInvInit,
       ReadinessInvInit, ArgumentInvInit, ExtractInvInit, ProfileInvInit, PrepInvInit DEF ServicesInit
  <2>2. ServicesInit => InBounds
    BY QueueFitsInit, SamplesFitInit, FlagsTypedInit, QualFitsInit, LoopFitsInit, IndexFitsInit DEF ServicesInit
  <2> QED
    BY <2>1, <2>2
<1>2. Inv /\ [ServicesNext]_servicesVars => Inv'
  <2> SUFFICES ASSUME Inv, [ServicesNext]_servicesVars PROVE Inv'
    OBVIOUS
  <2>1. /\ [ControllerNext]_controllerVars /\ [RepairNext]_repairVars
        /\ [PreparationNext]_prepVars /\ [ProfilesNext]_profileVars
        /\ [ExtractionNext]_extractionVars /\ [LoopNext]_loopVars
        /\ [ServerNext]_serverVars /\ [ReadinessNext]_readinessVars
        /\ [QueueNext]_queueVars /\ [RecordNext]_recordVars
        /\ [QualificationNext]_qualificationVars
    BY OneAtWork
  <2>2. Established'
    BY <2>1, QueueInvStep, RecordInvStep, QualInvStep, LoopInvStep, ControllerInvStep, ServerInvStep,
       ReadinessInvStep, ArgumentInvStep, ExtractInvStep, ProfileInvStep, PrepInvStep
  <2>3. InBounds'
    BY <2>1, QueueFitsStep, SamplesFitStep, FlagsTypedStep, QualFitsStep, LoopFitsStep, IndexFitsStep
  <2> QED
    BY <2>2, <2>3
<1>3. Inv => ServicesTypeOK
  <2> SUFFICES ASSUME Inv PROVE ServicesTypeOK
    OBVIOUS
  <2>1. EvidenceTypeOK
    BY EvidenceIsTyped DEF FlagsTyped
  <2>2. QualificationTypeOK /\ LoopTypeOK /\ ProfilesTypeOK /\ ServerTypeOK /\ ExtractionTypeOK
    BY QualificationIsTyped, LoopIsTyped, ProfilesAreTyped, ServerIsTyped, ExtractionIsTyped
  <2>3. ControllerTypeOK /\ ReadinessTypeOK
    BY Zenon DEF ControllerInv, ReadinessInv
  <2>4. RepairTypeOK
    BY DEF ArgumentInv
  <2>5. PrepTypeOK
    BY DEF PrepInv
  <2> QED
    BY <2>1, <2>2, <2>3, <2>4, <2>5 DEF ServicesTypeOK
<1> QED
  BY <1>1, <1>2, <1>3, PTL DEF ServicesSpec

=============================================================================
