--------------------------- MODULE EvidenceProofs ---------------------------
(***************************************************************************)
(* What is remembered about a model.  The evidence store loses and doubles *)
(* nothing that matters: every row has one place while it is under way,    *)
(* the queue's count of unfinished rows is never short of the rows under   *)
(* way, and a compatibility record keeps counters that fit together        *)
(* through every copy of it.  The evidence of the bootstrap probes is      *)
(* gathered in stages and, between requests, once: for any number of       *)
(* models, templates and requests, with a store of any size, whatever is   *)
(* repointed, restarted or evicted.                                        *)
(***************************************************************************)
EXTENDS EvidenceStore, Qualification, FiniteSetTheorems, TLAPS

-----------------------------------------------------------------------------
(* The queue. *)

Done == {"saved", "failed", "dropped", "lost"}
Items == Rows \cup {0}
Has(taker, r) == taker.at = "has" /\ taker.row = r
One(taker) == IF taker.at = "has" THEN 1 ELSE 0

QueueTyped ==
  /\ rows \in [Rows -> Fates] /\ queue \in Seq(Items) /\ unfinished \in Nat
  /\ worker \in [at : {"off", "get", "has"}, row : Items]
  /\ reader \in [at : {"idle", "drain", "has", "join", "seen"}, row : Items, before : SUBSET Rows]
  /\ closer \in [at : {"idle", "drain", "has", "stop", "wake", "join"}, row : Items]

\* A queued row is in the queue, at one place.
QueuedOnce ==
  /\ \A r \in Rows : rows[r] = "queued" <=> \E i \in DOMAIN queue : queue[i] = r
  /\ \A i, j \in DOMAIN queue : (queue[i] = queue[j] /\ queue[i] # 0) => i = j

\* A held row is in the hands of one thread.
HeldOnce ==
  \A r \in Rows :
    /\ rows[r] = "held" <=> Has(worker, r) \/ Has(reader, r) \/ Has(closer, r)
    /\ ~(Has(worker, r) /\ Has(reader, r))
    /\ ~(Has(worker, r) /\ Has(closer, r))
    /\ ~(Has(reader, r) /\ Has(closer, r))

\* The queue's own count is not short of what is under way.  It may be long:
\* what close takes is never marked done.
CountCovers == unfinished >= Len(queue) + One(worker) + One(reader) + One(closer)

\* Without write-behind nothing waits and nobody but a reader works.
OffIsQuiet == ~installed => queue = <<>> /\ worker.at = "off" /\ closer.at = "idle"

\* What the reader began with has been accepted, and is dealt with when the
\* reader has seen it.
ReaderKnows ==
  \A r \in reader.before : rows[r] # "none" /\ (reader.at = "seen" => rows[r] \in Done)

QueueInv ==
  /\ QueueTyped /\ QueuedOnce /\ HeldOnce /\ CountCovers /\ OffIsQuiet /\ ReaderKnows

LEMMA ZeroIsNoRow == 0 \notin Rows /\ 0 \in Items /\ \A r \in Rows : r \in Items /\ r # 0
BY DEF Rows, Items

LEMMA QueueInvInit == EvidenceInit => QueueInv
<1> SUFFICES ASSUME EvidenceInit PROVE QueueInv
  OBVIOUS
<1>1. QueueTyped
  BY ZeroIsNoRow DEF EvidenceInit, QueueTyped, Idle, Fates
<1>2. QueuedOnce /\ HeldOnce /\ CountCovers /\ OffIsQuiet /\ ReaderKnows
  BY DEF EvidenceInit, QueuedOnce, HeldOnce, CountCovers, OffIsQuiet, ReaderKnows, Idle, Has, One
<1> QED
  BY <1>1, <1>2 DEF QueueInv

\* Whoever takes the head of the queue holds it.
LEMMA Takes ==
  ASSUME QueueInv, queue # <<>>, queue' = Tail(queue), Hold
  PROVE  /\ rows' \in [Rows -> Fates] /\ queue' \in Seq(Items)
         /\ Len(queue) \in Nat /\ Len(queue') = Len(queue) - 1
         /\ Head(queue) \in Items
         /\ QueuedOnce'
         /\ \A r \in Rows : rows'[r] = IF r = Head(queue) THEN "held" ELSE rows[r]
         /\ \A r \in Rows : r = Head(queue) => rows[r] = "queued"
<1>1. /\ rows \in [Rows -> Fates] /\ queue \in Seq(Items) /\ QueuedOnce
  BY DEF QueueInv, QueueTyped
<1>2. /\ Len(queue) \in Nat /\ Len(queue) >= 1 /\ DOMAIN queue = 1..Len(queue) /\ Head(queue) = queue[1]
      /\ queue' \in Seq(Items) /\ Len(queue') = Len(queue) - 1 /\ DOMAIN queue' = 1..(Len(queue) - 1)
      /\ \A i \in 1..(Len(queue) - 1) : queue'[i] = queue[i + 1]
      /\ Head(queue) \in Items /\ 1 \in DOMAIN queue
  BY <1>1
<1>3. \A r \in Rows : rows'[r] = IF r = Head(queue) THEN "held" ELSE rows[r]
  BY <1>1, ZeroIsNoRow DEF Hold
<1>4. rows' \in [Rows -> Fates]
  BY <1>1, ZeroIsNoRow DEF Hold, Fates
<1>5. \A r \in Rows : r = Head(queue) => rows[r] = "queued"
  BY <1>1, <1>2 DEF QueuedOnce
<1>6. \A i, j \in DOMAIN queue' : (queue'[i] = queue'[j] /\ queue'[i] # 0) => i = j
  <2> SUFFICES ASSUME NEW i \in 1..(Len(queue) - 1), NEW j \in 1..(Len(queue) - 1),
                      queue'[i] = queue'[j], queue'[i] # 0
               PROVE  i = j
    BY <1>2
  <2>1. i + 1 \in DOMAIN queue /\ j + 1 \in DOMAIN queue /\ queue[i + 1] = queue[j + 1] /\ queue[i + 1] # 0
    BY <1>2
  <2>2. i + 1 = j + 1
    BY <2>1, <1>1 DEF QueuedOnce
  <2> QED
    BY <2>2
<1>7. ASSUME NEW r \in Rows PROVE rows'[r] = "queued" <=> \E i \in DOMAIN queue' : queue'[i] = r
  <2>1. CASE r = Head(queue)
    <3>1. ASSUME NEW i \in DOMAIN queue', queue'[i] = r PROVE FALSE
      <4>1. i + 1 \in DOMAIN queue /\ queue[i + 1] = queue[1] /\ queue[i + 1] # 0 /\ i + 1 # 1
        BY <3>1, <2>1, <1>2, ZeroIsNoRow
      <4> QED
        BY <4>1, <1>1, <1>2 DEF QueuedOnce
    <3> QED
      BY <3>1, <2>1, <1>3
  <2>2. CASE r # Head(queue)
    <3>1. ASSUME NEW i \in DOMAIN queue, queue[i] = r PROVE \E j \in DOMAIN queue' : queue'[j] = r
      <4>1. i # 1
        BY <3>1, <2>2, <1>2
      <4>2. i - 1 \in DOMAIN queue' /\ (i - 1) + 1 = i
        BY <3>1, <4>1, <1>2
      <4> QED
        BY <4>2, <3>1, <1>2
    <3>2. ASSUME NEW j \in DOMAIN queue', queue'[j] = r PROVE \E i \in DOMAIN queue : queue[i] = r
      <4>1. j + 1 \in DOMAIN queue /\ queue[j + 1] = r
        BY <3>2, <1>2
      <4> QED
        BY <4>1
    <3> QED
      BY <3>1, <3>2, <2>2, <1>1, <1>3 DEF QueuedOnce
  <2> QED
    BY <2>1, <2>2
<1> QED
  BY <1>2, <1>3, <1>4, <1>5, <1>6, <1>7 DEF QueuedOnce

\* A row that is not queued is given its end.
LEMMA Settles ==
  ASSUME QueueInv, NEW x \in Items, x \in Rows => rows[x] # "queued", NEW fate \in Done,
         rows' = [rows EXCEPT ![x] = fate], queue' = queue
  PROVE  /\ rows' \in [Rows -> Fates] /\ QueuedOnce'
         /\ \A r \in Rows : rows'[r] = IF r = x THEN fate ELSE rows[r]
<1>1. rows \in [Rows -> Fates] /\ QueuedOnce /\ fate \in Fates /\ fate # "queued"
  BY DEF QueueInv, QueueTyped, Done, Fates
<1>2. rows' \in [Rows -> Fates] /\ \A r \in Rows : rows'[r] = IF r = x THEN fate ELSE rows[r]
  BY <1>1
<1> QED
  BY <1>1, <1>2 DEF QueuedOnce

\* Rows only move on: none is forgotten, none that is done is taken up again.
MovesOn == \A r \in Rows : /\ rows[r] # "none" => rows'[r] # "none"
                           /\ rows[r] \in Done => rows'[r] \in Done

LEMMA ReaderStillKnows ==
  ASSUME QueueInv, MovesOn, reader'.before = reader.before,
         reader'.at = "seen" => reader.at = "seen"
  PROVE  ReaderKnows'
BY DEF QueueInv, QueueTyped, ReaderKnows, MovesOn

\* Nothing under way: nobody needs to be waited for.
LEMMA NothingUnderWay ==
  ASSUME QueueInv, queue = <<>>, worker.at # "has", reader.at # "has", closer.at # "has",
         NEW r \in Rows, rows[r] # "none"
  PROVE  rows[r] \in Done
<1>1. DOMAIN queue = {}
  OBVIOUS
<1>2. rows[r] # "queued" /\ rows[r] # "held"
  BY <1>1 DEF QueueInv, QueuedOnce, HeldOnce, Has
<1>3. rows[r] \in Fates
  BY DEF QueueInv, QueueTyped
<1> QED
  BY <1>2, <1>3 DEF Fates, Done

LEMMA RecordAsyncKeeps ==
  ASSUME QueueInv, RecordAsync, UNCHANGED installed
  PROVE  QueueInv'
<1> USE ZeroIsNoRow
<1>1. PICK r \in Rows :
        /\ rows[r] = "none"
        /\ \/ /\ installed
              /\ rows' = [rows EXCEPT ![r] = "queued"]
              /\ queue' = Append(queue, r) /\ unfinished' = unfinished + 1
           \/ Saved(r) /\ UNCHANGED <<queue, unfinished>>
        /\ UNCHANGED <<worker, reader, closer, stop>>
  BY DEF RecordAsync
<1>2. /\ rows \in [Rows -> Fates] /\ queue \in Seq(Items) /\ unfinished \in Nat /\ Len(queue) \in Nat
      /\ QueuedOnce /\ HeldOnce /\ CountCovers /\ OffIsQuiet /\ ReaderKnows
      /\ One(worker) \in {0, 1} /\ One(reader) \in {0, 1} /\ One(closer) \in {0, 1}
  BY DEF QueueInv, QueueTyped, One
<1>3. /\ UNCHANGED <<worker, reader, closer, installed>>
      /\ One(worker)' = One(worker) /\ One(reader)' = One(reader) /\ One(closer)' = One(closer)
  BY <1>1 DEF One
<1>4. CASE Saved(r) /\ UNCHANGED <<queue, unfinished>>
  <2>1. PICK fate \in {"saved", "failed"} : rows' = [rows EXCEPT ![r] = fate]
    BY <1>4 DEF Saved
  <2>2. fate \in Done /\ fate # "none" /\ fate # "held"
    BY DEF Done
  <2>3. /\ rows' \in [Rows -> Fates] /\ QueuedOnce'
        /\ \A q \in Rows : rows'[q] = IF q = r THEN fate ELSE rows[q]
    BY <1>1, <1>4, <2>1, <2>2, Settles
  <2>4. HeldOnce'
    BY <1>1, <1>2, <1>3, <2>2, <2>3 DEF HeldOnce, Has
  <2>5. MovesOn
    BY <1>1, <2>2, <2>3 DEF MovesOn
  <2>6. QueueTyped'
    BY <1>3, <1>4, <2>3 DEF QueueInv, QueueTyped
  <2>7. CountCovers' /\ OffIsQuiet'
    BY <1>2, <1>3, <1>4 DEF CountCovers, OffIsQuiet
  <2> QED
    BY <1>3, <2>3, <2>4, <2>5, <2>6, <2>7, ReaderStillKnows DEF QueueInv
<1>5. CASE /\ installed
           /\ rows' = [rows EXCEPT ![r] = "queued"]
           /\ queue' = Append(queue, r) /\ unfinished' = unfinished + 1
  <2>1. /\ rows' \in [Rows -> Fates]
        /\ \A q \in Rows : rows'[q] = IF q = r THEN "queued" ELSE rows[q]
    BY <1>2, <1>5 DEF Fates
  <2>2. /\ queue' \in Seq(Items) /\ Len(queue') = Len(queue) + 1 /\ DOMAIN queue' = 1..(Len(queue) + 1)
        /\ DOMAIN queue = 1..Len(queue) /\ queue'[Len(queue) + 1] = r
        /\ \A i \in 1..Len(queue) : queue'[i] = queue[i]
    BY <1>2, <1>5
  <2>3. \A i \in 1..Len(queue) : queue[i] # r
    BY <1>1, <1>2, <2>2 DEF QueuedOnce
  <2>4. ASSUME NEW q \in Rows PROVE rows'[q] = "queued" <=> \E i \in DOMAIN queue' : queue'[i] = q
    <3>1. CASE q = r
      <4>1. Len(queue) + 1 \in DOMAIN queue'
        BY <1>2, <2>2
      <4> QED
        BY <4>1, <3>1, <2>1, <2>2
    <3>2. CASE q # r
      <4>1. \A i \in DOMAIN queue' : queue'[i] = q => i \in DOMAIN queue /\ queue[i] = q
        BY <3>2, <1>2, <2>2
      <4>2. \A i \in DOMAIN queue : i \in DOMAIN queue' /\ queue'[i] = queue[i]
        BY <1>2, <2>2
      <4>3. rows[q] = "queued" <=> \E i \in DOMAIN queue : queue[i] = q
        BY <1>2 DEF QueuedOnce
      <4> QED
        BY <4>1, <4>2, <4>3, <3>2, <2>1
    <3> QED
      BY <3>1, <3>2
  <2>5. ASSUME NEW i \in DOMAIN queue', NEW j \in DOMAIN queue', queue'[i] = queue'[j], queue'[i] # 0
        PROVE  i = j
    <3>1. CASE i \in 1..Len(queue) /\ j \in 1..Len(queue)
      BY <3>1, <2>2, <2>5, <1>2 DEF QueuedOnce
    <3>2. CASE i \notin 1..Len(queue) \/ j \notin 1..Len(queue)
      BY <3>2, <2>2, <2>3, <2>5, <1>2
    <3> QED
      BY <3>1, <3>2
  <2>6. QueuedOnce'
    BY <2>4, <2>5 DEF QueuedOnce
  <2>7. HeldOnce'
    BY <1>1, <1>2, <1>3, <2>1 DEF HeldOnce, Has
  <2>8. MovesOn
    BY <1>1, <2>1 DEF MovesOn, Done
  <2>9. QueueTyped'
    BY <1>2, <1>3, <1>5, <2>1, <2>2 DEF QueueInv, QueueTyped
  <2>10. CountCovers'
    BY <1>2, <1>3, <1>5, <2>2 DEF CountCovers
  <2>11. OffIsQuiet'
    BY <1>3, <1>5 DEF OffIsQuiet
  <2> QED
    BY <1>3, <2>6, <2>7, <2>8, <2>9, <2>10, <2>11, ReaderStillKnows DEF QueueInv
<1> QED
  BY <1>1, <1>4, <1>5

LEMMA GetsKeep ==
  ASSUME QueueInv, WorkerGets \/ (ReaderGets /\ queue # <<>>) \/ (CloserGets /\ queue # <<>>),
         UNCHANGED installed
  PROVE  QueueInv'
<1> USE ZeroIsNoRow
<1> DEFINE h == Head(queue)
<1>1. /\ queue # <<>> /\ queue' = Tail(queue) /\ Hold /\ UNCHANGED <<unfinished, installed>>
      /\ \/ /\ worker.at = "get" /\ worker' = [at |-> "has", row |-> h] /\ UNCHANGED <<reader, closer>>
         \/ /\ reader.at = "drain" /\ reader' = [reader EXCEPT !.at = "has", !.row = h] /\ UNCHANGED <<worker, closer>>
         \/ /\ closer.at = "drain" /\ closer' = [at |-> "has", row |-> h] /\ UNCHANGED <<worker, reader>>
  BY DEF WorkerGets, ReaderGets, CloserGets
<1>2. /\ QueueTyped /\ HeldOnce /\ CountCovers /\ OffIsQuiet /\ ReaderKnows
  BY DEF QueueInv
<1>3. /\ rows' \in [Rows -> Fates] /\ queue' \in Seq(Items)
      /\ Len(queue) \in Nat /\ Len(queue') = Len(queue) - 1
      /\ h \in Items /\ QueuedOnce'
      /\ \A r \in Rows : rows'[r] = IF r = h THEN "held" ELSE rows[r]
      /\ \A r \in Rows : r = h => rows[r] = "queued"
  BY <1>1, Takes
<1>4. installed
  BY <1>1, <1>2 DEF OffIsQuiet
<1> HIDE DEF h
<1>5. QueueTyped'
  <2>1. /\ worker' \in [at : {"off", "get", "has"}, row : Items]
        /\ reader' \in [at : {"idle", "drain", "has", "join", "seen"}, row : Items, before : SUBSET Rows]
        /\ closer' \in [at : {"idle", "drain", "has", "stop", "wake", "join"}, row : Items]
    <3>1. CASE worker' = [at |-> "has", row |-> h] /\ UNCHANGED <<reader, closer>>
      BY <3>1, <1>2, <1>3 DEF QueueTyped
    <3>2. CASE reader' = [reader EXCEPT !.at = "has", !.row = h] /\ UNCHANGED <<worker, closer>>
      BY <3>2, <1>2, <1>3 DEF QueueTyped
    <3>3. CASE closer' = [at |-> "has", row |-> h] /\ UNCHANGED <<worker, reader>>
      BY <3>3, <1>2, <1>3 DEF QueueTyped
    <3> QED
      BY <3>1, <3>2, <3>3, <1>1
  <2> QED
    BY <2>1, <1>1, <1>2, <1>3 DEF QueueTyped
<1>6. \A r \in Rows : /\ rows[r] = "queued" => ~Has(worker, r) /\ ~Has(reader, r) /\ ~Has(closer, r)
                      /\ rows[r] = "held" => r # h
  BY <1>2, <1>3 DEF HeldOnce
<1>7. /\ HeldOnce' /\ CountCovers' /\ MovesOn
      /\ reader'.before = reader.before /\ (reader'.at = "seen" => reader.at = "seen")
  <2>1. MovesOn
    BY <1>3 DEF MovesOn, Done
  <2>2. CASE worker.at = "get" /\ worker' = [at |-> "has", row |-> h] /\ UNCHANGED <<reader, closer>>
    <3>1. \A r \in Rows : /\ ~Has(worker, r) /\ (Has(worker, r)' <=> r = h)
                          /\ (Has(reader, r)' <=> Has(reader, r)) /\ (Has(closer, r)' <=> Has(closer, r))
      BY <2>2 DEF Has
    <3>2. HeldOnce'
      BY <3>1, <1>2, <1>3, <1>6 DEF HeldOnce
    <3>3. CountCovers'
      <4>1. /\ One(worker) = 0 /\ One(worker)' = 1
            /\ One(reader)' = One(reader) /\ One(closer)' = One(closer) /\ One(reader) \in {0, 1} /\ One(closer) \in {0, 1}
        BY <2>2 DEF One
      <4>2. unfinished \in Nat /\ unfinished' = unfinished
        BY <1>1, <1>2 DEF QueueTyped
      <4> QED
        BY <4>1, <4>2, <1>2, <1>3 DEF CountCovers
    <3> QED
      BY <2>1, <2>2, <3>2, <3>3
  <2>3. CASE reader.at = "drain" /\ reader' = [reader EXCEPT !.at = "has", !.row = h] /\ UNCHANGED <<worker, closer>>
    <3>0. reader'.at = "has" /\ reader'.row = h /\ reader'.before = reader.before
      BY <2>3, <1>2 DEF QueueTyped
    <3>1. \A r \in Rows : /\ ~Has(reader, r) /\ (Has(reader, r)' <=> r = h)
                          /\ (Has(worker, r)' <=> Has(worker, r)) /\ (Has(closer, r)' <=> Has(closer, r))
      BY <2>3, <3>0 DEF Has
    <3>2. HeldOnce'
      BY <3>1, <1>2, <1>3, <1>6 DEF HeldOnce
    <3>3. CountCovers'
      <4>1. /\ One(reader) = 0 /\ One(reader)' = 1
            /\ One(worker)' = One(worker) /\ One(closer)' = One(closer) /\ One(worker) \in {0, 1} /\ One(closer) \in {0, 1}
        BY <2>3, <3>0 DEF One
      <4>2. unfinished \in Nat /\ unfinished' = unfinished
        BY <1>1, <1>2 DEF QueueTyped
      <4> QED
        BY <4>1, <4>2, <1>2, <1>3 DEF CountCovers
    <3> QED
      BY <2>1, <3>0, <3>2, <3>3
  <2>4. CASE closer.at = "drain" /\ closer' = [at |-> "has", row |-> h] /\ UNCHANGED <<worker, reader>>
    <3>1. \A r \in Rows : /\ ~Has(closer, r) /\ (Has(closer, r)' <=> r = h)
                          /\ (Has(worker, r)' <=> Has(worker, r)) /\ (Has(reader, r)' <=> Has(reader, r))
      BY <2>4 DEF Has
    <3>2. HeldOnce'
      BY <3>1, <1>2, <1>3, <1>6 DEF HeldOnce
    <3>3. CountCovers'
      <4>1. /\ One(closer) = 0 /\ One(closer)' = 1
            /\ One(worker)' = One(worker) /\ One(reader)' = One(reader) /\ One(worker) \in {0, 1} /\ One(reader) \in {0, 1}
        BY <2>4 DEF One
      <4>2. unfinished \in Nat /\ unfinished' = unfinished
        BY <1>1, <1>2 DEF QueueTyped
      <4> QED
        BY <4>1, <4>2, <1>2, <1>3 DEF CountCovers
    <3> QED
      BY <2>1, <2>4, <3>2, <3>3
  <2> QED
    BY <1>1, <2>2, <2>3, <2>4 DEF h
<1> QED
  BY <1>1, <1>3, <1>4, <1>5, <1>7, ReaderStillKnows DEF QueueInv, OffIsQuiet

\* A thread that gives its row an end has nothing any more.
LEMMA Releases ==
  ASSUME QueueInv, UNCHANGED <<queue, installed>>, QueueTyped', MovesOn, QueuedOnce', CountCovers',
         NEW x \in Items, NEW fate \in Done,
         \A r \in Rows : rows'[r] = IF r = x THEN fate ELSE rows[r],
         \A r \in Rows : /\ Has(worker, r)' <=> Has(worker, r) /\ r # x
                         /\ Has(reader, r)' <=> Has(reader, r) /\ r # x
                         /\ Has(closer, r)' <=> Has(closer, r) /\ r # x,
         reader'.before = reader.before, reader'.at = "seen" => reader.at = "seen",
         OffIsQuiet'
  PROVE  QueueInv'
<1>1. HeldOnce'
  BY DEF QueueInv, HeldOnce, Done
<1> QED
  BY <1>1, ReaderStillKnows DEF QueueInv

\* A row in hand is given its end, or the sentinel is taken for what it is.
LEMMA HandsEmpty ==
  ASSUME QueueInv, NEW x \in Items, NEW fate \in Done,
         x \in Rows => rows[x] = "held",
         (rows' = rows /\ x = 0) \/ rows' = [rows EXCEPT ![x] = fate], queue' = queue
  PROVE  /\ rows' \in [Rows -> Fates] /\ QueuedOnce' /\ MovesOn
         /\ \A r \in Rows : rows'[r] = IF r = x THEN fate ELSE rows[r]
<1> USE ZeroIsNoRow
<1>1. /\ rows' \in [Rows -> Fates] /\ QueuedOnce'
      /\ \A r \in Rows : rows'[r] = IF r = x THEN fate ELSE rows[r]
  <2>1. CASE rows' = rows /\ x = 0
    BY <2>1 DEF QueueInv, QueueTyped, QueuedOnce
  <2>2. CASE rows' = [rows EXCEPT ![x] = fate]
    BY <2>2, Settles
  <2> QED
    BY <2>1, <2>2
<1> QED
  BY <1>1 DEF MovesOn, Done

LEMMA WritesKeep ==
  ASSUME QueueInv, WorkerWrites \/ ReaderWrites \/ CloserWrites, UNCHANGED installed
  PROVE  QueueInv'
<1> USE ZeroIsNoRow
<1>1. /\ QueueTyped /\ HeldOnce /\ CountCovers /\ OffIsQuiet /\ ReaderKnows
      /\ unfinished \in Nat /\ Len(queue) \in Nat
      /\ worker.row \in Items /\ reader.row \in Items /\ closer.row \in Items
      /\ rows \in [Rows -> Fates]
  BY DEF QueueInv, QueueTyped
<1>2. ASSUME WorkerWrites PROVE QueueInv'
  <2>1. /\ worker.at = "has" /\ unfinished' = unfinished - 1 /\ UNCHANGED <<queue, reader, closer>>
        /\ worker'.at # "has" /\ worker' \in [at : {"off", "get", "has"}, row : Items]
    BY <1>2 DEF WorkerWrites
  <2>2. \E fate \in Done : (rows' = rows /\ worker.row = 0) \/ rows' = [rows EXCEPT ![worker.row] = fate]
    BY <1>2 DEF WorkerWrites, Saved, Done
  <2>3. PICK fate \in Done : (rows' = rows /\ worker.row = 0) \/ rows' = [rows EXCEPT ![worker.row] = fate]
    BY <2>2
  <2>4. worker.row \in Rows => rows[worker.row] = "held"
    BY <1>1, <2>1 DEF HeldOnce, Has
  <2>5. /\ rows' \in [Rows -> Fates] /\ QueuedOnce' /\ MovesOn
        /\ \A r \in Rows : rows'[r] = IF r = worker.row THEN fate ELSE rows[r]
    BY <1>1, <2>1, <2>3, <2>4, HandsEmpty
  <2>6. /\ One(worker) = 1 /\ One(worker)' = 0 /\ One(reader)' = One(reader) /\ One(closer)' = One(closer)
        /\ One(reader) \in {0, 1} /\ One(closer) \in {0, 1}
    BY <2>1 DEF One
  <2>7. CountCovers' /\ unfinished' \in Nat
    BY <1>1, <2>1, <2>6 DEF CountCovers
  <2>8. QueueTyped'
    BY <1>1, <2>1, <2>5, <2>7 DEF QueueTyped
  <2>9. \A r \in Rows : /\ Has(worker, r)' <=> Has(worker, r) /\ r # worker.row
                        /\ Has(reader, r)' <=> Has(reader, r) /\ r # worker.row
                        /\ Has(closer, r)' <=> Has(closer, r) /\ r # worker.row
    BY <1>1, <2>1 DEF HeldOnce, Has
  <2>10. OffIsQuiet'
    BY <1>1, <2>1 DEF OffIsQuiet
  <2> QED
    BY <1>1, <2>1, <2>5, <2>7, <2>8, <2>9, <2>10, Releases
<1>3. ASSUME ReaderWrites PROVE QueueInv'
  <2>1. /\ reader.at = "has" /\ unfinished' = unfinished - 1 /\ UNCHANGED <<queue, worker, closer>>
        /\ reader' = [reader EXCEPT !.at = "drain"]
    BY <1>3 DEF ReaderWrites
  <2>2. /\ reader'.at = "drain" /\ reader'.row = reader.row /\ reader'.before = reader.before
        /\ reader' \in [at : {"idle", "drain", "has", "join", "seen"}, row : Items, before : SUBSET Rows]
    BY <1>1, <2>1 DEF QueueTyped
  <2>3. PICK fate \in Done : (rows' = rows /\ reader.row = 0) \/ rows' = [rows EXCEPT ![reader.row] = fate]
    BY <1>3 DEF ReaderWrites, Saved, Done
  <2>4. reader.row \in Rows => rows[reader.row] = "held"
    BY <1>1, <2>1 DEF HeldOnce, Has
  <2>5. /\ rows' \in [Rows -> Fates] /\ QueuedOnce' /\ MovesOn
        /\ \A r \in Rows : rows'[r] = IF r = reader.row THEN fate ELSE rows[r]
    BY <1>1, <2>1, <2>3, <2>4, HandsEmpty
  <2>6. /\ One(reader) = 1 /\ One(reader)' = 0 /\ One(worker)' = One(worker) /\ One(closer)' = One(closer)
        /\ One(worker) \in {0, 1} /\ One(closer) \in {0, 1}
    BY <2>1, <2>2 DEF One
  <2>7. CountCovers' /\ unfinished' \in Nat
    BY <1>1, <2>1, <2>6 DEF CountCovers
  <2>8. QueueTyped'
    BY <1>1, <2>1, <2>2, <2>5, <2>7 DEF QueueTyped
  <2>9. \A r \in Rows : /\ Has(worker, r)' <=> Has(worker, r) /\ r # reader.row
                        /\ Has(reader, r)' <=> Has(reader, r) /\ r # reader.row
                        /\ Has(closer, r)' <=> Has(closer, r) /\ r # reader.row
    BY <1>1, <2>1, <2>2 DEF HeldOnce, Has
  <2>10. OffIsQuiet'
    BY <1>1, <2>1 DEF OffIsQuiet
  <2> QED
    BY <1>1, <2>1, <2>2, <2>3, <2>5, <2>7, <2>8, <2>9, <2>10, Releases
<1>4. ASSUME CloserWrites PROVE QueueInv'
  <2>1. PICK fate \in {"saved", "failed"} :
          /\ closer.at = "has" /\ UNCHANGED <<queue, unfinished, worker, reader>>
          /\ rows' = [rows EXCEPT ![closer.row] = fate]
          /\ closer' = [closer EXCEPT !.at = IF fate = "saved" THEN "drain" ELSE "stop"]
    BY <1>4 DEF CloserWrites
  <2>2. /\ closer'.at \in {"drain", "stop"} /\ closer'.row = closer.row
        /\ closer' \in [at : {"idle", "drain", "has", "stop", "wake", "join"}, row : Items]
    BY <1>1, <2>1 DEF QueueTyped
  <2>3. fate \in Done
    BY DEF Done
  <2>4. closer.row \in Rows => rows[closer.row] = "held"
    BY <1>1, <2>1 DEF HeldOnce, Has
  <2>5. /\ rows' \in [Rows -> Fates] /\ QueuedOnce' /\ MovesOn
        /\ \A r \in Rows : rows'[r] = IF r = closer.row THEN fate ELSE rows[r]
    BY <1>1, <2>1, <2>3, <2>4, HandsEmpty
  <2>6. /\ One(closer) = 1 /\ One(closer)' = 0 /\ One(worker)' = One(worker) /\ One(reader)' = One(reader)
        /\ One(worker) \in {0, 1} /\ One(reader) \in {0, 1}
    BY <2>1, <2>2 DEF One
  <2>7. CountCovers' /\ unfinished' \in Nat
    BY <1>1, <2>1, <2>6 DEF CountCovers
  <2>8. QueueTyped'
    BY <1>1, <2>1, <2>2, <2>5, <2>7 DEF QueueTyped
  <2>9. \A r \in Rows : /\ Has(worker, r)' <=> Has(worker, r) /\ r # closer.row
                        /\ Has(reader, r)' <=> Has(reader, r) /\ r # closer.row
                        /\ Has(closer, r)' <=> Has(closer, r) /\ r # closer.row
    BY <1>1, <2>1, <2>2 DEF HeldOnce, Has
  <2>10. OffIsQuiet'
    BY <1>1, <2>1 DEF OffIsQuiet
  <2> QED
    BY <1>1, <2>1, <2>3, <2>5, <2>7, <2>8, <2>9, <2>10, Releases
<1> QED
  BY <1>2, <1>3, <1>4

\* The steps that move nobody's row.
LEMMA QuietKeeps ==
  ASSUME QueueInv, UNCHANGED <<rows, queue, unfinished>>, QueueTyped', OffIsQuiet', ReaderKnows',
         \A r \in Rows : /\ Has(worker, r)' <=> Has(worker, r)
                         /\ Has(reader, r)' <=> Has(reader, r)
                         /\ Has(closer, r)' <=> Has(closer, r),
         One(worker)' + One(reader)' + One(closer)' <= One(worker) + One(reader) + One(closer)
  PROVE  QueueInv'
<1>1. /\ QueueTyped /\ QueuedOnce /\ HeldOnce /\ CountCovers /\ Len(queue) \in Nat /\ unfinished \in Nat
      /\ One(worker) \in {0, 1} /\ One(reader) \in {0, 1} /\ One(closer) \in {0, 1}
      /\ One(worker)' \in {0, 1} /\ One(reader)' \in {0, 1} /\ One(closer)' \in {0, 1}
  BY DEF QueueInv, QueueTyped, One
<1>2. CountCovers'
  BY <1>1 DEF CountCovers
<1>3. QueuedOnce' /\ HeldOnce'
  BY <1>1 DEF QueuedOnce, HeldOnce
<1> QED
  BY <1>2, <1>3 DEF QueueInv

\* A reader that has seen: everything accepted by then has its end.
LEMMA Sees ==
  ASSUME QueueInv, queue = <<>>, worker.at # "has", reader.at # "has", closer.at # "has", rows' = rows,
         NEW S \in SUBSET Rows, \A r \in S : rows[r] # "none", reader'.before = S
  PROVE  ReaderKnows'
<1>1. \A r \in S : r \in Rows /\ rows[r] \in Done
  BY NothingUnderWay
<1> QED
  BY <1>1 DEF ReaderKnows

LEMMA ReadsKeep ==
  ASSUME QueueInv, ReadBegins \/ (ReaderGets /\ queue = <<>>) \/ ReaderJoins \/ ReadEnds, UNCHANGED installed
  PROVE  QueueInv'
<1> USE ZeroIsNoRow
<1>1. /\ QueueTyped /\ CountCovers /\ OffIsQuiet /\ ReaderKnows /\ Len(queue) \in Nat /\ queue \in Seq(Items)
      /\ reader \in [at : {"idle", "drain", "has", "join", "seen"}, row : Items, before : SUBSET Rows]
  BY DEF QueueInv, QueueTyped
<1>2. /\ UNCHANGED <<rows, queue, unfinished, worker, closer, installed>> /\ OffIsQuiet'
      /\ reader.at # "has" /\ reader'.at # "has"
      /\ reader' \in [at : {"idle", "drain", "has", "join", "seen"}, row : Items, before : SUBSET Rows]
  <2>1. CASE ReadBegins
    BY <1>1, <2>1 DEF ReadBegins, OffIsQuiet
  <2>2. CASE ReaderGets /\ queue = <<>>
    BY <1>1, <2>2 DEF ReaderGets, OffIsQuiet
  <2>3. CASE ReaderJoins
    BY <1>1, <2>3 DEF ReaderJoins, OffIsQuiet
  <2>4. CASE ReadEnds
    BY <1>1, <2>4 DEF ReadEnds, OffIsQuiet
  <2> QED
    BY <2>1, <2>2, <2>3, <2>4
<1>3. QueueTyped'
  BY <1>1, <1>2 DEF QueueTyped
<1>4. ReaderKnows'
  <2>1. CASE ReadBegins
    <3>1. reader'.before = {r \in Rows : rows[r] # "none"} /\ (installed => reader'.at = "drain")
      BY <2>1 DEF ReadBegins
    <3>2. CASE installed
      BY <1>2, <3>1, <3>2 DEF ReaderKnows
    <3>3. CASE ~installed
      BY <1>1, <1>2, <3>1, <3>3, Sees DEF OffIsQuiet
    <3> QED
      BY <3>2, <3>3
  <2>2. CASE ReaderGets /\ queue = <<>>
    <3>1. reader'.before = reader.before /\ reader'.at # "seen"
      BY <1>1, <2>2 DEF ReaderGets
    <3> QED
      BY <1>1, <1>2, <3>1 DEF ReaderKnows
  <2>3. CASE ReaderJoins
    <3>1. reader'.before = reader.before /\ unfinished = 0
      BY <1>1, <2>3 DEF ReaderJoins
    <3>2. One(worker) \in {0, 1} /\ One(reader) \in {0, 1} /\ One(closer) \in {0, 1}
      BY DEF One
    <3>3. Len(queue) = 0 /\ One(worker) = 0 /\ One(closer) = 0
      BY <1>1, <3>1, <3>2 DEF CountCovers
    <3>4. queue = <<>> /\ worker.at # "has" /\ closer.at # "has"
      BY <1>1, <3>3 DEF One
    <3>5. reader.before \in SUBSET Rows /\ \A r \in reader.before : rows[r] # "none"
      BY <1>1 DEF ReaderKnows
    <3> QED
      BY <1>2, <3>1, <3>4, <3>5, Sees
  <2>4. CASE ReadEnds
    BY <2>4 DEF ReadEnds, ReaderKnows
  <2> QED
    BY <2>1, <2>2, <2>3, <2>4
<1>5. \A r \in Rows : /\ Has(worker, r)' <=> Has(worker, r)
                      /\ Has(reader, r)' <=> Has(reader, r)
                      /\ Has(closer, r)' <=> Has(closer, r)
  BY <1>2 DEF Has
<1>6. One(worker)' + One(reader)' + One(closer)' <= One(worker) + One(reader) + One(closer)
  BY <1>2 DEF One
<1> QED
  BY <1>2, <1>3, <1>4, <1>5, <1>6, QuietKeeps

LEMMA ClosesKeep ==
  ASSUME QueueInv,
         \/ Install
         \/ /\ CloseBegins \/ (CloserGets /\ queue = <<>>) \/ CloserStops
            /\ UNCHANGED installed
  PROVE  QueueInv'
<1> USE ZeroIsNoRow
<1>1. /\ QueueTyped /\ OffIsQuiet /\ ReaderKnows
      /\ closer \in [at : {"idle", "drain", "has", "stop", "wake", "join"}, row : Items]
  BY DEF QueueInv, QueueTyped
<1>2. /\ UNCHANGED <<rows, queue, unfinished, reader>> /\ OffIsQuiet'
      /\ \/ worker' = worker
         \/ worker.at # "has" /\ worker' = [at |-> "get", row |-> 0]
      /\ \/ closer' = closer
         \/ /\ closer.at # "has" /\ closer'.at # "has"
            /\ closer' \in [at : {"idle", "drain", "has", "stop", "wake", "join"}, row : Items]
  <2>1. CASE Install
    BY <1>1, <2>1 DEF Install, OffIsQuiet
  <2>2. CASE CloseBegins /\ UNCHANGED installed
    BY <1>1, <2>2 DEF CloseBegins, OffIsQuiet
  <2>3. CASE CloserGets /\ queue = <<>> /\ UNCHANGED installed
    BY <1>1, <2>3 DEF CloserGets, OffIsQuiet
  <2>4. CASE CloserStops /\ UNCHANGED installed
    BY <1>1, <2>4 DEF CloserStops, OffIsQuiet
  <2> QED
    BY <2>1, <2>2, <2>3, <2>4
<1>3. QueueTyped' /\ ReaderKnows'
  BY <1>1, <1>2 DEF QueueTyped, ReaderKnows
<1>4. \A r \in Rows : /\ Has(worker, r)' <=> Has(worker, r)
                      /\ Has(reader, r)' <=> Has(reader, r)
                      /\ Has(closer, r)' <=> Has(closer, r)
  BY <1>2 DEF Has
<1>5. One(worker)' + One(reader)' + One(closer)' <= One(worker) + One(reader) + One(closer)
  BY <1>2 DEF One
<1> QED
  BY <1>2, <1>3, <1>4, <1>5, QuietKeeps

\* The sentinel is nobody's row, and it is counted.
LEMMA CloserWakesKeeps ==
  ASSUME QueueInv, CloserWakes, UNCHANGED installed
  PROVE  QueueInv'
<1> USE ZeroIsNoRow
<1>1. /\ QueueTyped /\ QueuedOnce /\ HeldOnce /\ CountCovers /\ OffIsQuiet /\ ReaderKnows
      /\ unfinished \in Nat /\ Len(queue) \in Nat /\ queue \in Seq(Items)
      /\ closer \in [at : {"idle", "drain", "has", "stop", "wake", "join"}, row : Items]
  BY DEF QueueInv, QueueTyped
<1>2. /\ closer.at = "wake" /\ queue' = Append(queue, 0) /\ unfinished' = unfinished + 1
      /\ closer' = [closer EXCEPT !.at = "join"] /\ UNCHANGED <<rows, worker, reader, installed>>
  BY DEF CloserWakes
<1>3. /\ queue' \in Seq(Items) /\ Len(queue') = Len(queue) + 1 /\ DOMAIN queue' = 1..(Len(queue) + 1)
      /\ DOMAIN queue = 1..Len(queue) /\ queue'[Len(queue) + 1] = 0
      /\ \A i \in 1..Len(queue) : queue'[i] = queue[i]
  BY <1>1, <1>2
<1>4. closer'.at = "join" /\ closer' \in [at : {"idle", "drain", "has", "stop", "wake", "join"}, row : Items]
  BY <1>1, <1>2
<1>5. QueueTyped'
  BY <1>1, <1>2, <1>3, <1>4 DEF QueueTyped
<1>6. QueuedOnce'
  <2>1. ASSUME NEW q \in Rows PROVE rows'[q] = "queued" <=> \E i \in DOMAIN queue' : queue'[i] = q
    <3>1. \A i \in DOMAIN queue' : queue'[i] = q => i \in DOMAIN queue /\ queue[i] = q
      BY <1>1, <1>3
    <3>2. \A i \in DOMAIN queue : i \in DOMAIN queue' /\ queue'[i] = queue[i]
      BY <1>1, <1>3
    <3>3. rows[q] = "queued" <=> \E i \in DOMAIN queue : queue[i] = q
      BY <1>1 DEF QueuedOnce
    <3> QED
      BY <3>1, <3>2, <3>3, <1>2
  <2>2. ASSUME NEW i \in DOMAIN queue', NEW j \in DOMAIN queue', queue'[i] = queue'[j], queue'[i] # 0
        PROVE  i = j
    <3>1. i \in DOMAIN queue /\ j \in DOMAIN queue /\ queue[i] = queue[j] /\ queue[i] # 0
      BY <2>2, <1>1, <1>3
    <3> QED
      BY <3>1, <1>1 DEF QueuedOnce
  <2> QED
    BY <2>1, <2>2 DEF QueuedOnce
<1>7. HeldOnce'
  BY <1>1, <1>2, <1>4 DEF HeldOnce, Has
<1>8. CountCovers'
  <2>1. /\ One(worker)' = One(worker) /\ One(reader)' = One(reader) /\ One(closer)' = 0 /\ One(closer) = 0
        /\ One(worker) \in {0, 1} /\ One(reader) \in {0, 1}
    BY <1>2, <1>4 DEF One
  <2> QED
    BY <2>1, <1>1, <1>2, <1>3 DEF CountCovers
<1>9. OffIsQuiet' /\ ReaderKnows'
  BY <1>1, <1>2 DEF OffIsQuiet, ReaderKnows
<1> QED
  BY <1>5, <1>6, <1>7, <1>8, <1>9 DEF QueueInv

\* What is forgotten is dropped: it is not in the queue, and not waited for.
LEMMA ClosedKeeps ==
  ASSUME QueueInv, Closed
  PROVE  QueueInv'
<1> USE ZeroIsNoRow
<1>1. /\ QueueTyped /\ QueuedOnce /\ HeldOnce /\ CountCovers /\ ReaderKnows
      /\ unfinished \in Nat /\ Len(queue) \in Nat /\ rows \in [Rows -> Fates]
  BY DEF QueueInv, QueueTyped
<1>2. /\ closer.at = "join" /\ worker.at # "has" /\ installed' = FALSE
      /\ worker' = [at |-> "off", row |-> 0] /\ closer' = [at |-> "idle", row |-> 0]
      /\ queue' = <<>> /\ UNCHANGED <<unfinished, reader>>
      /\ rows' = [r \in Rows |-> IF \E i \in DOMAIN queue : queue[i] = r THEN "dropped" ELSE rows[r]]
  BY DEF Closed, Idle
<1>3. \A r \in Rows : rows'[r] = IF rows[r] = "queued" THEN "dropped" ELSE rows[r]
  BY <1>1, <1>2 DEF QueuedOnce
<1>4. rows' \in [Rows -> Fates]
  BY <1>1, <1>2 DEF Fates
<1>5. QueueTyped'
  BY <1>1, <1>2, <1>4 DEF QueueTyped
<1>6. QueuedOnce'
  BY <1>2, <1>3 DEF QueuedOnce
<1>7. HeldOnce'
  BY <1>1, <1>2, <1>3 DEF HeldOnce, Has
<1>8. CountCovers'
  <2>1. /\ One(worker)' = 0 /\ One(reader)' = One(reader) /\ One(closer)' = 0 /\ Len(queue') = 0
        /\ One(worker) \in {0, 1} /\ One(reader) \in {0, 1} /\ One(closer) \in {0, 1}
    BY <1>2 DEF One
  <2> QED
    BY <2>1, <1>1, <1>2 DEF CountCovers
<1>9. MovesOn
  BY <1>3 DEF MovesOn, Done
<1> QED
  BY <1>2, <1>5, <1>6, <1>7, <1>8, <1>9, ReaderStillKnows DEF QueueInv, OffIsQuiet

\* A crash leaves nothing under way.
LEMMA DiesKeeps ==
  ASSUME QueueInv, Dies
  PROVE  QueueInv'
<1> USE ZeroIsNoRow
<1>1. QueueTyped /\ rows \in [Rows -> Fates]
  BY DEF QueueInv, QueueTyped
<1>2. /\ installed' = FALSE /\ queue' = <<>> /\ unfinished' = 0
      /\ worker' = [at |-> "off", row |-> 0] /\ closer' = [at |-> "idle", row |-> 0]
      /\ reader' = [at |-> "idle", row |-> 0, before |-> {}]
      /\ rows' = [r \in Rows |-> IF rows[r] \in {"queued", "held"} THEN "lost" ELSE rows[r]]
  BY DEF Dies, Idle
<1>3. \A r \in Rows : rows'[r] # "queued" /\ rows'[r] # "held"
  BY <1>2
<1>4. rows' \in [Rows -> Fates]
  BY <1>1, <1>2 DEF Fates
<1>5. QueueTyped'
  BY <1>2, <1>4 DEF QueueTyped
<1>6. QueuedOnce'
  BY <1>2, <1>3 DEF QueuedOnce
<1>7. HeldOnce'
  BY <1>2, <1>3 DEF HeldOnce, Has
<1>8. CountCovers' /\ OffIsQuiet' /\ ReaderKnows'
  BY <1>2 DEF CountCovers, One, OffIsQuiet, ReaderKnows
<1> QED
  BY <1>5, <1>6, <1>7, <1>8 DEF QueueInv

LEMMA QueueInvStep == QueueInv /\ [QueueNext]_queueVars => QueueInv'
<1> SUFFICES ASSUME QueueInv, [QueueNext]_queueVars PROVE QueueInv'
  OBVIOUS
<1>1. ASSUME UNCHANGED queueVars PROVE QueueInv'
  <2>1. UNCHANGED <<installed, rows, queue, unfinished, worker, reader, closer>>
    BY <1>1 DEF queueVars
  <2>2. QueueTyped' /\ OffIsQuiet' /\ ReaderKnows'
    BY <2>1 DEF QueueInv, QueueTyped, OffIsQuiet, ReaderKnows
  <2>3. \A r \in Rows : /\ Has(worker, r)' <=> Has(worker, r)
                        /\ Has(reader, r)' <=> Has(reader, r)
                        /\ Has(closer, r)' <=> Has(closer, r)
    BY <2>1 DEF Has
  <2>4. One(worker)' + One(reader)' + One(closer)' <= One(worker) + One(reader) + One(closer)
    BY <2>1 DEF One
  <2> QED
    BY <2>1, <2>2, <2>3, <2>4, QuietKeeps
<1>2. ASSUME WorkerGets \/ ReaderGets \/ CloserGets, UNCHANGED installed PROVE QueueInv'
  <2>1. CASE queue = <<>>
    <3>1. ~WorkerGets
      BY <2>1 DEF WorkerGets
    <3> QED
      BY <1>2, <2>1, <3>1, ReadsKeep, ClosesKeep
  <2>2. CASE queue # <<>>
    BY <1>2, <2>2, GetsKeep
  <2> QED
    BY <2>1, <2>2
<1>3. CASE QueueNext
  BY <1>2, <1>3, RecordAsyncKeeps, WritesKeep, ReadsKeep, ClosesKeep, CloserWakesKeeps, ClosedKeeps, DiesKeeps DEF QueueNext
<1> QED
  BY <1>1, <1>3

LEMMA ReaderIsComplete == QueueInv => ReaderComplete
<1> SUFFICES ASSUME QueueInv PROVE ReaderComplete
  OBVIOUS
<1>1. /\ QueuedOnce /\ HeldOnce /\ ReaderKnows
  BY DEF QueueInv
<1>2. ASSUME NEW r \in Rows PROVE InQueue(r) = (IF rows[r] = "queued" THEN 1 ELSE 0)
  <2> DEFINE places == {i \in DOMAIN queue : queue[i] = r}
  <2>1. CASE rows[r] = "queued"
    <3>1. PICK i \in DOMAIN queue : queue[i] = r
      BY <2>1, <1>1 DEF QueuedOnce
    <3>2. places = {i}
      BY <3>1, <1>1, ZeroIsNoRow DEF QueuedOnce
    <3> QED
      BY <3>2, <2>1, FS_Singleton DEF InQueue
  <2>2. CASE rows[r] # "queued"
    <3>1. places = {}
      BY <2>2, <1>1 DEF QueuedOnce
    <3> QED
      BY <3>1, <2>2, FS_EmptySet DEF InQueue
  <2> QED
    BY <2>1, <2>2
<1>3. ASSUME NEW r \in Rows PROVE Cardinality(HeldBy(r)) = (IF rows[r] = "held" THEN 1 ELSE 0)
  <2>1. /\ "worker" \in HeldBy(r) <=> Has(worker, r)
        /\ "reader" \in HeldBy(r) <=> Has(reader, r)
        /\ "closer" \in HeldBy(r) <=> Has(closer, r)
        /\ HeldBy(r) \subseteq {"worker", "reader", "closer"}
    BY DEF HeldBy, Has
  <2>2. /\ rows[r] = "held" <=> Has(worker, r) \/ Has(reader, r) \/ Has(closer, r)
        /\ ~(Has(worker, r) /\ Has(reader, r))
        /\ ~(Has(worker, r) /\ Has(closer, r))
        /\ ~(Has(reader, r) /\ Has(closer, r))
    BY <1>1 DEF HeldOnce
  <2>3. CASE rows[r] = "held"
    <3>1. HeldBy(r) = {"worker"} \/ HeldBy(r) = {"reader"} \/ HeldBy(r) = {"closer"}
      BY <2>1, <2>2, <2>3
    <3> QED
      BY <3>1, <2>3, FS_Singleton
  <2>4. CASE rows[r] # "held"
    <3>1. HeldBy(r) = {}
      BY <2>1, <2>2, <2>4
    <3> QED
      BY <3>1, <2>4, FS_EmptySet
  <2> QED
    BY <2>3, <2>4
<1>4. reader.at = "seen" => \A r \in reader.before : rows[r] \in {"saved", "failed", "dropped", "lost"}
  BY <1>1 DEF ReaderKnows, Done
<1> QED
  BY <1>2, <1>3, <1>4 DEF ReaderComplete

-----------------------------------------------------------------------------
(* The records. *)

RecordOf == [samples : Nat, candidates : Nat, accepted : Nat, rejected : Nat, none : Nat,
             rates : [accepted : Nat, rejected : Nat, selected : Nat], verified : Nat, revoked : BOOLEAN]

\* Counters that fit together.  The rates count whole samples, so that the
\* counters seeded from them fit as well.
CountersFit(r) ==
  /\ r \in RecordOf
  /\ r.accepted + r.rejected <= r.candidates
  /\ r.none <= r.samples
  /\ r.rates.accepted + r.rates.rejected <= r.samples /\ r.rates.selected <= r.samples

\* What a process holds fits as the stored record does, however old it is, and
\* claims no later review than one that took place.
RecordInv ==
  /\ CountersFit(record) /\ record.verified <= reviews /\ reviews \in Nat
  /\ copy = [p \in Processes |-> copy[p]]
  /\ \A p \in Processes : copy[p] # NoCopy => CountersFit(copy[p]) /\ copy[p].verified <= reviews

\* A record of rates fits.
LEMMA OfRatesFit ==
  ASSUME NEW n \in Nat, NEW a \in Nat, NEW j \in Nat, NEW s \in Nat, a + j <= n, s <= n
  PROVE  CountersFit(OfRates(n, a, j, s)) /\ OfRates(n, a, j, s).verified = 0 /\ OfRates(n, a, j, s).samples = n
BY DEF OfRates, CountersFit, RecordOf

LEMMA RecordInvInit == EvidenceInit => RecordInv
<1> SUFFICES ASSUME EvidenceInit PROVE RecordInv
  OBVIOUS
<1>1. CountersFit(record) /\ record.verified <= reviews /\ reviews \in Nat
  <2>0. PICK n \in 0..MaxSamples : \E a, s \in 0..n : \E j \in 0..(n - a) : record = OfRates(n, a, j, s)
    BY DEF EvidenceInit
  <2>1. PICK a \in 0..n, s \in 0..n : \E j \in 0..(n - a) : record = OfRates(n, a, j, s)
    BY <2>0
  <2>2. PICK j \in 0..(n - a) : record = OfRates(n, a, j, s)
    BY <2>1
  <2>3. n \in Nat /\ a \in Nat /\ j \in Nat /\ s \in Nat /\ a + j <= n /\ s <= n
    BY EvidenceAssumption
  <2>4. CountersFit(record) /\ record.verified = 0
    BY <2>2, <2>3, OfRatesFit
  <2> QED
    BY <2>4 DEF EvidenceInit
<1>2. copy = [p \in Processes |-> copy[p]] /\ \A p \in Processes : copy[p] = NoCopy
  BY DEF EvidenceInit
<1> QED
  BY <1>1, <1>2 DEF RecordInv

LEMMA RecordFields ==
  ASSUME NEW r \in RecordOf
  PROVE  /\ DOMAIN r = {"samples", "candidates", "accepted", "rejected", "none", "rates", "verified", "revoked"}
         /\ r.samples \in Nat /\ r.candidates \in Nat /\ r.accepted \in Nat /\ r.rejected \in Nat
         /\ r.none \in Nat /\ r.verified \in Nat /\ r.revoked \in BOOLEAN
         /\ r.rates.accepted \in Nat /\ r.rates.rejected \in Nat /\ r.rates.selected \in Nat
BY DEF RecordOf

\* A record that is written fits, and the copies of the others still do.
LEMMA Written ==
  ASSUME RecordInv, CountersFit(record'), reviews' \in Nat, reviews' >= reviews, record'.verified <= reviews',
         \/ copy' = copy
         \/ \E p \in Processes : copy' = [copy EXCEPT ![p] = NoCopy]
  PROVE  RecordInv'
<1>1. copy' = [p \in Processes |-> copy'[p]]
  BY DEF RecordInv
<1>2. ASSUME NEW p \in Processes, copy'[p] # NoCopy
      PROVE  CountersFit(copy'[p]) /\ copy'[p].verified <= reviews'
  <2>1. copy'[p] = copy[p]
    BY <1>2 DEF RecordInv
  <2>2. CountersFit(copy[p]) /\ copy[p].verified <= reviews /\ reviews \in Nat
    BY <1>2, <2>1 DEF RecordInv
  <2>3. copy[p].verified \in Nat
    BY <2>2, RecordFields DEF CountersFit
  <2> QED
    BY <2>1, <2>2, <2>3
<1> QED
  BY <1>1, <1>2 DEF RecordInv

\* What a process holds fits.
LEMMA CopyIsSound ==
  ASSUME RecordInv, NEW p \in Processes, copy[p] # NoCopy
  PROVE  /\ CountersFit(copy[p]) /\ copy[p] \in RecordOf /\ copy[p].verified <= reviews
         /\ reviews \in Nat
BY DEF RecordInv, CountersFit

LEMMA SeedingFits ==
  ASSUME NEW r, CountersFit(r)
  PROVE  CountersFit(Seeded(r)) /\ Seeded(r).verified = r.verified /\ Seeded(r).samples = r.samples
<1>1. /\ r \in RecordOf /\ r.samples \in Nat /\ r.candidates \in Nat /\ r.accepted \in Nat /\ r.rejected \in Nat
      /\ r.none \in Nat /\ r.rates.accepted \in Nat /\ r.rates.rejected \in Nat /\ r.rates.selected \in Nat
  BY RecordFields DEF CountersFit
<1>2. CASE r.candidates = 0 /\ r.none = 0 /\ r.samples > 0
  <2> DEFINE s == [r EXCEPT !.candidates = r.samples, !.accepted = r.rates.accepted,
                            !.rejected = r.rates.rejected, !.none = r.samples - r.rates.selected]
  <2>0. r.samples - r.rates.selected \in Nat /\ r.samples - r.rates.selected <= r.samples
    BY <1>1 DEF CountersFit
  <2>1. s \in RecordOf
    BY <1>1, <2>0 DEF RecordOf
  <2>2. /\ s.accepted = r.rates.accepted /\ s.candidates = r.samples /\ s.rejected = r.rates.rejected
        /\ s.none = r.samples - r.rates.selected /\ s.samples = r.samples /\ s.rates = r.rates
        /\ s.verified = r.verified
    BY <1>1 DEF RecordOf
  <2>3. CountersFit(s)
    BY <1>1, <2>0, <2>1, <2>2 DEF CountersFit
  <2> QED
    BY <1>2, <2>2, <2>3 DEF Seeded
<1>3. CASE ~(r.candidates = 0 /\ r.none = 0 /\ r.samples > 0)
  BY <1>3 DEF Seeded
<1> QED
  BY <1>2, <1>3

LEMMA FetchKeeps == ASSUME RecordInv, NEW p \in Processes, Fetch(p) PROVE RecordInv'
<1>1. copy' = [copy EXCEPT ![p] = record] /\ UNCHANGED <<record, reviews>>
  BY DEF Fetch
<1>2. /\ copy' = [q \in Processes |-> copy'[q]]
      /\ copy'[p] = record
      /\ \A q \in Processes : q # p => copy'[q] = copy[q]
  BY <1>1 DEF RecordInv
<1>3. CountersFit(record) /\ record.verified <= reviews /\ reviews \in Nat
  BY DEF RecordInv
<1>4. ASSUME NEW q \in Processes, copy'[q] # NoCopy PROVE CountersFit(copy'[q]) /\ copy'[q].verified <= reviews'
  <2>1. CASE q = p
    BY <2>1, <1>1, <1>2, <1>3
  <2>2. CASE q # p
    BY <2>2, <1>1, <1>2, <1>4 DEF RecordInv
  <2> QED
    BY <2>1, <2>2
<1> QED
  BY <1>1, <1>2, <1>3, <1>4 DEF RecordInv

LEMMA ObserveKeeps == ASSUME RecordInv, NEW p \in Processes, Observe(p) PROVE RecordInv'
<1> DEFINE r == Seeded(copy[p])
           now(n, a) == [r EXCEPT !.samples = @ + 1, !.candidates = @ + n, !.accepted = @ + a,
                                  !.rejected = @ + (n - a), !.none = @ + (IF n = 0 THEN 1 ELSE 0)]
<1>1. copy[p] # NoCopy /\ UNCHANGED reviews
  BY DEF Observe
<1>2a. PICK n \in 0..2 : \E a \in 0..n : record' = now(n, a) /\ copy' = [copy EXCEPT ![p] = NoCopy]
  BY DEF Observe, WriteBack
<1>2. PICK a \in 0..n : record' = now(n, a) /\ copy' = [copy EXCEPT ![p] = NoCopy]
  BY <1>2a
<1>3. CountersFit(r) /\ r.verified <= reviews
  BY <1>1, CopyIsSound, SeedingFits
<1> HIDE DEF r
<1>4. /\ r \in RecordOf /\ r.samples \in Nat /\ r.candidates \in Nat /\ r.accepted \in Nat /\ r.rejected \in Nat
      /\ r.none \in Nat /\ r.verified \in Nat
  BY <1>3, RecordFields DEF CountersFit
<1>4a. /\ r.accepted + r.rejected <= r.candidates /\ r.none <= r.samples
       /\ r.rates.accepted + r.rates.rejected <= r.samples /\ r.rates.selected <= r.samples
       /\ r.rates.accepted \in Nat /\ r.rates.rejected \in Nat /\ r.rates.selected \in Nat
  BY <1>3, <1>4, RecordFields DEF CountersFit
<1>5. /\ record'.samples = r.samples + 1 /\ record'.candidates = r.candidates + n
      /\ record'.accepted = r.accepted + a /\ record'.rejected = r.rejected + (n - a)
      /\ record'.none = r.none + (IF n = 0 THEN 1 ELSE 0)
      /\ record'.rates = r.rates /\ record'.verified = r.verified
  BY <1>2, <1>4 DEF RecordOf
<1>6. record' \in RecordOf
  <2>1. r.samples + 1 \in Nat /\ r.candidates + n \in Nat /\ r.accepted + a \in Nat
        /\ r.rejected + (n - a) \in Nat /\ r.none + (IF n = 0 THEN 1 ELSE 0) \in Nat
    BY <1>2, <1>4
  <2> QED
    BY <1>2, <1>4, <2>1 DEF RecordOf
<1>7. CountersFit(record')
  BY <1>2, <1>4, <1>4a, <1>5, <1>6 DEF CountersFit
<1>8. reviews' \in Nat /\ reviews' >= reviews /\ record'.verified <= reviews'
  BY <1>1, <1>3, <1>5 DEF RecordInv
<1> QED
  BY <1>2, <1>7, <1>8, Written

LEMMA ReviewKeeps ==
  ASSUME RecordInv, NEW p \in Processes, MarkVerified(p) \/ Revoke(p) \/ StoreSuite(p)
  PROVE  RecordInv'
<1>1. CASE MarkVerified(p)
  <2>1. /\ copy[p] # NoCopy /\ reviews' = reviews + 1
        /\ record' = [copy[p] EXCEPT !.verified = reviews'] /\ copy' = [copy EXCEPT ![p] = NoCopy]
    BY <1>1 DEF MarkVerified, WriteBack
  <2>2. CountersFit(copy[p]) /\ copy[p] \in RecordOf /\ reviews \in Nat
    BY <2>1, CopyIsSound
  <2>3. /\ record' \in RecordOf /\ record'.verified = reviews'
        /\ \A f \in {"samples", "candidates", "accepted", "rejected", "none", "rates"} : record'[f] = copy[p][f]
    BY <2>1, <2>2 DEF RecordOf
  <2>4. CountersFit(record') /\ reviews' \in Nat /\ reviews' >= reviews /\ record'.verified <= reviews'
    BY <2>1, <2>2, <2>3 DEF CountersFit
  <2> QED
    BY <2>1, <2>4, Written
<1>2. CASE Revoke(p)
  <2>1. PICK value \in BOOLEAN :
          /\ copy[p] # NoCopy /\ reviews' = reviews
          /\ record' = [copy[p] EXCEPT !.revoked = value] /\ copy' = [copy EXCEPT ![p] = NoCopy]
    BY <1>2 DEF Revoke, WriteBack
  <2>2. CountersFit(copy[p]) /\ copy[p] \in RecordOf /\ copy[p].verified <= reviews /\ reviews \in Nat
    BY <2>1, CopyIsSound
  <2>3. /\ record' \in RecordOf
        /\ \A f \in {"samples", "candidates", "accepted", "rejected", "none", "rates", "verified"} :
             record'[f] = copy[p][f]
    BY <2>1, <2>2 DEF RecordOf
  <2>4. CountersFit(record') /\ reviews' \in Nat /\ reviews' >= reviews /\ record'.verified <= reviews'
    BY <2>1, <2>2, <2>3 DEF CountersFit
  <2> QED
    BY <2>1, <2>4, Written
<1>3. CASE StoreSuite(p)
  <2>1. PICK total \in 1..2 : \E passed, selected \in 0..total :
          UNCHANGED <<copy, reviews>> /\ record' = OfRates(total, passed, 0, selected)
    BY <1>3 DEF StoreSuite
  <2>2. CountersFit(record') /\ record'.verified = 0
    <3>1. PICK passed \in 0..total, selected \in 0..total : record' = OfRates(total, passed, 0, selected)
      BY <2>1
    <3>2. passed + 0 <= total /\ selected <= total /\ total \in Nat /\ passed \in Nat /\ selected \in Nat
      OBVIOUS
    <3> QED
      BY <3>1, <3>2, OfRatesFit
  <2>3. reviews' \in Nat /\ reviews' >= reviews /\ record'.verified <= reviews'
    BY <2>1, <2>2 DEF RecordInv
  <2> QED
    BY <2>1, <2>2, <2>3, Written
<1> QED
  BY <1>1, <1>2, <1>3

LEMMA AbandonsKeeps == ASSUME RecordInv, NEW p \in Processes, Abandons(p) PROVE RecordInv'
<1>1. copy' = [copy EXCEPT ![p] = NoCopy] /\ UNCHANGED <<record, reviews>>
  BY DEF Abandons
<1>2. CountersFit(record') /\ reviews' \in Nat /\ reviews' >= reviews /\ record'.verified <= reviews'
  BY <1>1 DEF RecordInv
<1> QED
  BY <1>1, <1>2, Written

LEMMA RecordInvStep == RecordInv /\ [RecordNext]_recordVars => RecordInv'
<1> SUFFICES ASSUME RecordInv, [RecordNext]_recordVars PROVE RecordInv'
  OBVIOUS
<1>1. ASSUME UNCHANGED recordVars PROVE RecordInv'
  <2>1. record' = record /\ copy' = copy /\ reviews' = reviews
    BY <1>1 DEF recordVars
  <2>2. CountersFit(record') /\ reviews' \in Nat /\ reviews' >= reviews /\ record'.verified <= reviews'
    BY <2>1 DEF RecordInv
  <2> QED
    BY <2>1, <2>2, Written
<1>2. CASE RecordNext
  <2>1. PICK p \in Processes :
          Fetch(p) \/ Observe(p) \/ MarkVerified(p) \/ Revoke(p) \/ StoreSuite(p) \/ Abandons(p)
    BY <1>2 DEF RecordNext
  <2> QED
    BY <2>1, FetchKeeps, ObserveKeeps, ReviewKeeps, AbandonsKeeps
<1> QED
  BY <1>1, <1>2

LEMMA EvidenceIsSound == QueueInv /\ RecordInv => EvidenceSound
<1>1. RecordInv => RecordSound
  BY DEF RecordInv, CountersFit, RecordSound
<1> QED
  BY <1>1, ReaderIsComplete DEF EvidenceSound

-----------------------------------------------------------------------------
(* The type of the store's state. *)

\* The queue is no longer than its size.
QueueFits == Len(queue) <= MaxPending

\* No samples are counted past the bound, by whoever has fetched the record.
SamplesFit ==
  record.samples <= MaxSamples /\ \A p \in Processes : copy[p] # NoCopy => copy[p].samples <= MaxSamples

LEMMA QueueFitsInit == EvidenceInit => QueueFits
BY EvidenceAssumption DEF EvidenceInit, QueueFits

LEMMA QueueFitsStep == QueueInv /\ QueueFits /\ [QueueNext]_queueVars => QueueFits'
<1> SUFFICES ASSUME QueueInv, QueueFits, [QueueNext]_queueVars PROVE QueueFits'
  OBVIOUS
<1>1. PICK q, n : q = queue /\ q \in Seq(Items) /\ n = Len(q) /\ n \in Nat /\ n <= MaxPending
  BY DEF QueueInv, QueueTyped, QueueFits
<1>2. ASSUME queue' = q PROVE QueueFits'
  BY <1>1, <1>2 DEF QueueFits
<1>3. ASSUME NEW x \in Items, queue' = Append(q, x), n < MaxPending PROVE QueueFits'
  <2>1. Len(queue') = n + 1
    BY <1>1, <1>3
  <2> QED
    BY <1>1, <1>3, <2>1, EvidenceAssumption DEF QueueFits
<1>4. ASSUME q # <<>>, queue' = Tail(q) PROVE QueueFits'
  <2>1. Len(queue') = n - 1
    BY <1>1, <1>4
  <2> QED
    BY <1>1, <2>1, EvidenceAssumption DEF QueueFits
<1>5. ASSUME queue' = <<>> PROVE QueueFits'
  BY <1>5, EvidenceAssumption DEF QueueFits
<1>6. CASE RecordAsync
  <2>1. \/ queue' = q
        \/ n < MaxPending /\ \E r \in Rows : queue' = Append(q, r)
    BY <1>1, <1>6 DEF RecordAsync
  <2> QED
    BY <2>1, <1>2, <1>3 DEF Items
<1>7. CASE WorkerGets
  BY <1>1, <1>4, <1>7 DEF WorkerGets
<1>8. CASE ReaderGets \/ CloserGets
  BY <1>1, <1>2, <1>4, <1>8 DEF ReaderGets, CloserGets
<1>9. CASE CloserWakes
  BY <1>1, <1>3, <1>9 DEF CloserWakes, Items
<1>10. CASE Closed \/ Dies
  BY <1>5, <1>10 DEF Closed, Dies
<1>11. CASE UNCHANGED queueVars \/ Install
  BY <1>1, <1>2, <1>11 DEF queueVars, Install
<1>12. CASE WorkerWrites \/ ReadBegins \/ ReaderWrites \/ ReaderJoins \/ ReadEnds
              \/ CloseBegins \/ CloserWrites \/ CloserStops
  BY <1>1, <1>2, <1>12
    DEF WorkerWrites, ReadBegins, ReaderWrites, ReaderJoins, ReadEnds, CloseBegins, CloserWrites, CloserStops
<1> QED
  BY <1>6, <1>7, <1>8, <1>9, <1>10, <1>11, <1>12 DEF QueueNext

LEMMA SamplesFitInit == EvidenceInit => SamplesFit
<1> SUFFICES ASSUME EvidenceInit PROVE SamplesFit
  OBVIOUS
<1>1. PICK n \in 0..MaxSamples : \E a, s \in 0..n : \E j \in 0..(n - a) : record = OfRates(n, a, j, s)
  BY DEF EvidenceInit
<1>2. record.samples = n /\ n <= MaxSamples
  BY <1>1, EvidenceAssumption DEF OfRates
<1>3. \A p \in Processes : copy[p] = NoCopy
  BY DEF EvidenceInit
<1> QED
  BY <1>2, <1>3 DEF SamplesFit

LEMMA SamplesFitStep == RecordInv /\ SamplesFit /\ [RecordNext]_recordVars => SamplesFit'
<1> SUFFICES ASSUME RecordInv, SamplesFit, [RecordNext]_recordVars PROVE SamplesFit'
  OBVIOUS
<1>1. ASSUME NEW p \in Processes, copy' = [copy EXCEPT ![p] = NoCopy], record'.samples <= MaxSamples
      PROVE  SamplesFit'
  <2>1. \A q \in Processes : copy'[q] # NoCopy => copy'[q] = copy[q]
    BY <1>1 DEF RecordInv
  <2> QED
    BY <1>1, <2>1 DEF SamplesFit
<1>2. ASSUME UNCHANGED recordVars PROVE SamplesFit'
  BY <1>2 DEF recordVars, SamplesFit
<1>3. ASSUME NEW p \in Processes, Fetch(p) PROVE SamplesFit'
  <2>1. record' = record /\ copy' = [copy EXCEPT ![p] = record]
    BY <1>3 DEF Fetch
  <2>2. \A q \in Processes : copy'[q] \in {record, copy[q]}
    BY <2>1 DEF RecordInv
  <2> QED
    BY <2>1, <2>2 DEF SamplesFit
<1>4. ASSUME NEW p \in Processes, Observe(p) PROVE SamplesFit'
  <2>1. copy[p] # NoCopy /\ copy[p].samples < MaxSamples /\ CountersFit(copy[p])
    BY <1>4, CopyIsSound DEF Observe
  <2>2. PICK r : r = Seeded(copy[p])
    OBVIOUS
  <2>3. r \in RecordOf /\ r.samples = copy[p].samples /\ r.samples \in Nat
    <3>1. CountersFit(r) /\ r.samples = copy[p].samples
      BY <2>1, <2>2, SeedingFits
    <3> QED
      BY <3>1, RecordFields DEF CountersFit
  <2>4. PICK n \in 0 .. 2 : \E a \in 0 .. n :
          WriteBack(p, [r EXCEPT !.samples = @ + 1, !.candidates = @ + n, !.accepted = @ + a,
                                 !.rejected = @ + (n - a), !.none = @ + (IF n = 0 THEN 1 ELSE 0)])
    BY <1>4, <2>2 DEF Observe
  <2>5. record'.samples = r.samples + 1 /\ copy' = [copy EXCEPT ![p] = NoCopy]
    BY <2>3, <2>4 DEF WriteBack, RecordOf
  <2>6. record'.samples <= MaxSamples
    BY <2>1, <2>3, <2>5, EvidenceAssumption
  <2> QED
    BY <1>1, <2>5, <2>6
<1>5. ASSUME NEW p \in Processes, MarkVerified(p) \/ Revoke(p) PROVE SamplesFit'
  <2>1. copy[p] # NoCopy /\ copy[p] \in RecordOf /\ copy[p].samples <= MaxSamples
    BY <1>5, CopyIsSound DEF MarkVerified, Revoke, SamplesFit
  <2>2. record'.samples = copy[p].samples /\ copy' = [copy EXCEPT ![p] = NoCopy]
    BY <1>5, <2>1 DEF MarkVerified, Revoke, WriteBack, RecordOf
  <2> QED
    BY <1>1, <2>1, <2>2
<1>6. ASSUME NEW p \in Processes, StoreSuite(p) PROVE SamplesFit'
  <2>1. record'.samples \in 1 .. 2 /\ copy' = copy
    BY <1>6 DEF StoreSuite, OfRates
  <2>2. record'.samples <= MaxSamples
    BY <2>1, EvidenceAssumption
  <2> QED
    BY <2>1, <2>2 DEF SamplesFit
<1>7. ASSUME NEW p \in Processes, Abandons(p) PROVE SamplesFit'
  BY <1>1, <1>7 DEF Abandons, SamplesFit
<1> QED
  BY <1>2, <1>3, <1>4, <1>5, <1>6, <1>7 DEF RecordNext

\* What the invariants say of the types.
LEMMA EvidenceIsTyped ==
  ASSUME QueueInv, QueueFits, RecordInv, SamplesFit, stop \in BOOLEAN, installed \in BOOLEAN
  PROVE  EvidenceTypeOK
<1>1. PICK q, n : q = queue /\ q \in Seq(Items) /\ n = Len(q) /\ n \in Nat /\ n <= MaxPending
  BY DEF QueueInv, QueueTyped, QueueFits
<1>2. Items = 0 .. MaxRows
  BY EvidenceAssumption DEF Items, Rows
<1>3. q \in [1 .. n -> 0 .. MaxRows] /\ n \in 0 .. MaxPending
  BY <1>1, <1>2, EvidenceAssumption
<1>4. queue \in BoundedSeq(0 .. MaxRows, MaxPending)
  BY <1>1, <1>3 DEF BoundedSeq, SeqOf
<1>5. record.samples \in 0 .. MaxSamples
  BY EvidenceAssumption, RecordFields DEF RecordInv, CountersFit, SamplesFit
<1> QED
  BY <1>4, <1>5 DEF EvidenceTypeOK, QueueInv, QueueTyped

\* The two flags.
FlagsTyped == stop \in BOOLEAN /\ installed \in BOOLEAN
LEMMA FlagsTypedInit == EvidenceInit => FlagsTyped
BY DEF EvidenceInit, FlagsTyped
LEMMA FlagsTypedStep == FlagsTyped /\ [QueueNext]_queueVars => FlagsTyped'
BY DEF FlagsTyped, queueVars, QueueNext, Install, Closed, Dies, RecordAsync, WorkerGets, WorkerWrites, ReadBegins,
       ReaderGets, ReaderWrites, ReaderJoins, ReadEnds, CloseBegins, CloserGets, CloserWrites, CloserStops, CloserWakes

-----------------------------------------------------------------------------
(* The evidence of the probes. *)

Evidence == [native : Outcomes, prompted : Outcomes, continuation : Outcomes, template : Nat]

\* Prompted forcing is tried after native failed, continuation once forcing is
\* proved.
Staged(r) ==
  /\ r \in Evidence
  /\ r.prompted # "unknown" => r.native = "failed"
  /\ r.continuation # "unknown" => Forced(r)

\* No pass that begins with r, or with anything such a pass makes of it, runs
\* probe p.
Settled(r, p) ==
  CASE p = "native" -> r.native # "unknown"
    [] p = "prompted" -> r.native = "passed" \/ (r.native = "failed" /\ r.prompted # "unknown")
    [] p = "continuation" ->
         \/ r.continuation # "unknown"
         \/ r.native = "failed" /\ r.prompted = "failed"

Stores(view) == view = [d \in Digests |-> view[d]] /\ \A d \in Digests : view[d] # NoRecord => Staged(view[d])

Probing(t) == tasks[t].at = "probing"

TasksTyped ==
  /\ tasks = [t \in Tasks |-> tasks[t]]
  /\ \A t \in Tasks :
       /\ tasks[t] = [at |-> tasks[t].at, world |-> tasks[t].world, record |-> tasks[t].record]
       /\ tasks[t].at # "idle" => tasks[t].world \in Worlds
       /\ Probing(t) => Staged(tasks[t].record) /\ Needed(tasks[t].record, Continues(t)) # {}
       /\ tasks[t].record # NoRecord => Staged(tasks[t].record)

QualTyped ==
  /\ Stores(memory) /\ Stores(durable) /\ Stores(file)
  /\ served \in Worlds /\ cached \in Worlds \cup {Nowhere}
  /\ lock \in [Digests -> Requests \cup {Nobody}]
  /\ TasksTyped
  /\ ran \in [Worlds -> [Probes -> Nat]]

\* What is both in memory and in the store is the same.
Agree == \A d \in Digests : memory[d] # NoRecord /\ durable[d] # NoRecord => memory[d] = durable[d]

\* The lock of a digest is the probing request's.
Locked ==
  /\ \A t \in Requests, d \in Digests : lock[d] = t <=> Probing(t) /\ tasks[t].world.digest = d

\* What was run is settled in the record of the request that probes, or else in
\* the one that is current.
RanIsKnown ==
  \A w \in Worlds, p \in Probes :
    ran[w][p] > 0 =>
      /\ ran[w][p] = 1
      /\ \A t \in Requests : Probing(t) /\ tasks[t].world = w => Settled(tasks[t].record, p)
      /\ (\A t \in Requests : ~(Probing(t) /\ tasks[t].world = w))
           => Current(w) # NoRecord /\ Settled(Current(w), p)

QualInv == QualTyped /\ Agree /\ Locked /\ RanIsKnown

-----------------------------------------------------------------------------
(* Records. *)

LEMMA NotNoRecord == NoRecord \notin Evidence /\ Fresh \in Evidence /\ Staged(Fresh)
<1>1. \A r \in Evidence : "native" \in DOMAIN r
  BY DEF Evidence
<1>2. "native" \notin DOMAIN NoRecord
  BY DEF NoRecord
<1>3. Fresh \in Evidence
  BY DEF Fresh, Evidence, Outcomes
<1>4. Staged(Fresh)
  BY <1>3 DEF Fresh, Staged
<1> QED
  BY <1>1, <1>2, <1>3, <1>4

LEMMA EvidenceFields ==
  ASSUME NEW r \in Evidence
  PROVE  /\ r.native \in Outcomes /\ r.prompted \in Outcomes /\ r.continuation \in Outcomes /\ r.template \in Nat
         /\ DOMAIN r = {"native", "prompted", "continuation", "template"}
BY DEF Evidence

\* Nothing is settled in a record that was never probed.
LEMMA FreshIsOpen == \A continues \in BOOLEAN : Needed(Fresh, continues) # {}
BY DEF Fresh, Needed

\* One probe more: it was open, it is settled now, and what was settled is.
LEMMA ProbeSettles ==
  ASSUME NEW r, Staged(r), NEW continues \in BOOLEAN, Needed(r, continues) # {}, NEW passed \in BOOLEAN,
         NEW probe, probe = NextProbe(r, continues), NEW merged, merged = MergeProbe(r, probe, passed)
  PROVE  /\ probe \in Probes /\ Staged(merged) /\ merged # NoRecord
         /\ ~Settled(r, probe) /\ Settled(merged, probe)
         /\ \A p \in Probes : Settled(r, p) => Settled(merged, p)
<1>1. /\ r \in Evidence /\ r.native \in Outcomes /\ r.prompted \in Outcomes /\ r.continuation \in Outcomes
  BY EvidenceFields DEF Staged
<1> DEFINE outcome == IF passed THEN "passed" ELSE "failed"
<1>2. outcome \in Outcomes /\ outcome # "unknown"
  BY DEF Outcomes
<1> HIDE DEF outcome
<1>3. CASE r.native = "unknown"
  <2>1. probe = "native"
    BY <1>3 DEF NextProbe, Needed
  <2>2. /\ merged = [r EXCEPT !.native = outcome] /\ merged \in Evidence
    BY <2>1, <1>1, <1>2 DEF MergeProbe, Evidence, outcome
  <2>3. /\ merged.native = outcome /\ merged.prompted = r.prompted /\ merged.continuation = r.continuation
    BY <2>2, <1>1 DEF Evidence
  <2>4. r.prompted = "unknown" /\ r.continuation = "unknown"
    BY <1>3 DEF Staged, Forced
  <2> QED
    BY <1>1, <1>2, <1>3, <2>1, <2>2, <2>3, <2>4, NotNoRecord DEF Staged, Settled, Probes, Forced
<1>4. CASE r.native = "failed" /\ r.prompted = "unknown"
  <2>1. probe = "prompted"
    BY <1>4 DEF NextProbe, Needed
  <2>2. /\ merged = [r EXCEPT !.prompted = outcome] /\ merged \in Evidence
    BY <2>1, <1>1, <1>2 DEF MergeProbe, Evidence, outcome
  <2>3. /\ merged.native = r.native /\ merged.prompted = outcome /\ merged.continuation = r.continuation
    BY <2>2, <1>1 DEF Evidence
  <2>4. r.continuation = "unknown"
    BY <1>4 DEF Staged, Forced
  <2> QED
    BY <1>1, <1>2, <1>4, <2>1, <2>2, <2>3, <2>4, NotNoRecord DEF Staged, Settled, Probes, Forced
<1>5. CASE r.native # "unknown" /\ ~(r.native = "failed" /\ r.prompted = "unknown")
  <2>1. probe = "continuation" /\ r.continuation = "unknown" /\ Forced(r)
    BY <1>5 DEF NextProbe, Needed
  <2>2. /\ merged = [r EXCEPT !.continuation = outcome] /\ merged \in Evidence
    BY <2>1, <1>1, <1>2 DEF MergeProbe, Evidence, outcome
  <2>3. /\ merged.native = r.native /\ merged.prompted = r.prompted /\ merged.continuation = outcome
    BY <2>2, <1>1 DEF Evidence
  <2> QED
    BY <1>1, <1>2, <1>5, <2>1, <2>2, <2>3, NotNoRecord DEF Staged, Settled, Probes, Forced
<1> QED
  BY <1>3, <1>4, <1>5

\* A pass with continuation leaves nothing open.
LEMMA CompleteIsSettled ==
  ASSUME NEW r, Staged(r), Needed(r, TRUE) = {}
  PROVE  \A p \in Probes : Settled(r, p)
<1>1. /\ r.native \in Outcomes /\ r.prompted \in Outcomes /\ r.continuation \in Outcomes
  BY EvidenceFields DEF Staged
<1>2. /\ r.native # "unknown"
      /\ r.native = "failed" => r.prompted # "unknown"
      /\ r.continuation = "unknown" => ~Forced(r)
  BY DEF Needed
<1> QED
  BY <1>1, <1>2 DEF Probes, Settled, Forced, Outcomes

\* What has an outcome is settled.
LEMMA KnownIsSettled ==
  ASSUME NEW r, Staged(r), NEW p \in Probes, r[p] # "unknown"
  PROVE  Settled(r, p)
<1>1. CASE p = "native"
  BY <1>1 DEF Settled
<1>2. CASE p = "prompted"
  BY <1>2 DEF Staged, Settled
<1>3. CASE p = "continuation"
  BY <1>3 DEF Settled
<1> QED
  BY <1>1, <1>2, <1>3 DEF Probes

\* The stamp is no evidence.
LEMMA StampKeeps ==
  ASSUME NEW r, Staged(r), NEW n \in Nat, NEW stamped, stamped = [r EXCEPT !.template = n]
  PROVE  /\ Staged(stamped) /\ stamped # NoRecord /\ stamped.template = n
         /\ \A p \in Probes : Settled(r, p) => Settled(stamped, p)
<1>1. r \in Evidence
  BY DEF Staged
<1>2. /\ stamped \in Evidence /\ stamped.template = n
      /\ stamped.native = r.native /\ stamped.prompted = r.prompted /\ stamped.continuation = r.continuation
  BY <1>1 DEF Evidence
<1> QED
  BY <1>2, NotNoRecord DEF Staged, Settled, Forced, Probes

-----------------------------------------------------------------------------
(* Memory and store. *)

LEMMA WorldFields ==
  ASSUME NEW w \in Worlds
  PROVE  w.digest \in Digests /\ w.template \in Nat /\ w = [digest |-> w.digest, template |-> w.template]
BY QualificationAssumption DEF Digests

LEMMA PutKeeps ==
  ASSUME NEW view, Stores(view), NEW d \in Digests, NEW r, Staged(r)
  PROVE  /\ Stores(Put(view, d, r))
         /\ \A e \in Digests : Put(view, d, r)[e] \in {NoRecord, IF e = d THEN r ELSE view[e]}
<1> DEFINE full == {e \in Digests : e = d \/ view[e] # NoRecord}
           left == {e \in full : Cardinality({f \in full : f > e}) < MaxRecords}
<1>1. Put(view, d, r) = [e \in Digests |-> IF e \notin left THEN NoRecord ELSE IF e = d THEN r ELSE view[e]]
  BY DEF Put
<1> HIDE DEF left
<1> QED
  BY <1>1 DEF Stores

\* What is current is staged.
LEMMA CurrentIsStaged ==
  ASSUME QualInv, NEW w \in Worlds, Current(w) # NoRecord
  PROVE  Staged(Current(w)) /\ Current(w).template = w.template
BY WorldFields DEF QualInv, QualTyped, Stores, Current, Known

\* A look at a world's record can only drop others'.
LEMMA RememberDrops ==
  ASSUME QualInv, NEW w \in Worlds, Remember(w), durable' = durable
  PROVE  /\ Stores(memory') /\ Agree'
         /\ \A v \in Worlds : Current(v)' \in {Current(v), NoRecord}
<1> DEFINE d == w.digest
<1>1. /\ d \in Digests /\ Stores(memory) /\ Stores(durable) /\ Agree
  BY WorldFields DEF QualInv, QualTyped
<1>2. Current(w) # NoRecord => Staged(Current(w)) /\ Current(w) \in {memory[d], durable[d]}
  BY CurrentIsStaged DEF Current, Known
<1>3. memory'[d] = Current(w) /\ \A e \in Digests \ {d} : memory'[e] = memory[e]
  BY <1>1 DEF Remember, Stores
<1>4. Stores(memory')
  <2>1. memory' = [e \in Digests |-> memory'[e]]
    BY <1>1 DEF Remember, Stores
  <2> QED
    BY <2>1, <1>1, <1>2, <1>3 DEF Stores
<1>5. Agree'
  BY <1>1, <1>2, <1>3 DEF Agree
<1>6. ASSUME NEW v \in Worlds PROVE Current(v)' \in {Current(v), NoRecord}
  <2>1. v.digest \in Digests
    BY WorldFields
  <2>2. CASE v.digest # d
    BY <2>1, <2>2, <1>3 DEF Current, Known
  <2>3. CASE v.digest = d /\ Current(w) # NoRecord
    <3>1. Known(v) = Current(w)
      BY <2>3 DEF Current, Known
    <3>2. Known(v)' = Current(w)
      BY <2>3, <1>3 DEF Known
    <3> QED
      BY <3>1, <3>2 DEF Current
  <2>4. CASE v.digest = d /\ Current(w) = NoRecord
    <3>1. Known(v)' = durable[d] /\ (memory[d] = NoRecord => Known(v) = durable[d])
          /\ (memory[d] # NoRecord => Known(v) = memory[d])
      BY <2>4, <1>3 DEF Known
    <3>2. durable[d] \in {NoRecord, Known(v)}
      BY <3>1, <1>1 DEF Agree
    <3>3. Known(v)' \in {NoRecord, Known(v)}
      BY <3>1, <3>2
    <3> QED
      BY <3>3 DEF Current
  <2> QED
    BY <2>2, <2>3, <2>4
<1> QED
  BY <1>4, <1>5, <1>6

\* A recorded pass is current for its own world, and can only drop others'.
LEMMA RecordDrops ==
  ASSUME QualInv, NEW w \in Worlds, NEW r, Staged(r), r # NoRecord, r.template = w.template, Record(w.digest, r)
  PROVE  /\ Stores(memory') /\ Stores(durable') /\ Stores(file') /\ Agree'
         /\ Current(w)' = r
         /\ \A v \in Worlds \ {w} : Current(v)' \in {Current(v), NoRecord}
<1> DEFINE d == w.digest
<1>1. /\ d \in Digests /\ Stores(memory) /\ Stores(durable) /\ Agree
  BY WorldFields DEF QualInv, QualTyped
<1>2. /\ memory' = [memory EXCEPT ![d] = r] /\ durable' = Put(durable, d, r) /\ file' = durable'
  BY DEF Record
<1>3. /\ Stores(durable') /\ \A e \in Digests : durable'[e] \in {NoRecord, IF e = d THEN r ELSE durable[e]}
  BY <1>1, <1>2, PutKeeps
<1>4. memory'[d] = r /\ \A e \in Digests \ {d} : memory'[e] = memory[e]
  BY <1>1, <1>2 DEF Stores
<1>5. Stores(memory')
  <2>1. memory' = [e \in Digests |-> memory'[e]]
    BY <1>1, <1>2 DEF Stores
  <2> QED
    BY <2>1, <1>1, <1>4 DEF Stores
<1>6. Agree'
  BY <1>1, <1>3, <1>4 DEF Agree
<1>7. Current(w)' = r
  BY <1>4 DEF Current, Known
<1>8. ASSUME NEW v \in Worlds \ {w} PROVE Current(v)' \in {Current(v), NoRecord}
  <2>1. v.digest \in Digests
    BY WorldFields
  <2>2. CASE v.digest # d
    <3>1. memory'[v.digest] = memory[v.digest] /\ durable'[v.digest] \in {NoRecord, durable[v.digest]}
      BY <2>1, <2>2, <1>3, <1>4
    <3> QED
      BY <3>1 DEF Current, Known
  <2>3. CASE v.digest = d
    <3>1. v.template # w.template
      BY <2>3, WorldFields
    <3>2. Known(v)' = r
      BY <2>3, <1>4 DEF Known
    <3> QED
      BY <3>1, <3>2 DEF Current
  <2> QED
    BY <2>2, <2>3
<1> QED
  BY <1>2, <1>3, <1>5, <1>6, <1>7, <1>8

-----------------------------------------------------------------------------
(* What was run stays known. *)

\* What the ghost keeps of a world, or forgets.
Forgets(v) ==
  \A p \in Probes : \/ ran'[v][p] = 0
                    \/ /\ ran'[v][p] = ran[v][p]
                       /\ Current(v) # NoRecord => Current(v)' = Current(v)

ProbesIn(t, w) == Probing(t) /\ tasks[t].world = w

\* A step of one task is about one world; the others only forget.
LEMMA RanKept ==
  ASSUME QualInv, NEW t \in Tasks, \A q \in Tasks \ {t} : tasks'[q] = tasks[q], NEW w \in Worlds,
         \A v \in Worlds \ {w} : Forgets(v),
         t \in Requests =>
           /\ Probing(t) => tasks[t].world = w
           /\ Probing(t)' => tasks'[t].world = w,
         \A p \in Probes : ran'[w][p] > 0 =>
           /\ ran'[w][p] = 1
           /\ \A q \in Requests : ProbesIn(q, w)' => Settled(tasks'[q].record, p)
           /\ (\A q \in Requests : ~ProbesIn(q, w)') => Current(w)' # NoRecord /\ Settled(Current(w)', p)
  PROVE  RanIsKnown'
<1> SUFFICES ASSUME NEW v \in Worlds, NEW p \in Probes, ran'[v][p] > 0
             PROVE  /\ ran'[v][p] = 1
                    /\ \A q \in Requests : ProbesIn(q, v)' => Settled(tasks'[q].record, p)
                    /\ (\A q \in Requests : ~ProbesIn(q, v)') => Current(v)' # NoRecord /\ Settled(Current(v)', p)
  BY DEF RanIsKnown, ProbesIn, Probing
<1>1. CASE v = w
  BY <1>1
<1>2. CASE v # w
  <2>1. \A q \in Requests : ProbesIn(q, v)' <=> ProbesIn(q, v)
    <3>1. ASSUME NEW q \in Requests PROVE ProbesIn(q, v)' <=> ProbesIn(q, v)
      <4>1. CASE q = t
        BY <4>1, <1>2 DEF ProbesIn, Probing
      <4>2. CASE q # t
        BY <4>2 DEF ProbesIn, Probing, Tasks
      <4> QED
        BY <4>1, <4>2
    <3> QED
      BY <3>1
  <2>2. \A q \in Requests : ProbesIn(q, v) => tasks'[q] = tasks[q]
    BY <1>2 DEF ProbesIn, Tasks
  <2>3. ran'[v][p] = ran[v][p] /\ (Current(v) # NoRecord => Current(v)' = Current(v))
    BY <1>2 DEF Forgets
  <2>4. /\ ran[v][p] = 1
        /\ \A q \in Requests : ProbesIn(q, v) => Settled(tasks[q].record, p)
        /\ (\A q \in Requests : ~ProbesIn(q, v)) => Current(v) # NoRecord /\ Settled(Current(v), p)
    BY <2>3 DEF QualInv, RanIsKnown, ProbesIn
  <2> QED
    BY <2>1, <2>2, <2>3, <2>4
<1> QED
  BY <1>1, <1>2

\* A step that starts and ends no request's probing.
LEMMA RanForgotten ==
  ASSUME QualInv, \A v \in Worlds : Forgets(v),
         \A q \in Requests : /\ Probing(q)' <=> Probing(q)
                             /\ Probing(q) => tasks'[q] = tasks[q]
  PROVE  RanIsKnown'
<1> SUFFICES ASSUME NEW v \in Worlds, NEW p \in Probes, ran'[v][p] > 0
             PROVE  /\ ran'[v][p] = 1
                    /\ \A q \in Requests : ProbesIn(q, v)' => Settled(tasks'[q].record, p)
                    /\ (\A q \in Requests : ~ProbesIn(q, v)') => Current(v)' # NoRecord /\ Settled(Current(v)', p)
  BY DEF RanIsKnown, ProbesIn, Probing
<1>1. \A q \in Requests : /\ ProbesIn(q, v)' <=> ProbesIn(q, v)
                          /\ ProbesIn(q, v) => tasks'[q] = tasks[q]
  BY DEF ProbesIn, Probing
<1>2. ran'[v][p] = ran[v][p] /\ (Current(v) # NoRecord => Current(v)' = Current(v))
  BY DEF Forgets
<1>3. /\ ran[v][p] = 1
      /\ \A q \in Requests : ProbesIn(q, v) => Settled(tasks[q].record, p)
      /\ (\A q \in Requests : ~ProbesIn(q, v)) => Current(v) # NoRecord /\ Settled(Current(v), p)
  BY <1>2 DEF QualInv, RanIsKnown, ProbesIn
<1> QED
  BY <1>1, <1>2, <1>3

\* A step that leaves the records alone.
LEMMA UntouchedForgets ==
  ASSUME QualInv, UNCHANGED <<memory, durable, ran>>
  PROVE  \A v \in Worlds : Forgets(v)
BY DEF Forgets, Current, Known

\* What is counted while current records are kept or dropped.
LEMMA CountForgets ==
  ASSUME QualInv, NEW executed, Count(executed), NEW v \in Worlds,
         Current(v)' \in {Current(v), NoRecord}, \A p \in Probes : <<v, p>> \notin executed
  PROVE  Forgets(v)
<1>1. \A p \in Probes : ran'[v][p] = IF Lost(v) THEN 0 ELSE ran[v][p] + 0
  BY DEF Count
<1>2. \A p \in Probes : ran[v][p] \in Nat
  BY DEF QualInv, QualTyped
<1> QED
  BY <1>1, <1>2 DEF Forgets, Lost

LEMMA CountTyped ==
  ASSUME QualInv, NEW executed, Count(executed)
  PROVE  /\ ran' \in [Worlds -> [Probes -> Nat]]
         /\ \A w \in Worlds, p \in Probes :
              ran'[w][p] \in {0, ran[w][p] + (IF <<w, p>> \in executed THEN 1 ELSE 0)}
<1>1. \A w \in Worlds, p \in Probes : ran[w][p] \in Nat
  BY DEF QualInv, QualTyped
<1>2. \A w \in Worlds, p \in Probes :
        /\ (IF Lost(w) THEN 0 ELSE ran[w][p] + (IF <<w, p>> \in executed THEN 1 ELSE 0)) \in Nat
        /\ (IF Lost(w) THEN 0 ELSE ran[w][p] + (IF <<w, p>> \in executed THEN 1 ELSE 0))
             \in {0, ran[w][p] + (IF <<w, p>> \in executed THEN 1 ELSE 0)}
  BY <1>1
<1> QED
  BY <1>2 DEF Count

-----------------------------------------------------------------------------
(* The steps. *)

LEMMA QualInvInit == QualificationInit => QualInv
<1> SUFFICES ASSUME QualificationInit PROVE QualInv
  OBVIOUS
<1>1. /\ memory = [d \in Digests |-> NoRecord] /\ durable = [d \in Digests |-> NoRecord]
      /\ file = [d \in Digests |-> NoRecord] /\ \A t \in Tasks : tasks[t] = AtRest
      /\ \A w \in Worlds, p \in Probes : ran[w][p] = 0
      /\ \A d \in Digests : lock[d] = Nobody
  BY DEF QualificationInit, Empty, NoneRan
<1>2. Stores(memory) /\ Stores(durable) /\ Stores(file)
  BY <1>1 DEF Stores
<1>3. \A t \in Tasks :
        /\ tasks[t] = [at |-> tasks[t].at, world |-> tasks[t].world, record |-> tasks[t].record]
        /\ tasks[t].at = "idle" /\ tasks[t].record = NoRecord
  BY <1>1 DEF AtRest
<1>4. ran \in [Worlds -> [Probes -> Nat]] /\ lock \in [Digests -> Requests \cup {Nobody}]
  BY DEF QualificationInit, NoneRan
<1>5. QualTyped
  BY <1>2, <1>3, <1>4 DEF QualificationInit, QualTyped, TasksTyped, Probing
<1>6. Locked
  BY <1>1, <1>3, QualificationAssumption DEF Locked, Probing, Tasks, Nobody
<1>7. Agree /\ RanIsKnown
  BY <1>1 DEF Agree, RanIsKnown
<1> QED
  BY <1>5, <1>6, <1>7 DEF QualInv

\* One task moves on.
LEMMA OneTask ==
  ASSUME TasksTyped, NEW t \in Tasks, NEW new, tasks' = [tasks EXCEPT ![t] = new],
         new = [at |-> new.at, world |-> new.world, record |-> new.record],
         new.at # "idle" => new.world \in Worlds,
         new.at = "probing" => Staged(new.record) /\ Needed(new.record, Continues(t)) # {},
         new.record # NoRecord => Staged(new.record)
  PROVE  TasksTyped' /\ tasks'[t] = new /\ \A q \in Tasks \ {t} : tasks'[q] = tasks[q]
<1>1. /\ tasks' = [q \in Tasks |-> tasks'[q]] /\ tasks'[t] = new
      /\ \A q \in Tasks \ {t} : tasks'[q] = tasks[q]
  BY DEF TasksTyped
<1>2. ASSUME NEW q \in Tasks
      PROVE  /\ tasks'[q] = [at |-> tasks'[q].at, world |-> tasks'[q].world, record |-> tasks'[q].record]
             /\ tasks'[q].at # "idle" => tasks'[q].world \in Worlds
             /\ tasks'[q].at = "probing" => Staged(tasks'[q].record) /\ Needed(tasks'[q].record, Continues(q)) # {}
             /\ tasks'[q].record # NoRecord => Staged(tasks'[q].record)
  <2>1. CASE q = t
    BY <2>1, <1>1
  <2>2. CASE q # t
    BY <2>2, <1>1 DEF TasksTyped, Probing
  <2> QED
    BY <2>1, <2>2
<1> QED
  BY <1>1, <1>2 DEF TasksTyped, Probing

LEMMA AtRestIsTyped ==
  /\ AtRest = [at |-> AtRest.at, world |-> AtRest.world, record |-> AtRest.record]
  /\ AtRest.at = "idle" /\ AtRest.record = NoRecord
BY DEF AtRest

\* A step of one task that takes no part in the lock before or after it.
LEMMA LockedAside ==
  ASSUME QualInv, NEW t \in Tasks, \A q \in Tasks \ {t} : tasks'[q] = tasks[q], lock' = lock,
         t \in Requests => ~Probing(t) /\ ~Probing(t)'
  PROVE  /\ Locked'
         /\ \A q \in Requests : /\ Probing(q)' <=> Probing(q)
                                /\ Probing(q) => tasks'[q] = tasks[q]
<1>1. \A q \in Requests : q # t => tasks'[q] = tasks[q]
  BY DEF Tasks
<1>2. \A q \in Requests : /\ Probing(q)' <=> Probing(q)
                          /\ Probing(q) => tasks'[q] = tasks[q]
  BY <1>1 DEF Probing
<1> QED
  BY <1>2 DEF QualInv, Locked

LEMMA InspectKeeps ==
  ASSUME QualInv, NEW t \in Tasks, Inspect(t)
  PROVE  QualInv'
<1> DEFINE w == IF cached # Nowhere THEN cached ELSE served
           new == [at |-> "inspected", world |-> w, record |-> NoRecord]
<1>1. /\ tasks[t].at = "idle" /\ cached' = w /\ tasks' = [tasks EXCEPT ![t] = new]
      /\ UNCHANGED <<served, memory, durable, file, lock, ran>>
  BY DEF Inspect
<1>2. w \in Worlds
  BY DEF QualInv, QualTyped
<1>3. TasksTyped' /\ tasks'[t] = new /\ \A q \in Tasks \ {t} : tasks'[q] = tasks[q]
  <2>1. TasksTyped
    BY DEF QualInv, QualTyped
  <2>2. /\ new = [at |-> new.at, world |-> new.world, record |-> new.record]
        /\ new.at = "inspected" /\ new.world = w /\ new.record = NoRecord
    OBVIOUS
  <2>3. tasks' = [tasks EXCEPT ![t] = new]
    BY <1>1
  <2> HIDE DEF new, w
  <2> QED
    BY <1>2, <2>1, <2>2, <2>3, OneTask
<1>4. ~Probing(t) /\ ~Probing(t)'
  BY <1>1, <1>3 DEF Probing
<1>5. Locked' /\ RanIsKnown'
  BY <1>1, <1>3, <1>4, LockedAside, RanForgotten, UntouchedForgets
<1>6. QualTyped' /\ Agree'
  BY <1>1, <1>2, <1>3 DEF QualInv, QualTyped, Agree
<1> QED
  BY <1>5, <1>6 DEF QualInv

\* The world outside, the caches and the other process.
LEMMA OutsideKeeps ==
  ASSUME QualInv, Expire \/ Repoint \/ OtherRecords
  PROVE  QualInv'
<1>1. UNCHANGED <<memory, durable, lock, tasks, ran>>
  BY DEF Expire, Repoint, OtherRecords
<1>2. Stores(file') /\ served' \in Worlds /\ cached' \in Worlds \cup {Nowhere}
  <2>1. CASE Expire \/ Repoint
    BY <2>1 DEF Expire, Repoint, QualInv, QualTyped
  <2>2. CASE OtherRecords
    <3> DEFINE r == [Fresh EXCEPT !.native = "passed", !.continuation = "passed", !.template = served.template]
    <3>1. served \in Worlds /\ Stores(file)
      BY DEF QualInv, QualTyped
    <3>2. served.digest \in Digests /\ served.template \in Nat
      BY <3>1, WorldFields
    <3>3. Staged(r)
      BY <3>2 DEF Staged, Evidence, Fresh, Outcomes, Forced
    <3>4. file' = Put(file, served.digest, r) /\ UNCHANGED <<served, cached>>
      BY <2>2 DEF OtherRecords
    <3> HIDE DEF r
    <3> QED
      BY <3>1, <3>2, <3>3, <3>4, PutKeeps DEF QualInv, QualTyped
  <2> QED
    BY <2>1, <2>2
<1>3. QualTyped'
  BY <1>1, <1>2 DEF QualInv, QualTyped, TasksTyped, Probing
<1>4. Agree' /\ Locked'
  BY <1>1 DEF QualInv, Agree, Locked, Probing
<1>5. RanIsKnown'
  <2>1. \A q \in Requests : /\ Probing(q)' <=> Probing(q)
                            /\ Probing(q) => tasks'[q] = tasks[q]
    BY <1>1 DEF Probing
  <2> QED
    BY <1>1, <2>1, RanForgotten, UntouchedForgets
<1> QED
  BY <1>3, <1>4, <1>5 DEF QualInv

LEMMA RestartKeeps ==
  ASSUME QualInv, Restart
  PROVE  QualInv'
<1>1. /\ memory' = [d \in Digests |-> NoRecord] /\ durable' = file /\ file' = file
      /\ lock' = [d \in Digests |-> Nobody] /\ tasks' = [t \in Tasks |-> AtRest]
      /\ \A w \in Worlds, p \in Probes : ran'[w][p] = 0
      /\ cached' = Nowhere /\ served' = served
  BY DEF Restart, Empty, NoneRan
<1>2. Stores(memory')
  BY <1>1 DEF Stores
<1>3. TasksTyped' /\ \A t \in Tasks : ~Probing(t)'
  BY <1>1, AtRestIsTyped DEF TasksTyped, Probing
<1>4. ran' \in [Worlds -> [Probes -> Nat]]
  BY DEF Restart, NoneRan
<1>5. QualTyped'
  BY <1>1, <1>2, <1>3, <1>4 DEF QualInv, QualTyped
<1>6. Locked'
  BY <1>1, <1>3, QualificationAssumption DEF Locked, Tasks, Nobody
<1>7. Agree' /\ RanIsKnown'
  BY <1>1 DEF Agree, RanIsKnown
<1> QED
  BY <1>5, <1>6, <1>7 DEF QualInv

LEMMA ChooseControllerKeeps ==
  ASSUME QualInv, ChooseController
  PROVE  QualInv'
<1> DEFINE w == IF cached # Nowhere THEN cached ELSE served
<1>1. /\ cached' = w /\ Remember(w) /\ durable' = durable /\ Count({}) /\ UNCHANGED <<served, file, lock, tasks>>
  BY DEF ChooseController
<1>2. w \in Worlds
  BY DEF QualInv, QualTyped
<1> HIDE DEF w
<1>3. /\ Stores(memory') /\ Agree' /\ \A v \in Worlds : Current(v)' \in {Current(v), NoRecord}
  BY <1>1, <1>2, RememberDrops
<1>4. \A v \in Worlds : Forgets(v)
  BY <1>1, <1>3, CountForgets
<1>5. ran' \in [Worlds -> [Probes -> Nat]]
  BY <1>1, CountTyped
<1>6. QualTyped'
  BY <1>1, <1>2, <1>3, <1>5 DEF QualInv, QualTyped, TasksTyped, Probing
<1>7. Locked'
  BY <1>1 DEF QualInv, Locked, Probing
<1>8. RanIsKnown'
  <2>1. \A q \in Requests : /\ Probing(q)' <=> Probing(q)
                            /\ Probing(q) => tasks'[q] = tasks[q]
    BY <1>1 DEF Probing
  <2> QED
    BY <1>4, <2>1, RanForgotten
<1> QED
  BY <1>3, <1>6, <1>7, <1>8 DEF QualInv

\* Who probes holds the lock of its digest, so there is one in a world.
LEMMA OneProber ==
  ASSUME QualInv, NEW t \in Requests, Probing(t), NEW w \in Worlds, tasks[t].world = w
  PROVE  /\ lock[w.digest] = t
         /\ \A q \in Requests : ProbesIn(q, w) => q = t
<1>1. w.digest \in Digests
  BY WorldFields
<1>2. lock[w.digest] = t
  BY <1>1 DEF QualInv, Locked
<1>3. \A q \in Requests : ProbesIn(q, w) => lock[w.digest] = q
  BY <1>1 DEF QualInv, Locked, ProbesIn
<1> QED
  BY <1>2, <1>3

\* A request gives the lock back.
LEMMA LockFreed ==
  ASSUME QualInv, NEW t \in Requests, Probing(t), NEW w \in Worlds, tasks[t].world = w,
         \A q \in Tasks \ {t} : tasks'[q] = tasks[q], ~Probing(t)', Free(w.digest)
  PROVE  Locked' /\ lock' \in [Digests -> Requests \cup {Nobody}]
<1>1. /\ w.digest \in Digests /\ lock \in [Digests -> Requests \cup {Nobody}] /\ Locked
  BY WorldFields DEF QualInv, QualTyped
<1>2. /\ lock'[w.digest] = Nobody /\ \A d \in Digests \ {w.digest} : lock'[d] = lock[d]
      /\ lock' \in [Digests -> Requests \cup {Nobody}]
  BY <1>1 DEF Free
<1>3. ASSUME NEW q \in Requests, NEW d \in Digests
      PROVE  lock'[d] = q <=> Probing(q)' /\ tasks'[q].world.digest = d
  <2>1. CASE q = t
    BY <2>1, <1>1, <1>2, QualificationAssumption DEF Locked, Nobody
  <2>2. CASE q # t
    <3>1. tasks'[q] = tasks[q]
      BY <2>2 DEF Tasks
    <3>2. lock[w.digest] = t
      BY OneProber
    <3> QED
      BY <2>2, <3>1, <3>2, <1>1, <1>2, QualificationAssumption DEF Locked, Nobody, Probing
  <2> QED
    BY <2>1, <2>2
<1> QED
  BY <1>2, <1>3 DEF Locked

LEMMA FailKeeps ==
  ASSUME QualInv, NEW t \in Tasks, Fail(t)
  PROVE  QualInv'
<1>0. /\ Probing(t) /\ TasksTyped
  BY DEF Fail, Probing, QualInv, QualTyped
<1>2. PICK w \in Worlds : w = tasks[t].world
  BY <1>0 DEF TasksTyped, Probing
<1>1. /\ tasks' = [tasks EXCEPT ![t] = AtRest]
      /\ IF t = Api THEN lock' = lock ELSE Free(w.digest)
      /\ ran' = [v \in Worlds |-> [p \in Probes |->
                   IF v = w /\ t # Api /\ (Current(v) = NoRecord \/ Current(v)[p] = "unknown") THEN 0 ELSE ran[v][p]]]
      /\ UNCHANGED <<served, cached, memory, durable, file>>
  BY <1>2 DEF Fail
<1>3. TasksTyped' /\ tasks'[t] = AtRest /\ \A q \in Tasks \ {t} : tasks'[q] = tasks[q]
  BY <1>0, <1>1, AtRestIsTyped, OneTask
<1>4. ~Probing(t)'
  BY <1>3, AtRestIsTyped DEF Probing
<1>5. /\ \A v \in Worlds, p \in Probes : ran[v][p] \in Nat
      /\ \A v \in Worlds, p \in Probes :
           ran'[v][p] = IF v = w /\ t # Api /\ (Current(v) = NoRecord \/ Current(v)[p] = "unknown")
                          THEN 0 ELSE ran[v][p]
  BY <1>1 DEF QualInv, QualTyped
<1>6. ran' \in [Worlds -> [Probes -> Nat]]
  <2>1. \A v \in Worlds, p \in Probes :
          (IF v = w /\ t # Api /\ (Current(v) = NoRecord \/ Current(v)[p] = "unknown") THEN 0 ELSE ran[v][p]) \in Nat
    BY <1>5
  <2> QED
    BY <2>1, <1>1
<1>7. \A v \in Worlds : Current(v)' = Current(v)
  BY <1>1 DEF Current, Known
<1>8. \A v \in Worlds : Forgets(v)
  BY <1>5, <1>7 DEF Forgets
<1>9. Agree'
  BY <1>1 DEF QualInv, Agree
<1>10. CASE t = Api
  <2>1. t \notin Requests
    BY <1>10, QualificationAssumption
  <2>2. Locked' /\ RanIsKnown'
    BY <1>1, <1>3, <1>8, <1>10, <2>1, LockedAside, RanForgotten
  <2>3. QualTyped'
    BY <1>1, <1>3, <1>6, <1>10 DEF QualInv, QualTyped
  <2> QED
    BY <1>9, <2>2, <2>3 DEF QualInv
<1>11. CASE t # Api
  <2>1. t \in Requests
    BY <1>11 DEF Tasks
  <2>2. Free(w.digest)
    BY <1>1, <1>11
  <2>3. Locked' /\ lock' \in [Digests -> Requests \cup {Nobody}]
    BY <1>0, <1>2, <1>3, <1>4, <2>1, <2>2, LockFreed
  <2>4. QualTyped'
    BY <1>1, <1>3, <1>6, <2>3 DEF QualInv, QualTyped
  <2>5. RanIsKnown'
    <3>1. ASSUME NEW p \in Probes, ran'[w][p] > 0
          PROVE  /\ ran'[w][p] = 1
                 /\ \A q \in Requests : ProbesIn(q, w)' => Settled(tasks'[q].record, p)
                 /\ Current(w)' # NoRecord /\ Settled(Current(w)', p)
      <4>1. Current(w) # NoRecord /\ Current(w)[p] # "unknown" /\ ran'[w][p] = ran[w][p]
        BY <3>1, <1>2, <1>5, <1>11
      <4>2. Staged(Current(w))
        BY <4>1, <1>2, CurrentIsStaged
      <4>3. Settled(Current(w), p)
        BY <4>1, <4>2, KnownIsSettled
      <4>4. ran[w][p] = 1
        BY <4>1, <3>1, <1>2 DEF QualInv, RanIsKnown
      <4>5. \A q \in Requests : ~ProbesIn(q, w)'
        <5>1. ASSUME NEW q \in Requests, ProbesIn(q, w)' PROVE FALSE
          <6>1. q # t
            BY <5>1, <1>4 DEF ProbesIn
          <6>2. tasks'[q] = tasks[q]
            BY <6>1, <1>3 DEF Tasks
          <6>3. ProbesIn(q, w)
            BY <5>1, <6>2 DEF ProbesIn, Probing
          <6> QED
            BY <6>1, <6>3, <1>0, <1>2, <2>1, OneProber
        <5> QED
          BY <5>1
      <4> QED
        BY <4>1, <4>3, <4>4, <4>5, <1>2, <1>7
    <3>2. /\ Probing(t) => tasks[t].world = w
          /\ Probing(t)' => tasks'[t].world = w
      BY <1>4, <1>2
    <3> QED
      BY <1>2, <1>3, <1>8, <3>1, <3>2, RanKept
  <2> QED
    BY <1>9, <2>3, <2>4, <2>5 DEF QualInv
<1> QED
  BY <1>10, <1>11

\* What a pass begins with.
LEMMA StartIsStaged ==
  ASSUME QualInv, NEW t \in Tasks, tasks[t].world \in Worlds
  PROVE  Staged(Starting(t)) /\ Starting(t) # NoRecord
BY CurrentIsStaged, NotNoRecord DEF Starting

LEMMA ContinuesOrNot == \A t \in Tasks : Continues(t) \in BOOLEAN
BY DEF Continues

\* A task starts to probe, or goes on with another record.
LEMMA ProbingOn ==
  ASSUME TasksTyped, NEW t \in Tasks, tasks[t].world \in Worlds, NEW r, Staged(r), r # NoRecord,
         Needed(r, Continues(t)) # {}, tasks' = [tasks EXCEPT ![t].at = "probing", ![t].record = r]
  PROVE  /\ TasksTyped' /\ Probing(t)' /\ tasks'[t].world = tasks[t].world /\ tasks'[t].record = r
         /\ \A q \in Tasks \ {t} : tasks'[q] = tasks[q]
<1> DEFINE new == [at |-> "probing", world |-> tasks[t].world, record |-> r]
<1>1. tasks[t] = [at |-> tasks[t].at, world |-> tasks[t].world, record |-> tasks[t].record]
      /\ tasks = [q \in Tasks |-> tasks[q]]
  BY DEF TasksTyped
<1>2. [tasks[t] EXCEPT !.at = "probing", !.record = r] = new
  <2> DEFINE moved == [tasks[t] EXCEPT !.at = "probing", !.record = r]
  <2>1. DOMAIN tasks[t] = {"at", "world", "record"}
    BY <1>1
  <2>2. moved = [f \in {"at", "world", "record"} |-> moved[f]]
    BY <2>1
  <2>3. moved.at = "probing" /\ moved.world = tasks[t].world /\ moved.record = r
    BY <2>1
  <2> HIDE DEF moved
  <2>4. moved = new
    BY <2>2, <2>3
  <2> QED
    BY <2>4 DEF moved
<1>3. tasks' = [tasks EXCEPT ![t] = new]
  BY <1>1, <1>2
<1>4. TasksTyped' /\ tasks'[t] = new /\ \A q \in Tasks \ {t} : tasks'[q] = tasks[q]
  <2>1. new = [at |-> new.at, world |-> new.world, record |-> new.record]
        /\ new.world \in Worlds /\ Staged(new.record) /\ Needed(new.record, Continues(t)) # {}
    OBVIOUS
  <2> HIDE DEF new
  <2> QED
    BY <1>3, <2>1, OneTask
<1>5. new.at = "probing" /\ new.world = tasks[t].world /\ new.record = r
  OBVIOUS
<1> HIDE DEF new
<1> QED
  BY <1>4, <1>5 DEF Probing

\* A step that at most looks at a record, of a task that no request's probing
\* is part of.
LEMMA AsideKeeps ==
  ASSUME QualInv, NEW t \in Tasks, TasksTyped', \A q \in Tasks \ {t} : tasks'[q] = tasks[q],
         t \in Requests => ~Probing(t) /\ ~Probing(t)',
         NEW w \in Worlds, Remember(w), Count({}), UNCHANGED <<durable, file, lock, served, cached>>
  PROVE  QualInv'
<1>1. /\ Stores(memory') /\ Agree' /\ \A v \in Worlds : Current(v)' \in {Current(v), NoRecord}
  BY RememberDrops
<1>2. \A v \in Worlds : Forgets(v)
  BY <1>1, CountForgets
<1>3. ran' \in [Worlds -> [Probes -> Nat]]
  BY CountTyped
<1>4. Locked' /\ RanIsKnown'
  BY <1>2, LockedAside, RanForgotten
<1>5. QualTyped'
  BY <1>1, <1>3 DEF QualInv, QualTyped
<1> QED
  BY <1>1, <1>4, <1>5 DEF QualInv

LEMMA EnsureKeeps ==
  ASSUME QualInv, NEW t \in Requests, Ensure(t)
  PROVE  QualInv'
<1>0. TasksTyped /\ t \in Tasks /\ ~Probing(t) /\ tasks[t].at # "idle" /\ t # Api
  BY QualificationAssumption DEF Ensure, QualInv, QualTyped, Tasks, Probing
<1>1. PICK w \in Worlds : w = tasks[t].world
  BY <1>0 DEF TasksTyped
<1>2. /\ \/ /\ ~Demanded(Current(w), Continues(t)) /\ tasks' = [tasks EXCEPT ![t] = AtRest]
            /\ UNCHANGED <<durable, file, lock>>
         \/ /\ tasks' = [tasks EXCEPT ![t].at = "waiting"] /\ UNCHANGED <<durable, file, lock>>
         \/ /\ Demanded(Current(w), Continues(t)) /\ lock[w.digest] = Nobody /\ Pass(t, Starting(t))
      /\ Remember(w) /\ Count({}) /\ UNCHANGED <<served, cached>>
  BY <1>1 DEF Ensure
<1>3. CASE tasks' = [tasks EXCEPT ![t] = AtRest] /\ UNCHANGED <<durable, file, lock>>
  <2>1. TasksTyped' /\ tasks'[t] = AtRest /\ \A q \in Tasks \ {t} : tasks'[q] = tasks[q]
    BY <1>0, <1>3, AtRestIsTyped, OneTask
  <2>2. ~Probing(t)'
    BY <2>1, AtRestIsTyped DEF Probing
  <2> QED
    BY <1>0, <1>2, <1>3, <2>1, <2>2, AsideKeeps
<1>4. CASE tasks' = [tasks EXCEPT ![t].at = "waiting"] /\ UNCHANGED <<durable, file, lock>>
  <2> DEFINE new == [at |-> "waiting", world |-> tasks[t].world, record |-> tasks[t].record]
  <2>1. tasks' = [tasks EXCEPT ![t] = new]
    <3> DEFINE moved == [tasks[t] EXCEPT !.at = "waiting"]
    <3>1. DOMAIN tasks[t] = {"at", "world", "record"}
      BY <1>0 DEF TasksTyped
    <3>2. moved = [f \in {"at", "world", "record"} |-> moved[f]]
      BY <3>1
    <3>3. moved.at = "waiting" /\ moved.world = tasks[t].world /\ moved.record = tasks[t].record
      BY <3>1
    <3>4. tasks' = [tasks EXCEPT ![t] = moved]
      BY <1>0, <1>4 DEF TasksTyped
    <3> HIDE DEF moved
    <3>5. moved = new
      BY <3>2, <3>3
    <3> QED
      BY <3>4, <3>5
  <2>2. /\ new = [at |-> new.at, world |-> new.world, record |-> new.record]
        /\ new.world \in Worlds /\ new.at = "waiting" /\ (new.record # NoRecord => Staged(new.record))
    BY <1>0, <1>1 DEF TasksTyped
  <2> HIDE DEF new
  <2>3. TasksTyped' /\ tasks'[t] = new /\ \A q \in Tasks \ {t} : tasks'[q] = tasks[q]
    BY <1>0, <2>1, <2>2, OneTask
  <2>4. ~Probing(t)'
    BY <2>2, <2>3 DEF Probing
  <2> QED
    BY <1>0, <1>2, <1>4, <2>3, <2>4, AsideKeeps
<1>5. CASE Demanded(Current(w), Continues(t)) /\ lock[w.digest] = Nobody /\ Pass(t, Starting(t))
  <2> DEFINE r == Starting(t)
  <2>1. r = IF Current(w) = NoRecord THEN Fresh ELSE Current(w)
    BY <1>1 DEF Starting
  <2>2. Staged(r) /\ r # NoRecord
    BY <1>0, <1>1, StartIsStaged
  <2>3. Needed(r, Continues(t)) # {}
    BY <1>0, <1>5, <2>1, FreshIsOpen, ContinuesOrNot DEF Demanded
  <2>4. /\ tasks' = [tasks EXCEPT ![t].at = "probing", ![t].record = r]
        /\ lock' = [lock EXCEPT ![w.digest] = t] /\ UNCHANGED <<durable, file>>
    BY <1>0, <1>1, <1>5, <2>3 DEF Pass
  <2> HIDE DEF r
  <2>5. /\ TasksTyped' /\ Probing(t)' /\ tasks'[t].world = w /\ tasks'[t].record = r
        /\ \A q \in Tasks \ {t} : tasks'[q] = tasks[q]
    BY <1>0, <1>1, <2>2, <2>3, <2>4, ProbingOn
  <2>6. /\ Stores(memory') /\ Agree' /\ \A v \in Worlds : Current(v)' \in {Current(v), NoRecord}
    BY <1>2, <2>4, RememberDrops
  <2>7. \A v \in Worlds : Forgets(v)
    BY <1>2, <2>6, CountForgets
  <2>8. /\ ran' \in [Worlds -> [Probes -> Nat]]
    BY <1>2, CountTyped
  <2>9. /\ w.digest \in Digests /\ lock \in [Digests -> Requests \cup {Nobody}]
    BY WorldFields DEF QualInv, QualTyped
  <2>10. QualTyped'
    <3>1. lock' \in [Digests -> Requests \cup {Nobody}]
      BY <2>4, <2>9
    <3> QED
      BY <1>2, <2>4, <2>5, <2>6, <2>8, <3>1 DEF QualInv, QualTyped
  <2>11. \A q \in Requests : ~(Probing(q) /\ tasks[q].world.digest = w.digest)
    BY <1>5, <2>9, QualificationAssumption DEF QualInv, Locked, Nobody
  <2>12. Locked'
    <3>1. lock'[w.digest] = t /\ \A d \in Digests \ {w.digest} : lock'[d] = lock[d]
      BY <2>4, <2>9
    <3>2. ASSUME NEW q \in Requests, NEW d \in Digests
          PROVE  lock'[d] = q <=> Probing(q)' /\ tasks'[q].world.digest = d
      <4>1. CASE q = t
        <5>1. CASE d = w.digest
          BY <4>1, <5>1, <2>5, <3>1
        <5>2. CASE d # w.digest
          BY <4>1, <5>2, <2>5, <3>1, <1>0 DEF QualInv, Locked
        <5> QED
          BY <5>1, <5>2
      <4>2. CASE q # t
        <5>1. tasks'[q] = tasks[q]
          BY <4>2, <2>5 DEF Tasks
        <5>2. CASE d = w.digest
          BY <4>2, <5>1, <5>2, <2>11, <3>1 DEF Probing
        <5>3. CASE d # w.digest
          BY <4>2, <5>1, <5>3, <3>1 DEF QualInv, Locked, Probing
        <5> QED
          BY <5>2, <5>3
      <4> QED
        BY <4>1, <4>2
    <3> QED
      BY <3>2 DEF Locked
  <2>13. RanIsKnown'
    <3>1. ASSUME NEW p \in Probes, ran'[w][p] > 0
          PROVE  /\ ran'[w][p] = 1
                 /\ \A q \in Requests : ProbesIn(q, w)' => Settled(tasks'[q].record, p)
                 /\ (\A q \in Requests : ~ProbesIn(q, w)') => Current(w)' # NoRecord /\ Settled(Current(w)', p)
      <4>1. ran'[w][p] = ran[w][p]
        BY <2>7, <3>1 DEF Forgets
      <4>2. \A q \in Requests : ~ProbesIn(q, w)
        BY <2>11 DEF ProbesIn
      <4>3. ran[w][p] = 1 /\ Current(w) # NoRecord /\ Settled(Current(w), p)
        BY <3>1, <4>1, <4>2 DEF QualInv, RanIsKnown, ProbesIn
      <4>4. r = Current(w) /\ Settled(r, p)
        BY <2>1, <4>3
      <4>5. ProbesIn(t, w)'
        BY <2>5 DEF ProbesIn
      <4>6. ASSUME NEW q \in Requests, ProbesIn(q, w)' PROVE q = t
        <5>1. CASE q # t
          <6>1. tasks'[q] = tasks[q]
            BY <5>1, <2>5 DEF Tasks
          <6> QED
            BY <4>2, <4>6, <6>1 DEF ProbesIn, Probing
        <5> QED
          BY <5>1
      <4> QED
        BY <4>1, <4>3, <4>4, <4>5, <4>6, <2>5
    <3> QED
      BY <1>0, <2>5, <2>7, <3>1, RanKept
  <2> QED
    BY <2>6, <2>10, <2>12, <2>13 DEF QualInv
<1> QED
  BY <1>2, <1>3, <1>4, <1>5

\* qualify_route records a pass that leaves nothing open.
LEMMA ApiRecords ==
  ASSUME QualInv, NEW w \in Worlds, NEW r, Staged(r), Needed(r, TRUE) = {},
         Record(w.digest, [r EXCEPT !.template = w.template]), tasks' = [tasks EXCEPT ![Api] = AtRest],
         Count({}), UNCHANGED <<lock, served, cached>>
  PROVE  QualInv'
<1> DEFINE stamped == [r EXCEPT !.template = w.template]
<1>1. /\ Staged(stamped) /\ stamped # NoRecord /\ stamped.template = w.template
      /\ \A p \in Probes : Settled(stamped, p)
  <2>1. w.template \in Nat
    BY WorldFields
  <2>2. \A p \in Probes : Settled(r, p)
    BY CompleteIsSettled
  <2>3. /\ Staged(stamped) /\ stamped # NoRecord /\ stamped.template = w.template
        /\ \A p \in Probes : Settled(r, p) => Settled(stamped, p)
    BY <2>1, StampKeeps
  <2> QED
    BY <2>2, <2>3
<1>2. Record(w.digest, stamped)
  OBVIOUS
<1> HIDE DEF stamped
<1>3. /\ Stores(memory') /\ Stores(durable') /\ Stores(file') /\ Agree'
      /\ Current(w)' = stamped
      /\ \A v \in Worlds \ {w} : Current(v)' \in {Current(v), NoRecord}
  BY <1>1, <1>2, RecordDrops
<1>4. /\ Api \in Tasks /\ Api \notin Requests /\ TasksTyped
  <2>1. Api \notin Requests
    BY QualificationAssumption
  <2>2. Api \in Tasks
    BY DEF Tasks
  <2> QED
    BY <2>1, <2>2 DEF QualInv, QualTyped
<1>5. TasksTyped' /\ tasks'[Api] = AtRest /\ \A q \in Tasks \ {Api} : tasks'[q] = tasks[q]
  BY <1>4, AtRestIsTyped, OneTask
<1>6. /\ ran' \in [Worlds -> [Probes -> Nat]]
      /\ \A v \in Worlds, p \in Probes : ran'[v][p] = 0 \/ ran'[v][p] = ran[v][p]
  <2>1. /\ ran' \in [Worlds -> [Probes -> Nat]]
        /\ \A v \in Worlds, p \in Probes : ran'[v][p] \in {0, ran[v][p] + (IF <<v, p>> \in {} THEN 1 ELSE 0)}
    BY CountTyped
  <2>2. \A v \in Worlds, p \in Probes : ran[v][p] \in Nat
    BY DEF QualInv, QualTyped
  <2> QED
    BY <2>1, <2>2
<1>7. QualTyped'
  BY <1>3, <1>5, <1>6 DEF QualInv, QualTyped
<1>8. /\ Locked'
      /\ \A q \in Requests : /\ Probing(q)' <=> Probing(q)
                             /\ Probing(q) => tasks'[q] = tasks[q]
  BY <1>4, <1>5, LockedAside
<1>9. RanIsKnown'
  <2>1. \A v \in Worlds \ {w} : Forgets(v)
    BY <1>3, CountForgets
  <2>2. ASSUME NEW p \in Probes, ran'[w][p] > 0
        PROVE  /\ ran'[w][p] = 1
               /\ \A q \in Requests : ProbesIn(q, w)' => Settled(tasks'[q].record, p)
               /\ Current(w)' # NoRecord /\ Settled(Current(w)', p)
    <3>1. ran'[w][p] = ran[w][p]
      BY <1>6, <2>2
    <3>2. ran[w][p] = 1 /\ \A q \in Requests : ProbesIn(q, w) => Settled(tasks[q].record, p)
      BY <2>2, <3>1 DEF QualInv, RanIsKnown, ProbesIn
    <3>3. \A q \in Requests : ProbesIn(q, w)' => ProbesIn(q, w) /\ tasks'[q] = tasks[q]
      BY <1>8 DEF ProbesIn
    <3> QED
      BY <1>1, <1>3, <3>1, <3>2, <3>3
  <2> QED
    BY <1>4, <1>5, <2>1, <2>2, RanKept
<1> QED
  BY <1>3, <1>7, <1>8, <1>9 DEF QualInv

\* qualify_route begins: there may be nothing to probe.
LEMMA QualifyRouteKeeps ==
  ASSUME QualInv, QualifyRoute
  PROVE  QualInv'
<1>0. /\ TasksTyped /\ Api \in Tasks /\ Api \notin Requests /\ tasks[Api].at # "idle"
  <2>1. Api \notin Requests
    BY QualificationAssumption
  <2>2. Api \in Tasks /\ tasks[Api].at # "idle"
    BY DEF Tasks, QualifyRoute
  <2> QED
    BY <2>1, <2>2 DEF QualInv, QualTyped
<1>1. PICK w \in Worlds : w = tasks[Api].world
  BY <1>0 DEF TasksTyped
<1> DEFINE r == Starting(Api)
<1>2. /\ Needed(r, TRUE) # {} => Remember(w)
      /\ Pass(Api, r) /\ Count({}) /\ UNCHANGED <<served, cached>>
  BY <1>1 DEF QualifyRoute
<1>3. Staged(r) /\ r # NoRecord /\ Continues(Api) = TRUE
  BY <1>0, <1>1, StartIsStaged DEF Continues
<1> HIDE DEF r
<1>4. CASE Needed(r, TRUE) # {}
  <2>1. /\ tasks' = [tasks EXCEPT ![Api].at = "probing", ![Api].record = r]
        /\ lock' = lock /\ UNCHANGED <<durable, file>> /\ Remember(w)
    BY <1>2, <1>3, <1>4 DEF Pass
  <2>2. TasksTyped' /\ \A q \in Tasks \ {Api} : tasks'[q] = tasks[q]
    BY <1>0, <1>1, <1>3, <1>4, <2>1, ProbingOn
  <2> QED
    BY <1>0, <1>2, <2>1, <2>2, AsideKeeps
<1>5. CASE Needed(r, TRUE) = {}
  <2>1. /\ Record(w.digest, [r EXCEPT !.template = w.template]) /\ tasks' = [tasks EXCEPT ![Api] = AtRest]
        /\ lock' = lock
    BY <1>1, <1>2, <1>3, <1>5 DEF Pass
  <2> QED
    BY <1>2, <1>3, <1>5, <2>1, ApiRecords
<1> QED
  BY <1>4, <1>5

\* A request's pass goes on, or is recorded and the lock given back.
LEMMA RequestGenerates ==
  ASSUME QualInv, NEW t \in Requests, NEW w \in Worlds, w = tasks[t].world, Probing(t),
         NEW probe \in Probes, NEW merged, Staged(merged), merged # NoRecord,
         ~Settled(tasks[t].record, probe), Settled(merged, probe),
         \A p \in Probes : Settled(tasks[t].record, p) => Settled(merged, p),
         Pass(t, merged), Needed(merged, Continues(t)) # {} => UNCHANGED memory,
         Count({<<w, probe>>}), UNCHANGED <<served, cached>>
  PROVE  QualInv'
<1>0. /\ TasksTyped /\ t \in Tasks /\ t # Api /\ w.digest \in Digests
      /\ lock \in [Digests -> Requests \cup {Nobody}] /\ lock[w.digest] = t
  <2>1. t # Api /\ t \in Tasks
    BY QualificationAssumption DEF Tasks
  <2>2. lock[w.digest] = t
    BY OneProber
  <2> QED
    BY <2>1, <2>2, WorldFields DEF QualInv, QualTyped
<1>1. /\ ran' \in [Worlds -> [Probes -> Nat]]
      /\ \A p \in Probes : ran'[w][p] \in {0, ran[w][p] + (IF <<w, p>> \in {<<w, probe>>} THEN 1 ELSE 0)}
  BY CountTyped
<1>2. \A p \in Probes : ran[w][p] \in Nat /\ (ran[w][p] > 0 => ran[w][p] = 1 /\ Settled(tasks[t].record, p))
  BY DEF QualInv, QualTyped, RanIsKnown
<1>3. ran[w][probe] = 0
  BY <1>2
<1>4. ASSUME NEW p \in Probes, ran'[w][p] > 0 PROVE ran'[w][p] = 1 /\ Settled(merged, p)
  <2>1. CASE p = probe
    BY <2>1, <1>1, <1>3, <1>4
  <2>2. CASE p # probe
    <3>1. <<w, p>> \notin {<<w, probe>>}
      BY <2>2
    <3>2. ran'[w][p] = ran[w][p]
      BY <3>1, <1>1, <1>2, <1>4
    <3> QED
      BY <3>2, <1>2, <1>4
  <2> QED
    BY <2>1, <2>2
<1>5. \A v \in Worlds \ {w}, p \in Probes : <<v, p>> \notin {<<w, probe>>}
  OBVIOUS
<1>6. CASE Needed(merged, Continues(t)) # {}
  <2>1. /\ tasks' = [tasks EXCEPT ![t].at = "probing", ![t].record = merged]
        /\ lock' = [lock EXCEPT ![w.digest] = t] /\ UNCHANGED <<memory, durable, file>>
    BY <1>0, <1>6 DEF Pass
  <2>2. lock' = lock
    BY <1>0, <2>1
  <2>3. /\ TasksTyped' /\ Probing(t)' /\ tasks'[t].world = w /\ tasks'[t].record = merged
        /\ \A q \in Tasks \ {t} : tasks'[q] = tasks[q]
    BY <1>0, <1>6, <2>1, ProbingOn
  <2>4. QualTyped' /\ Agree'
    BY <1>1, <2>1, <2>2, <2>3 DEF QualInv, QualTyped, Agree
  <2>5. Locked'
    <3>1. ASSUME NEW q \in Requests PROVE Probing(q)' = Probing(q) /\ tasks'[q].world = tasks[q].world
      <4>1. CASE q = t
        BY <4>1, <2>3 DEF Probing
      <4>2. CASE q # t
        BY <4>2, <2>3 DEF Probing, Tasks
      <4> QED
        BY <4>1, <4>2
    <3> QED
      BY <2>2, <3>1 DEF QualInv, Locked
  <2>6. \A v \in Worlds : Current(v)' = Current(v)
    BY <2>1 DEF Current, Known
  <2>7. \A v \in Worlds \ {w} : Forgets(v)
    BY <1>5, <2>6, CountForgets
  <2>8. \A q \in Requests : ProbesIn(q, w)' => q = t
    <3>1. ASSUME NEW q \in Requests, q # t, ProbesIn(q, w)' PROVE FALSE
      <4>1. tasks'[q] = tasks[q]
        BY <3>1, <2>3 DEF Tasks
      <4>2. ProbesIn(q, w)
        BY <3>1, <4>1 DEF ProbesIn, Probing
      <4> QED
        BY <3>1, <4>2, OneProber
    <3> QED
      BY <3>1
  <2>9. ProbesIn(t, w)'
    BY <2>3 DEF ProbesIn
  <2>10. \A p \in Probes : ran'[w][p] > 0 =>
           /\ ran'[w][p] = 1
           /\ \A q \in Requests : ProbesIn(q, w)' => Settled(tasks'[q].record, p)
           /\ (\A q \in Requests : ~ProbesIn(q, w)') => Current(w)' # NoRecord /\ Settled(Current(w)', p)
    BY <1>4, <2>3, <2>8, <2>9
  <2>11. RanIsKnown'
    BY <1>0, <2>3, <2>7, <2>10, RanKept
  <2> QED
    BY <2>4, <2>5, <2>11 DEF QualInv
<1>7. CASE Needed(merged, Continues(t)) = {}
  <2> DEFINE stamped == [merged EXCEPT !.template = w.template]
  <2>1. /\ Record(w.digest, stamped) /\ tasks' = [tasks EXCEPT ![t] = AtRest] /\ Free(w.digest)
    BY <1>0, <1>7 DEF Pass
  <2>2. /\ Staged(stamped) /\ stamped # NoRecord /\ stamped.template = w.template
        /\ \A p \in Probes : Settled(merged, p) => Settled(stamped, p)
    <3>1. w.template \in Nat
      BY WorldFields
    <3> QED
      BY <3>1, StampKeeps
  <2> HIDE DEF stamped
  <2>3. /\ Stores(memory') /\ Stores(durable') /\ Stores(file') /\ Agree'
        /\ Current(w)' = stamped
        /\ \A v \in Worlds \ {w} : Current(v)' \in {Current(v), NoRecord}
    BY <2>1, <2>2, RecordDrops
  <2>4. TasksTyped' /\ tasks'[t] = AtRest /\ \A q \in Tasks \ {t} : tasks'[q] = tasks[q]
    BY <1>0, <2>1, AtRestIsTyped, OneTask
  <2>5. ~Probing(t)'
    BY <2>4, AtRestIsTyped DEF Probing
  <2>6. Locked' /\ lock' \in [Digests -> Requests \cup {Nobody}]
    BY <2>1, <2>4, <2>5, LockFreed
  <2>7. QualTyped'
    BY <1>1, <2>3, <2>4, <2>6 DEF QualInv, QualTyped
  <2>8. \A v \in Worlds \ {w} : Forgets(v)
    BY <1>5, <2>3, CountForgets
  <2>9. \A q \in Requests : ~ProbesIn(q, w)'
    <3>1. ASSUME NEW q \in Requests, ProbesIn(q, w)' PROVE FALSE
      <4>1. q # t
        BY <3>1, <2>5 DEF ProbesIn
      <4>2. tasks'[q] = tasks[q]
        BY <4>1, <2>4 DEF Tasks
      <4>3. ProbesIn(q, w)
        BY <3>1, <4>2 DEF ProbesIn, Probing
      <4> QED
        BY <4>1, <4>3, OneProber
    <3> QED
      BY <3>1
  <2>10. \A p \in Probes : ran'[w][p] > 0 =>
           /\ ran'[w][p] = 1
           /\ \A q \in Requests : ProbesIn(q, w)' => Settled(tasks'[q].record, p)
           /\ (\A q \in Requests : ~ProbesIn(q, w)') => Current(w)' # NoRecord /\ Settled(Current(w)', p)
    BY <1>4, <2>2, <2>3, <2>9
  <2>11. RanIsKnown'
    BY <1>0, <2>4, <2>5, <2>8, <2>10, RanKept
  <2> QED
    BY <2>3, <2>6, <2>7, <2>11 DEF QualInv
<1> QED
  BY <1>6, <1>7

LEMMA GenerateKeeps ==
  ASSUME QualInv, NEW t \in Tasks, Generate(t)
  PROVE  QualInv'
<1>0. /\ Probing(t) /\ TasksTyped /\ Continues(t) \in BOOLEAN
  BY ContinuesOrNot DEF Generate, Probing, QualInv, QualTyped
<1>1. PICK w \in Worlds : w = tasks[t].world
  BY <1>0 DEF TasksTyped, Probing
<1> DEFINE r == tasks[t].record
           probe == NextProbe(r, Continues(t))
<1>2. Staged(r) /\ Needed(r, Continues(t)) # {}
  BY <1>0 DEF TasksTyped
<1>3. PICK passed \in BOOLEAN :
        /\ Pass(t, MergeProbe(r, probe, passed))
        /\ Needed(MergeProbe(r, probe, passed), Continues(t)) # {} => UNCHANGED memory
  BY DEF Generate
<1>4. /\ Count(IF t = Api THEN {} ELSE {<<w, probe>>}) /\ UNCHANGED <<served, cached>>
  BY <1>1 DEF Generate
<1> DEFINE merged == MergeProbe(r, probe, passed)
<1>5. /\ Pass(t, merged) /\ (Needed(merged, Continues(t)) # {} => UNCHANGED memory)
  BY <1>3
<1>6. /\ probe \in Probes /\ Staged(merged) /\ merged # NoRecord
      /\ ~Settled(r, probe) /\ Settled(merged, probe)
      /\ \A p \in Probes : Settled(r, p) => Settled(merged, p)
  <2> HIDE DEF r
  <2> QED
    BY <1>0, <1>2, ProbeSettles
<1> HIDE DEF merged, probe
<1>7. CASE t # Api
  <2>1. t \in Requests
    BY <1>7 DEF Tasks
  <2>2. Count({<<w, probe>>})
    BY <1>4, <1>7
  <2> QED
    BY <1>0, <1>1, <1>4, <1>5, <1>6, <2>1, <2>2, RequestGenerates
<1>8. CASE t = Api
  <2>1. Count({}) /\ t \notin Requests /\ Continues(t) = TRUE
    BY <1>4, <1>8, QualificationAssumption DEF Continues
  <2>2. CASE Needed(merged, TRUE) # {}
    <3>1. /\ tasks' = [tasks EXCEPT ![t].at = "probing", ![t].record = merged]
          /\ lock' = lock /\ UNCHANGED <<memory, durable, file>>
      BY <1>5, <1>8, <2>1, <2>2 DEF Pass
    <3>2. TasksTyped' /\ \A q \in Tasks \ {t} : tasks'[q] = tasks[q]
      BY <1>0, <1>1, <1>6, <2>1, <2>2, <3>1, ProbingOn
    <3>3. \A v \in Worlds : Current(v)' = Current(v)
      BY <3>1 DEF Current, Known
    <3>4. \A v \in Worlds : Forgets(v)
      BY <2>1, <3>3, CountForgets
    <3>5. Locked' /\ RanIsKnown'
      BY <2>1, <3>1, <3>2, <3>4, LockedAside, RanForgotten
    <3>6. ran' \in [Worlds -> [Probes -> Nat]]
      BY <2>1, CountTyped
    <3>7. QualTyped' /\ Agree'
      BY <1>4, <3>1, <3>2, <3>6 DEF QualInv, QualTyped, Agree
    <3> QED
      BY <3>5, <3>7 DEF QualInv
  <2>3. CASE Needed(merged, TRUE) = {}
    <3>1. /\ Record(w.digest, [merged EXCEPT !.template = w.template]) /\ tasks' = [tasks EXCEPT ![Api] = AtRest]
          /\ lock' = lock
      BY <1>1, <1>5, <1>8, <2>1, <2>3 DEF Pass
    <3> QED
      BY <1>4, <1>6, <2>1, <2>3, <3>1, ApiRecords
  <2> QED
    BY <2>2, <2>3
<1> QED
  BY <1>7, <1>8

LEMMA QualInvStep == QualInv /\ [QualificationNext]_qualificationVars => QualInv'
<1> SUFFICES ASSUME QualInv, [QualificationNext]_qualificationVars PROVE QualInv'
  OBVIOUS
<1>1. ASSUME UNCHANGED qualificationVars PROVE QualInv'
  <2>1. UNCHANGED <<served, cached, memory, durable, file, lock, tasks, ran>>
    BY <1>1 DEF qualificationVars
  <2>2. QualTyped'
    BY <2>1 DEF QualInv, QualTyped, TasksTyped, Probing
  <2>3. Agree' /\ Locked'
    BY <2>1 DEF QualInv, Agree, Locked, Probing
  <2>4. \A q \in Requests : /\ Probing(q)' <=> Probing(q)
                            /\ Probing(q) => tasks'[q] = tasks[q]
    BY <2>1 DEF Probing
  <2>5. RanIsKnown'
    BY <2>1, <2>4, RanForgotten, UntouchedForgets
  <2> QED
    BY <2>2, <2>3, <2>5 DEF QualInv
<1>2. ASSUME QualificationNext PROVE QualInv'
  BY <1>2, InspectKeeps, GenerateKeeps, FailKeeps, EnsureKeeps, QualifyRouteKeeps, OutsideKeeps,
     ChooseControllerKeeps, RestartKeeps DEF QualificationNext
<1> QED
  BY <1>1, <1>2

\* A record at which State says sequential_agent proves both.
LEMMA AgentProvesBoth ==
  ASSUME NEW r, Levels[State(r)] >= 3
  PROVE  Forced(r) /\ r.continuation = "passed"
<1>1. CASE Forced(r) /\ r.continuation = "passed"
  BY <1>1
<1>2. CASE Forced(r) /\ r.continuation # "passed"
  <2>1. State(r) = "forced_tool"
    BY <1>2 DEF State
  <2> QED
    BY <2>1 DEF Levels
<1>3. CASE ~Forced(r)
  <2>1. State(r) = "degraded"
    BY <1>3 DEF State
  <2> QED
    BY <2>1 DEF Levels
<1> QED
  BY <1>1, <1>2, <1>3

LEMMA QualInvSound == QualInv => QualificationSound
<1> SUFFICES ASSUME QualInv PROVE QualificationSound
  OBVIOUS
<1>1. StagedEvidence
  <2>1. ASSUME NEW r \in Kept \ {NoRecord} PROVE Staged(r)
    <3>1. CASE \E t \in Tasks : r = tasks[t].record
      BY <2>1, <3>1 DEF QualInv, QualTyped, TasksTyped
    <3>2. CASE \E d \in Digests : r \in {memory[d], durable[d], file[d]}
      BY <2>1, <3>2 DEF QualInv, QualTyped, Stores
    <3>3. r \in {tasks[t].record : t \in Tasks} \/ r \in UNION {{c[d] : d \in Digests} : c \in {memory, durable, file}}
      BY <2>1 DEF Kept
    <3> QED
      BY <3>1, <3>2, <3>3
  <2>2. \A r \in Kept \ {NoRecord} :
          /\ r.prompted # "unknown" => r.native = "failed"
          /\ r.continuation # "unknown" => Forced(r)
    BY <2>1 DEF Staged
  <2>3. \A w \in Worlds : AgentQualified(w) => Forced(Current(w)) /\ Current(w).continuation = "passed"
    BY AgentProvesBoth DEF AgentQualified
  <2> QED
    BY <2>2, <2>3 DEF StagedEvidence
<1>2. ProbedOnce
  <2>1. \A w \in Worlds, p \in Probes : ran[w][p] <= 1
    BY DEF QualInv, QualTyped, RanIsKnown
  <2>2. ASSUME NEW t \in Requests
        PROVE  {d \in Digests : lock[d] = t} = IF tasks[t].at = "probing" THEN {tasks[t].world.digest} ELSE {}
    <3>1. \A d \in Digests : lock[d] = t <=> Probing(t) /\ tasks[t].world.digest = d
      BY DEF QualInv, Locked
    <3>2. Probing(t) => tasks[t].world.digest \in Digests
      BY WorldFields DEF QualInv, QualTyped, TasksTyped, Tasks, Probing
    <3>3. CASE Probing(t)
      <4>1. {d \in Digests : lock[d] = t} = {tasks[t].world.digest}
        BY <3>1, <3>2, <3>3
      <4>2. tasks[t].at = "probing"
        BY <3>3 DEF Probing
      <4> QED
        BY <4>1, <4>2
    <3>4. CASE ~Probing(t)
      <4>1. {d \in Digests : lock[d] = t} = {}
        BY <3>1, <3>4
      <4>2. tasks[t].at # "probing"
        BY <3>4 DEF Probing
      <4> QED
        BY <4>1, <4>2
    <3> QED
      BY <3>3, <3>4
  <2> QED
    BY <2>1, <2>2 DEF ProbedOnce
<1> QED
  BY <1>1, <1>2 DEF QualificationSound

-----------------------------------------------------------------------------
(* The type of what is known of the models. *)

Templates == {w.template : w \in Worlds}
Stamped(view) == \A d \in Digests : view[d] # NoRecord => view[d].template \in Templates
Stations == {"idle", "inspected", "waiting", "probing"}

\* A record that is kept was stamped with a template the backend serves.
QualFits ==
  /\ Stamped(memory) /\ Stamped(durable) /\ Stamped(file)
  /\ \A t \in Tasks : tasks[t].at \in Stations
  /\ upsets \in 0 .. MaxUpsets

LEMMA QualFitsInit == QualificationInit => QualFits
<1> SUFFICES ASSUME QualificationInit PROVE QualFits
  OBVIOUS
<1>1. /\ \A d \in Digests : memory[d] = NoRecord /\ durable[d] = NoRecord /\ file[d] = NoRecord
      /\ \A t \in Tasks : tasks[t] = AtRest
  BY DEF QualificationInit, Empty
<1> QED
  BY <1>1, QualificationAssumption DEF QualificationInit, QualFits, Stamped, Stations, AtRest

LEMMA PutStamped ==
  ASSUME NEW view, Stamped(view), NEW d \in Digests, NEW r, r.template \in Templates
  PROVE  Stamped(Put(view, d, r))
<1> DEFINE full == {e \in Digests : e = d \/ view[e] # NoRecord}
           left == {e \in full : Cardinality({f \in full : f > e}) < MaxRecords}
<1>1. Put(view, d, r) = [e \in Digests |-> IF e \notin left THEN NoRecord ELSE IF e = d THEN r ELSE view[e]]
  BY DEF Put
<1> HIDE DEF left
<1> QED
  BY <1>1 DEF Stamped

\* A look at the records of a world moves one from the store to memory at most.
LEMMA RememberStamped ==
  ASSUME QualInv, QualFits, NEW w \in Worlds, Remember(w)
  PROVE  Stamped(memory')
<1> DEFINE d == w.digest
<1>1. d \in Digests /\ Stores(memory)
  BY WorldFields DEF QualInv, QualTyped
<1>2. Current(w) \in {memory[d], durable[d], NoRecord}
  BY DEF Current, Known
<1>3. memory'[d] = Current(w) /\ \A e \in Digests \ {d} : memory'[e] = memory[e]
  BY <1>1 DEF Remember, Stores
<1> QED
  BY <1>1, <1>2, <1>3 DEF Stamped, QualFits

LEMMA RecordStamped ==
  ASSUME QualInv, QualFits, NEW w \in Worlds, NEW r, r.template = w.template, Record(w.digest, r)
  PROVE  Stamped(memory') /\ Stamped(durable') /\ Stamped(file')
<1> DEFINE d == w.digest
<1>1. d \in Digests /\ Stores(memory) /\ r.template \in Templates
  BY WorldFields DEF QualInv, QualTyped, Templates
<1>2. memory'[d] = r /\ \A e \in Digests \ {d} : memory'[e] = memory[e]
  BY <1>1 DEF Record, Stores
<1>3. Stamped(memory')
  BY <1>1, <1>2 DEF Stamped, QualFits
<1>4. Stamped(durable') /\ file' = durable'
  BY <1>1, PutStamped DEF Record, QualFits
<1> QED
  BY <1>3, <1>4

\* One task moves to a known station.
LEMMA StationKept ==
  ASSUME QualInv, QualFits, NEW t \in Tasks, NEW new, tasks' = [tasks EXCEPT ![t] = new], new.at \in Stations
  PROVE  \A q \in Tasks : tasks'[q].at \in Stations
<1>1. tasks' = [q \in Tasks |-> tasks'[q]] /\ \A q \in Tasks : tasks'[q] = IF q = t THEN new ELSE tasks[q]
  BY DEF QualInv, QualTyped, TasksTyped
<1> QED
  BY <1>1 DEF QualFits

\* A pass runs its next probe, or ends with a stamped record.
LEMMA PassFits ==
  ASSUME QualInv, QualFits, NEW t \in Tasks, NEW r, Staged(r), tasks[t].at # "idle", Pass(t, r),
         Needed(r, Continues(t)) # {} => Stamped(memory')
  PROVE  /\ Stamped(memory') /\ Stamped(durable') /\ Stamped(file')
         /\ \A q \in Tasks : tasks'[q].at \in Stations
<1>1. PICK w \in Worlds : w = tasks[t].world
  BY DEF QualInv, QualTyped, TasksTyped
<1>2. CASE Needed(r, Continues(t)) # {}
  <2>1. tasks' = [tasks EXCEPT ![t].at = "probing", ![t].record = r] /\ UNCHANGED <<durable, file>>
    BY <1>2 DEF Pass
  <2>2. Probing(t)' /\ \A q \in Tasks \ {t} : tasks'[q] = tasks[q]
    <3>1. r # NoRecord
      BY NotNoRecord DEF Staged
    <3> QED
      BY <1>1, <1>2, <2>1, <3>1, ProbingOn DEF QualInv, QualTyped
  <2>4. \A q \in Tasks : tasks'[q].at \in Stations
    <3>1. tasks'[t].at \in Stations
      BY <2>2 DEF Probing, Stations
    <3> QED
      BY <2>2, <3>1 DEF QualFits
  <2> QED
    BY <1>2, <2>1, <2>4 DEF QualFits
<1>3. CASE Needed(r, Continues(t)) = {}
  <2>1. PICK stamped : stamped = [r EXCEPT !.template = w.template]
    OBVIOUS
  <2>2. Record(w.digest, stamped) /\ tasks' = [tasks EXCEPT ![t] = AtRest]
    BY <1>1, <1>3, <2>1 DEF Pass
  <2>3. stamped.template = w.template
    BY <1>1, <2>1, WorldFields, StampKeeps
  <2>4. Stamped(memory') /\ Stamped(durable') /\ Stamped(file')
    BY <2>2, <2>3, RecordStamped
  <2>5. \A q \in Tasks : tasks'[q].at \in Stations
    BY <2>2, StationKept, AtRestIsTyped DEF Stations
  <2> QED
    BY <2>4, <2>5
<1> QED
  BY <1>2, <1>3

LEMMA QualFitsStep == QualInv /\ QualFits /\ [QualificationNext]_qualificationVars => QualFits'
<1> SUFFICES ASSUME QualInv, QualFits, [QualificationNext]_qualificationVars PROVE QualFits'
  OBVIOUS
<1>1. ASSUME NEW t \in Tasks, Inspect(t) PROVE QualFits'
  <2>0. PICK w : tasks' = [tasks EXCEPT ![t] = [at |-> "inspected", world |-> w, record |-> NoRecord]]
    BY <1>1 DEF Inspect
  <2>1. PICK new : /\ new = [at |-> "inspected", world |-> w, record |-> NoRecord]
                   /\ new.at = "inspected" /\ tasks' = [tasks EXCEPT ![t] = new]
    BY <2>0
  <2>2. \A q \in Tasks : tasks'[q].at \in Stations
    BY <2>1, StationKept DEF Stations
  <2> QED
    BY <1>1, <2>2 DEF Inspect, QualFits, Stamped
<1>2. ASSUME NEW t \in Tasks, Generate(t) PROVE QualFits'
  <2>0. tasks[t].at = "probing" /\ upsets' = upsets
    BY <1>2 DEF Generate
  <2>1. PICK r : r = tasks[t].record /\ Staged(r) /\ Needed(r, Continues(t)) # {}
    BY <2>0 DEF QualInv, QualTyped, TasksTyped, Probing
  <2>2. PICK passed \in BOOLEAN :
          LET merged == MergeProbe(r, NextProbe(r, Continues(t)), passed)
          IN  Pass(t, merged) /\ (Needed(merged, Continues(t)) # {} => UNCHANGED memory)
    BY <1>2, <2>1 DEF Generate
  <2>3. PICK merged : merged = MergeProbe(r, NextProbe(r, Continues(t)), passed)
    OBVIOUS
  <2>4. Pass(t, merged) /\ (Needed(merged, Continues(t)) # {} => UNCHANGED memory)
    BY <2>2, <2>3
  <2>5. Continues(t) \in BOOLEAN
    BY DEF Continues
  <2>6. Staged(merged)
    BY <2>1, <2>3, <2>5, ProbeSettles
  <2>7. Needed(merged, Continues(t)) # {} => Stamped(memory')
    BY <2>4 DEF QualFits, Stamped
  <2>8. /\ Stamped(memory') /\ Stamped(durable') /\ Stamped(file')
        /\ \A q \in Tasks : tasks'[q].at \in Stations
    BY <2>0, <2>4, <2>6, <2>7, PassFits
  <2> QED
    BY <2>0, <2>8 DEF QualFits
<1>3. ASSUME NEW t \in Tasks, Fail(t) PROVE QualFits'
  <2>1. /\ tasks' = [tasks EXCEPT ![t] = AtRest] /\ upsets < MaxUpsets /\ upsets' = upsets + 1
        /\ UNCHANGED <<memory, durable, file>>
    BY <1>3 DEF Fail, Upset
  <2>2. \A q \in Tasks : tasks'[q].at \in Stations
    BY <2>1, StationKept, AtRestIsTyped DEF Stations
  <2> QED
    BY <2>1, <2>2, QualificationAssumption DEF QualFits, Stamped
<1>4. ASSUME NEW t \in Tasks, Ensure(t) \/ (t = Api /\ QualifyRoute) PROVE QualFits'
  <2>1. PICK w \in Worlds : w = tasks[t].world
    BY <1>4 DEF Ensure, QualifyRoute, QualInv, QualTyped, TasksTyped
  <2>2. tasks[t].at # "idle" /\ upsets' = upsets
    BY <1>4 DEF Ensure, QualifyRoute
  <2>3. Staged(Starting(t))
    BY <2>1, StartIsStaged
  <2>4. PICK r : r = Starting(t)
    OBVIOUS
  <2>5. ASSUME Pass(t, r), Needed(r, Continues(t)) # {} => Remember(w) PROVE QualFits'
    <3>1. Needed(r, Continues(t)) # {} => Stamped(memory')
      BY <2>5, RememberStamped
    <3>2. /\ Stamped(memory') /\ Stamped(durable') /\ Stamped(file')
          /\ \A q \in Tasks : tasks'[q].at \in Stations
      BY <2>2, <2>3, <2>4, <2>5, <3>1, PassFits
    <3> QED
      BY <2>2, <3>2 DEF QualFits
  <2>6. ASSUME Remember(w), UNCHANGED <<durable, file>>,
               \/ tasks' = [tasks EXCEPT ![t] = AtRest] \/ tasks' = [tasks EXCEPT ![t].at = "waiting"]
        PROVE  QualFits'
    <3>1. PICK new : tasks' = [tasks EXCEPT ![t] = new] /\ new.at \in Stations
      <4>1. CASE tasks' = [tasks EXCEPT ![t] = AtRest]
        BY <4>1, AtRestIsTyped DEF Stations
      <4>2. CASE tasks' = [tasks EXCEPT ![t].at = "waiting"]
        <5>1. [tasks[t] EXCEPT !.at = "waiting"].at = "waiting"
          BY DEF QualInv, QualTyped, TasksTyped
        <5> QED
          BY <4>2, <5>1 DEF Stations
      <4> QED
        BY <2>6, <4>1, <4>2
    <3>2. \A q \in Tasks : tasks'[q].at \in Stations
      BY <3>1, StationKept
    <3>3. Stamped(memory') /\ Stamped(durable') /\ Stamped(file')
      BY <2>6, RememberStamped DEF QualFits, Stamped
    <3> QED
      BY <2>2, <3>2, <3>3 DEF QualFits
  <2>7. CASE Ensure(t)
    <3>1. \/ Remember(w) /\ UNCHANGED <<durable, file>> /\
               (tasks' = [tasks EXCEPT ![t] = AtRest] \/ tasks' = [tasks EXCEPT ![t].at = "waiting"])
          \/ Remember(w) /\ Pass(t, r)
      BY <2>1, <2>4, <2>7 DEF Ensure
    <3> QED
      BY <3>1, <2>5, <2>6
  <2>8. CASE t = Api /\ QualifyRoute
    <3>1. Continues(t) = TRUE
      BY <2>8 DEF Continues
    <3>2. Pass(t, r) /\ (Needed(r, Continues(t)) # {} => Remember(w))
      BY <2>1, <2>4, <2>8, <3>1 DEF QualifyRoute
    <3> QED
      BY <3>2, <2>5
  <2> QED
    BY <1>4, <2>7, <2>8
<1>5. CASE ChooseController
  <2>1. PICK w \in Worlds : Remember(w)
    BY <1>5 DEF ChooseController, QualInv, QualTyped
  <2>2. Stamped(memory')
    BY <2>1, RememberStamped
  <2> QED
    BY <1>5, <2>2 DEF ChooseController, QualFits, Stamped
<1>6. CASE OtherRecords
  <2>1. PICK r : r = [Fresh EXCEPT !.native = "passed", !.continuation = "passed", !.template = served.template]
    OBVIOUS
  <2>2. r.template = served.template /\ served \in Worlds
    BY <2>1 DEF Fresh, QualInv, QualTyped
  <2>3. r.template \in Templates /\ served.digest \in Digests
    BY <2>2 DEF Templates, Digests
  <2>4. /\ file' = Put(file, served.digest, r) /\ UNCHANGED <<memory, durable, tasks>>
        /\ upsets < MaxUpsets /\ upsets' = upsets + 1
    BY <1>6, <2>1 DEF OtherRecords, Upset
  <2>5. Stamped(file')
    BY <2>3, <2>4, PutStamped DEF QualFits
  <2> QED
    BY <2>4, <2>5, QualificationAssumption DEF QualFits, Stamped
<1>7. CASE Restart
  <2>1. /\ memory' = Empty /\ durable' = file /\ file' = file /\ tasks' = [t \in Tasks |-> AtRest]
        /\ upsets < MaxUpsets /\ upsets' = upsets + 1
    BY <1>7 DEF Restart, Upset
  <2>2. Stamped(memory')
    BY <2>1 DEF Empty, Stamped
  <2> QED
    BY <2>1, <2>2, AtRestIsTyped, QualificationAssumption DEF QualFits, Stamped, Stations
<1>8. CASE Repoint
  BY <1>8, QualificationAssumption DEF Repoint, Upset, QualFits, Stamped
<1>9. CASE Expire \/ UNCHANGED qualificationVars
  BY <1>9 DEF Expire, qualificationVars, QualFits, Stamped
<1> QED
  BY <1>1, <1>2, <1>3, <1>4, <1>5, <1>6, <1>7, <1>8, <1>9 DEF QualificationNext, Tasks

LEMMA StampedIsCached ==
  ASSUME NEW view, Stores(view), Stamped(view)
  PROVE  view \in Cache
<1>1. \A d \in Digests : view[d] \in QualRecords \union {NoRecord}
  <2>1. ASSUME NEW d \in Digests, view[d] # NoRecord PROVE view[d] \in QualRecords
    <3>1. view[d] \in Evidence /\ view[d].template \in Templates
      BY <2>1 DEF Stores, Stamped, Staged
    <3> QED
      BY <3>1 DEF Evidence, QualRecords, Templates
  <2> QED
    BY <2>1
<1> QED
  BY <1>1 DEF Stores, Cache

LEMMA QualificationIsTyped == QualInv /\ QualFits => QualificationTypeOK
BY StampedIsCached DEF QualInv, QualTyped, QualFits, QualificationTypeOK, Stations

=============================================================================
