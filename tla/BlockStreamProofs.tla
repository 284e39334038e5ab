------------------------- MODULE BlockStreamProofs -------------------------
(***************************************************************************)
(* Proofs about BlockStream for every number of threads, chunk size, range *)
(* and number of sessions: the consumer gets the blocks in order, a query  *)
(* is answered by its own worker only, a consumed stream leaves no thread. *)
(***************************************************************************)
EXTENDS BlockStream, SequenceTheorems, TLAPS

(***************************************************************************)
(* The inductive invariant                                                 *)
(***************************************************************************)

IsRunning == phase \in Running

\* Threads exist for the sessions that were opened, no others.
OpenedOnly == \A w \in live : w[1] <= session

\* While the stream runs no thread of its session has ended, the free ones
\* are free once and do nothing, and the others are at a query.
PoolInv ==
  IsRunning =>
    /\ session > 0
    /\ SessionWorkers(session) \subseteq live
    /\ \A i \in DOMAIN free : free[i] \in SessionWorkers(session) \ DOMAIN busy
    /\ \A i, j \in DOMAIN free : free[i] = free[j] => i = j
    /\ \A w \in SessionWorkers(session) \ DOMAIN busy :
         \E i \in DOMAIN free : free[i] = w

\* Every query without an answer is at its worker, and a working thread has
\* such a query.
QueryInv ==
  IsRunning =>
    /\ \A i \in DOMAIN queries :
         /\ queries[i].worker \in SessionWorkers(session)
         /\ ~queries[i].answered =>
              /\ queries[i].worker \in DOMAIN busy
              /\ busy[queries[i].worker].from = queries[i].from
              /\ busy[queries[i].worker].to = queries[i].to
    /\ \A w \in SessionWorkers(session) \cap DOMAIN busy :
         \E i \in DOMAIN queries : queries[i].worker = w /\ ~queries[i].answered

\* Where query i begins: where the one before it ends.
Begin(i) == IF i \in DOMAIN queries THEN queries[i].from ELSE offset

\* The blocks the generator has taken out of the answers so far end here.
Position == range.start + Len(delivered) + Len(ready)

\* A range that is not empty is cut without gap or overlap: what is
\* delivered, what is ready, the queries in their order, the rest.
CutInv ==
  IsRunning /\ range.start <= range.end =>
    /\ offset <= range.end
    /\ Begin(1) = Position
    /\ \A i \in DOMAIN queries :
         queries[i].from <= queries[i].to /\ queries[i].to = Begin(i + 1)

\* A range that ends below its start is handed out once and yields nothing.
EmptyInv ==
  IsRunning /\ range.end < range.start =>
    /\ offset \in {range.start, range.end}
    /\ delivered = <<>> /\ ready = <<>>
    /\ \A i \in DOMAIN queries : queries[i].to <= queries[i].from

\* What is ready follows what is delivered; the blocks of a query are ready
\* only while they are yielded.
ReadyInv ==
  /\ \A i \in DOMAIN ready : ready[i] = range.start + Len(delivered) + i
  /\ phase \in {"handout", "await"} => ready = <<>>
  /\ phase = "await" => queries # <<>>

StreamInv ==
  /\ StreamTypeOK
  /\ OpenedOnly
  /\ PoolInv
  /\ QueryInv
  /\ CutInv
  /\ EmptyInv
  /\ ReadyInv
  /\ InOrder
  /\ ReleasedAtEnd


(***************************************************************************)
(* Facts about sequences and about the operators of the model              *)
(***************************************************************************)

\* What is left of a sequence when its head is taken.
LEMMA TailFacts ==
  ASSUME NEW S, NEW s \in Seq(S), s # <<>>
  PROVE  /\ Head(s) = s[1] /\ Head(s) \in S /\ 1 \in DOMAIN s
         /\ Tail(s) \in Seq(S) /\ Len(Tail(s)) = Len(s) - 1 /\ Len(s) \in Nat \ {0}
         /\ DOMAIN s = 1..Len(s) /\ DOMAIN Tail(s) = 1..(Len(s) - 1)
         /\ \A i \in DOMAIN Tail(s) : i + 1 \in DOMAIN s /\ Tail(s)[i] = s[i + 1]
         /\ \A i \in DOMAIN s : i # 1 => i - 1 \in DOMAIN Tail(s) /\ Tail(s)[i - 1] = s[i]
<1>1. Len(s) \in Nat \ {0} /\ DOMAIN s = 1..Len(s)
  BY EmptySeq, LenProperties
<1>2. /\ Head(s) \in S /\ Tail(s) \in Seq(S) /\ Len(Tail(s)) = Len(s) - 1
      /\ \A i \in 1..Len(Tail(s)) : Tail(s)[i] = s[i + 1]
  BY HeadTailProperties
<1>3. DOMAIN Tail(s) = 1..(Len(s) - 1)
  BY <1>2, LenProperties
<1>4. Head(s) = s[1]
  BY <1>1
<1>5. \A i \in DOMAIN Tail(s) : i + 1 \in DOMAIN s /\ Tail(s)[i] = s[i + 1]
  BY <1>1, <1>2, <1>3
<1>6. \A i \in DOMAIN s : i # 1 => i - 1 \in DOMAIN Tail(s) /\ Tail(s)[i - 1] = s[i]
  BY <1>1, <1>2, <1>3
<1> QED
  BY <1>1, <1>2, <1>3, <1>4, <1>5, <1>6

\* What a sequence is when an element was appended.
LEMMA AppendFacts ==
  ASSUME NEW S, NEW s \in Seq(S), NEW e \in S
  PROVE  /\ Append(s, e) \in Seq(S) /\ Len(Append(s, e)) = Len(s) + 1 /\ Len(s) \in Nat
         /\ DOMAIN s = 1..Len(s) /\ DOMAIN Append(s, e) = 1..(Len(s) + 1)
         /\ \A i \in DOMAIN s : Append(s, e)[i] = s[i]
         /\ Append(s, e)[Len(s) + 1] = e
<1>1. Len(s) \in Nat /\ DOMAIN s = 1..Len(s)
  BY LenProperties
<1>2. /\ Append(s, e) \in Seq(S) /\ Len(Append(s, e)) = Len(s) + 1
      /\ \A i \in 1..Len(s) : Append(s, e)[i] = s[i]
      /\ Append(s, e)[Len(s) + 1] = e
  BY AppendProperties
<1>3. DOMAIN Append(s, e) = 1..(Len(s) + 1)
  BY <1>2, LenProperties
<1> QED
  BY <1>1, <1>2, <1>3

\* The threads of a session are named by it.
LEMMA SessionFacts ==
  /\ \A n \in 1..MaxSessions : SessionWorkers(n) \subseteq Workers
  /\ \A n : \A w \in SessionWorkers(n) : w[1] = n
  /\ \A w \in Workers : w \in SessionWorkers(w[1])
BY DEF SessionWorkers, Workers

\* The threads a new session starts, in the order they become free.
NewPool(n) == [i \in 1..Threads |-> <<n, i>>]

LEMMA NewPoolFacts ==
  ASSUME NEW n \in 1..MaxSessions
  PROVE  /\ NewPool(n) \in Seq(Workers)
         /\ \A i \in DOMAIN NewPool(n) : NewPool(n)[i] \in SessionWorkers(n)
         /\ \A i, j \in DOMAIN NewPool(n) : NewPool(n)[i] = NewPool(n)[j] => i = j
         /\ \A w \in SessionWorkers(n) : \E i \in DOMAIN NewPool(n) : NewPool(n)[i] = w
<1> DEFINE pool == NewPool(n)
<1>1. DOMAIN pool = 1..Threads /\ \A i \in 1..Threads : pool[i] = <<n, i>>
  BY DEF NewPool
<1>2. \A i \in 1..Threads : pool[i] \in Workers /\ pool[i] \in SessionWorkers(n)
  BY <1>1 DEF Workers, SessionWorkers
<1>3. pool \in Seq(Workers)
  BY <1>1, <1>2, ThreadsAssumption DEF NewPool
<1>4. \A i, j \in DOMAIN pool : pool[i] = pool[j] => i = j
  BY <1>1
<1>5. \A w \in SessionWorkers(n) : \E i \in DOMAIN pool : pool[i] = w
  <2> TAKE w \in SessionWorkers(n)
  <2>1. PICK i \in 1..Threads : w = <<n, i>>
    BY DEF SessionWorkers
  <2> QED
    BY <1>1, <2>1
<1> QED
  BY <1>1, <1>2, <1>3, <1>4, <1>5

\* A chunk stays in the range and is not empty unless nothing is left.
LEMMA WorkerEndFacts ==
  ASSUME StreamTypeOK
  PROVE  /\ WorkerEnd \in Heights
         /\ offset <= range.end => offset <= WorkerEnd /\ WorkerEnd <= range.end
         /\ offset <= range.end /\ offset = WorkerEnd => offset = range.end
         /\ range.end <= offset => WorkerEnd = range.end
<1>1. offset \in 0..MaxHeight /\ range.end \in 0..MaxHeight
  BY DEF StreamTypeOK, Heights
<1> QED
  BY <1>1, ChunkSizeAssumption, BoundsAssumption DEF WorkerEnd, Heights

\* The heights of a part of the range.
LEMMA HeightsOfFacts ==
  ASSUME NEW part, part.from \in Heights, part.to \in Heights
  PROVE  /\ HeightsOf(part) \in Seq(Heights)
         /\ \A i \in DOMAIN HeightsOf(part) : HeightsOf(part)[i] = part.from + i /\ i \in Nat
         /\ part.from <= part.to => Len(HeightsOf(part)) = part.to - part.from
         /\ part.to <= part.from => HeightsOf(part) = <<>>
<1> DEFINE n == part.to - part.from
           h == HeightsOf(part)
<1>1. part.from \in Nat /\ part.to \in Nat /\ part.to <= MaxHeight /\ MaxHeight \in Nat /\ n \in Int
  BY BoundsAssumption DEF Heights
<1>2. DOMAIN h = 1..n /\ \A i \in 1..n : h[i] = part.from + i
  BY DEF HeightsOf
<1>3. \A i \in 1..n : h[i] \in Heights
  BY <1>1, <1>2 DEF Heights
<1>4. CASE n > 0
  <2>1. h \in Seq(Heights)
    BY <1>1, <1>3, <1>4 DEF HeightsOf
  <2>2. Len(h) = n
    BY <1>1, <1>2, <1>4, <2>1, LenProperties
  <2> QED
    BY <1>1, <1>2, <1>4, <2>1, <2>2
<1>5. CASE n <= 0
  <2>1. 1..n = {}
    BY <1>1, <1>5
  <2>2. h = <<>>
    BY <1>2, <2>1 DEF HeightsOf
  <2> QED
    BY <1>1, <1>2, <1>5, <2>1, <2>2, EmptySeq
<1> QED
  BY <1>1, <1>4, <1>5

(***************************************************************************)
(* Each step keeps the invariant                                           *)
(***************************************************************************)

LEMMA InitKeeps == StreamInit => StreamInv
<1> SUFFICES ASSUME StreamInit PROVE StreamInv
  OBVIOUS
<1>1. StreamTypeOK
  <2>1. 0 \in Heights /\ 0 \in 0..MaxSessions
    BY BoundsAssumption DEF Heights
  <2>2. free \in Seq(Workers) /\ queries \in Seq(Queries) /\ ready \in Seq(Heights) /\ delivered \in Seq(Heights)
    BY EmptySeq DEF StreamInit
  <2>3. DOMAIN busy = {}
    BY DEF StreamInit
  <2> QED
    BY <2>1, <2>2, <2>3 DEF StreamTypeOK, StreamInit, Phases
<1>2. ~IsRunning /\ phase \notin {"handout", "await"} /\ phase # "done"
  BY DEF StreamInit, IsRunning, Running
<1>3. DOMAIN ready = {} /\ DOMAIN delivered = {}
  BY DEF StreamInit
<1> QED
  BY <1>1, <1>2, <1>3 DEF StreamInit, StreamInv, OpenedOnly, PoolInv, QueryInv, CutInv, EmptyInv,
                          ReadyInv, InOrder, ReleasedAtEnd

\* However a stream stops running: its arrays are dropped, its threads that
\* were free are gone.
LEMMA StopKeeps ==
  ASSUME StreamInv,
         phase' \in Phases \ Running,
         session' = session, range' = range, offset' = offset, delivered' = delivered,
         free' = <<>>, queries' = <<>>, ready' = <<>>,
         live' \subseteq live, DOMAIN busy' \subseteq live', \A w \in DOMAIN busy' : busy'[w] \in Jobs,
         phase' = "done" =>
           /\ live' \cap SessionWorkers(session) = {}
           /\ Len(delivered) = (IF range.end > range.start THEN range.end - range.start ELSE 0)
  PROVE  StreamInv'
<1>1. StreamTypeOK'
  BY EmptySeq DEF StreamInv, StreamTypeOK
<1>2. ~IsRunning' /\ phase' \notin {"handout", "await"}
  BY DEF IsRunning, Running
<1>3. DOMAIN ready' = {}
  OBVIOUS
<1> QED
  BY <1>1, <1>2, <1>3 DEF StreamInv, OpenedOnly, PoolInv, QueryInv, CutInv, EmptyInv,
                          ReadyInv, InOrder, ReleasedAtEnd

\* The finally block of the generator.
LEMMA FinishKeeps ==
  ASSUME StreamInv, IsRunning, NEW how \in Phases \ Running, Finish(how),
         how = "done" =>
           /\ (live \ ToSet(free)) \cap SessionWorkers(session) = {}
           /\ Len(delivered) = (IF range.end > range.start THEN range.end - range.start ELSE 0)
  PROVE  StreamInv'
<1>1. DOMAIN busy \subseteq live \ ToSet(free)
  BY DEF StreamInv, StreamTypeOK, PoolInv, ToSet
<1>2. \A w \in DOMAIN busy : busy[w] \in Jobs
  BY DEF StreamInv, StreamTypeOK
<1> QED
  BY <1>1, <1>2, StopKeeps DEF Finish

LEMMA LeaveKeeps == ASSUME StreamInv, Leave PROVE StreamInv'
BY FinishKeeps DEF Leave, IsRunning, Running, Phases

LEMMA OldestFailsKeeps == ASSUME StreamInv, OldestFails PROVE StreamInv'
<1> DEFINE w == Head(queries).worker
<1>1. IsRunning
  BY DEF OldestFails, IsRunning, Running
<1>2. DOMAIN busy \subseteq live \ ToSet(free)
  BY <1>1 DEF StreamInv, StreamTypeOK, PoolInv, ToSet
<1>3. /\ busy' = [x \in DOMAIN busy \ {w} |-> busy[x]]
      /\ live' = live \ ({w} \cup ToSet(free))
  BY DEF OldestFails, Idle
<1>4. DOMAIN busy' \subseteq live' /\ \A x \in DOMAIN busy' : busy'[x] \in Jobs
  BY <1>2, <1>3 DEF StreamInv, StreamTypeOK
<1>5. phase' = "failed" /\ phase' \in Phases \ Running
  BY DEF OldestFails, Phases, Running
<1> QED
  BY <1>3, <1>4, <1>5, StopKeeps DEF OldestFails

LEMMA OtherFailsKeeps == ASSUME StreamInv, NEW w \in Workers, OtherFails(w) PROVE StreamInv'
<1>1. DOMAIN busy' = {}
  BY DEF OtherFails
<1>2. phase' = "crashed" /\ phase' \in Phases \ Running
  BY DEF OtherFails, Phases, Running
<1> QED
  BY <1>1, <1>2, StopKeeps DEF OtherFails

\* The range is consumed when nothing is left to hand out and no query is
\* open: every thread is free then, and the blocks end where the range does.
LEMMA RangeDoneKeeps == ASSUME StreamInv, RangeDone PROVE StreamInv'
<1>1. phase = "handout" /\ queries = <<>> /\ IsRunning /\ ready = <<>>
  BY DEF RangeDone, StreamInv, ReadyInv, IsRunning, Running
<1>2. DOMAIN queries = {} /\ 1 \notin DOMAIN queries
  BY <1>1
<1>3. SessionWorkers(session) \cap DOMAIN busy = {}
  BY <1>1, <1>2 DEF StreamInv, QueryInv
<1>4. \A w \in SessionWorkers(session) : \E i \in DOMAIN free : free[i] = w
  BY <1>1, <1>3 DEF StreamInv, PoolInv
<1>5. SessionWorkers(session) \subseteq ToSet(free)
  BY <1>4 DEF ToSet
<1>6. free # <<>>
  <2>1. <<session, 1>> \in SessionWorkers(session)
    BY ThreadsAssumption DEF SessionWorkers
  <2>2. PICK i \in DOMAIN free : free[i] = <<session, 1>>
    BY <1>4, <2>1
  <2>3. DOMAIN free # {}
    BY <2>2
  <2> QED
    BY <2>3
<1>7. offset = WorkerEnd
  BY <1>6 DEF RangeDone
<1>8. Len(delivered) \in Nat /\ Len(ready) = 0
  BY <1>1, LenProperties DEF StreamInv, StreamTypeOK
<1>9. range.start \in Int /\ range.end \in Int /\ offset \in Int
  BY DEF StreamInv, StreamTypeOK, Heights
<1>10. Len(delivered) = (IF range.end > range.start THEN range.end - range.start ELSE 0)
  <2>1. CASE range.start <= range.end
    <3>1. offset <= range.end /\ offset = range.start + Len(delivered)
      BY <1>1, <1>2, <1>8, <1>9, <2>1 DEF StreamInv, CutInv, Begin, Position
    <3>2. offset = range.end
      BY <1>7, <3>1, WorkerEndFacts DEF StreamInv
    <3> QED
      BY <1>8, <1>9, <2>1, <3>1, <3>2
  <2>2. CASE range.end < range.start
    <3>1. delivered = <<>>
      BY <1>1, <2>2 DEF StreamInv, EmptyInv
    <3>2. Len(delivered) = 0
      BY <3>1
    <3> QED
      BY <1>9, <2>2, <3>2
  <2> QED
    BY <1>9, <2>1, <2>2
<1>11. (live \ ToSet(free)) \cap SessionWorkers(session) = {}
  BY <1>5
<1>12. "done" \in Phases \ Running /\ Finish("done")
  BY DEF RangeDone, Phases, Running
<1> QED
  BY <1>1, <1>10, <1>11, <1>12, FinishKeeps

LEMMA TurnToOldestKeeps == ASSUME StreamInv, TurnToOldest PROVE StreamInv'
<1>1. /\ phase' = "await" /\ phase = "handout" /\ queries # <<>>
      /\ UNCHANGED <<session, range, offset, free, queries, ready, delivered, live, busy>>
  BY DEF TurnToOldest
<1>2. IsRunning /\ IsRunning' /\ phase' \in Phases
  BY <1>1 DEF IsRunning, Running, Phases
<1>3. StreamTypeOK'
  BY <1>1, <1>2 DEF StreamInv, StreamTypeOK
<1> QED
  BY <1>1, <1>2, <1>3 DEF StreamInv, OpenedOnly, PoolInv, QueryInv, CutInv, EmptyInv, Begin, Position,
                          ReadyInv, InOrder, ReleasedAtEnd

LEMMA ChunkDoneKeeps == ASSUME StreamInv, ChunkDone PROVE StreamInv'
<1>1. /\ phase' = "handout" /\ phase = "yield" /\ ready = <<>>
      /\ UNCHANGED <<session, range, offset, free, queries, ready, delivered, live, busy>>
  BY DEF ChunkDone
<1>2. IsRunning /\ IsRunning' /\ phase' \in Phases
  BY <1>1 DEF IsRunning, Running, Phases
<1>3. StreamTypeOK'
  BY <1>1, <1>2 DEF StreamInv, StreamTypeOK
<1> QED
  BY <1>1, <1>2, <1>3 DEF StreamInv, OpenedOnly, PoolInv, QueryInv, CutInv, EmptyInv, Begin, Position,
                          ReadyInv, InOrder, ReleasedAtEnd

LEMMA OpenKeeps == ASSUME StreamInv, Open PROVE StreamInv'
<1> DEFINE n == session + 1
<1>1. PICK start, end \in Heights : range' = [start |-> start, end |-> end] /\ offset' = start
  BY DEF Open
<1>2. /\ session < MaxSessions /\ session' = n /\ phase' = "handout"
      /\ free' = [i \in 1..Threads |-> <<n, i>>] /\ live' = live \cup SessionWorkers(n)
      /\ queries' = <<>> /\ ready' = <<>> /\ delivered' = <<>> /\ busy' = busy
  BY DEF Open
<1>3. session \in Nat /\ n \in 1..MaxSessions /\ n > 0 /\ n > session
  BY <1>2, BoundsAssumption DEF StreamInv, StreamTypeOK
<1>4. IsRunning' /\ phase' \in Phases /\ phase' # "done"
  BY <1>2 DEF IsRunning, Running, Phases
<1>5. /\ free' \in Seq(Workers)
      /\ \A i \in DOMAIN free' : free'[i] \in SessionWorkers(n)
      /\ \A i, j \in DOMAIN free' : free'[i] = free'[j] => i = j
      /\ \A w \in SessionWorkers(n) : \E i \in DOMAIN free' : free'[i] = w
  <2>1. free' = NewPool(n) /\ n \in 1..MaxSessions
    BY <1>2, <1>3 DEF NewPool
  <2> HIDE DEF n
  <2> QED
    BY <2>1, NewPoolFacts
<1>6. DOMAIN busy \subseteq live /\ SessionWorkers(n) \cap live = {}
  BY <1>3, SessionFacts DEF StreamInv, StreamTypeOK, OpenedOnly
<1>7. StreamTypeOK'
  <2>1. queries' \in Seq(Queries) /\ ready' \in Seq(Heights) /\ delivered' \in Seq(Heights)
    BY <1>2, EmptySeq
  <2>2. live' \in SUBSET Workers
    BY <1>2, <1>3, SessionFacts DEF StreamInv, StreamTypeOK
  <2> QED
    BY <1>1, <1>2, <1>3, <1>4, <1>5, <2>1, <2>2 DEF StreamInv, StreamTypeOK
<1>8. OpenedOnly'
  <2>1. \A w \in SessionWorkers(n) : w[1] <= n
    BY <1>3, SessionFacts
  <2>2. \A w \in live : w[1] \in 1..MaxSessions
    BY DEF StreamInv, StreamTypeOK, Workers
  <2>3. \A w \in live : w[1] <= n
    BY <1>3, <2>2 DEF StreamInv, OpenedOnly
  <2> QED
    BY <1>2, <2>1, <2>3 DEF OpenedOnly
<1>9. PoolInv'
  BY <1>2, <1>3, <1>5, <1>6 DEF PoolInv
<1>10. DOMAIN queries' = {} /\ DOMAIN ready' = {} /\ DOMAIN delivered' = {}
       /\ Len(delivered') = 0 /\ Len(ready') = 0
  BY <1>2
<1>11. QueryInv'
  BY <1>2, <1>6, <1>10 DEF QueryInv
<1>12. CutInv' /\ EmptyInv'
  BY <1>1, <1>2, <1>10 DEF CutInv, EmptyInv, Begin, Position, Heights
<1>13. ReadyInv' /\ InOrder' /\ ReleasedAtEnd'
  BY <1>2, <1>4, <1>10 DEF ReadyInv, InOrder, ReleasedAtEnd
<1> QED
  BY <1>7, <1>8, <1>9, <1>11, <1>12, <1>13 DEF StreamInv

LEMMA HandOutKeeps == ASSUME StreamInv, HandOut PROVE StreamInv'
<1> DEFINE worker == Head(free)
           query == [worker |-> worker, from |-> offset, to |-> WorkerEnd, answered |-> FALSE]
           job == [from |-> offset, to |-> WorkerEnd, fetched |-> <<>>]
<1>1. /\ phase = "handout" /\ free # <<>> /\ offset # WorkerEnd
      /\ free' = Tail(free) /\ queries' = Append(queries, query)
      /\ busy' = [w \in DOMAIN busy \cup {worker} |-> IF w = worker THEN job ELSE busy[w]]
      /\ offset' = WorkerEnd
      /\ UNCHANGED <<session, phase, range, ready, delivered, live>>
  BY DEF HandOut
<1>2. IsRunning /\ IsRunning' /\ phase # "done"
  BY <1>1 DEF IsRunning, Running
<1>3. free \in Seq(Workers) /\ queries \in Seq(Queries)
  BY DEF StreamInv, StreamTypeOK
<1>4. /\ worker = free[1] /\ worker \in Workers /\ 1 \in DOMAIN free
      /\ Tail(free) \in Seq(Workers)
      /\ \A i \in DOMAIN Tail(free) : i + 1 \in DOMAIN free /\ Tail(free)[i] = free[i + 1] /\ i \in Nat /\ i + 1 # 1
      /\ \A i \in DOMAIN free : i # 1 => i - 1 \in DOMAIN Tail(free) /\ Tail(free)[i - 1] = free[i]
  <2>1. DOMAIN Tail(free) = 1..(Len(free) - 1) /\ Len(free) \in Nat
    BY <1>1, <1>3, TailFacts
  <2>2. \A i \in DOMAIN Tail(free) : i \in Nat /\ i + 1 # 1
    BY <2>1
  <2> QED
    BY <1>1, <1>3, <2>2, TailFacts
<1>5. worker \in SessionWorkers(session) /\ worker \notin DOMAIN busy /\ worker \in live
  BY <1>2, <1>4 DEF StreamInv, PoolInv
<1>6. WorkerEnd \in Heights /\ offset \in Heights
  BY WorkerEndFacts DEF StreamInv, StreamTypeOK
<1>7. query \in Queries /\ job \in Jobs
  BY <1>4, <1>6, EmptySeq DEF Queries, Jobs
<1> HIDE DEF worker
<1>8. /\ queries' \in Seq(Queries) /\ Len(queries) \in Nat
      /\ DOMAIN queries = 1..Len(queries) /\ DOMAIN queries' = 1..(Len(queries) + 1)
      /\ \A i \in DOMAIN queries : queries'[i] = queries[i]
      /\ queries'[Len(queries) + 1] = query
  BY <1>1, <1>3, <1>7, AppendFacts
<1> HIDE DEF query, job
<1>9. DOMAIN busy' = DOMAIN busy \cup {worker} /\ busy'[worker] = job
      /\ \A w \in DOMAIN busy : busy'[w] = busy[w]
  BY <1>1, <1>5
<1>10. StreamTypeOK'
  BY <1>1, <1>4, <1>5, <1>6, <1>7, <1>8, <1>9 DEF StreamInv, StreamTypeOK
<1>11. OpenedOnly'
  BY <1>1 DEF StreamInv, OpenedOnly
<1>12. PoolInv'
  <2>1. \A i \in DOMAIN free' : free'[i] \in SessionWorkers(session) \ DOMAIN busy'
    BY <1>1, <1>2, <1>4, <1>9 DEF StreamInv, PoolInv
  <2>2. \A i, j \in DOMAIN free' : free'[i] = free'[j] => i = j
    <3> SUFFICES ASSUME NEW i \in DOMAIN free', NEW j \in DOMAIN free', free'[i] = free'[j] PROVE i = j
      OBVIOUS
    <3>1. i + 1 = j + 1
      BY <1>1, <1>2, <1>4 DEF StreamInv, PoolInv
    <3> QED
      BY <1>1, <1>4, <3>1
  <2>3. \A w \in SessionWorkers(session) \ DOMAIN busy' : \E i \in DOMAIN free' : free'[i] = w
    <3> TAKE w \in SessionWorkers(session) \ DOMAIN busy'
    <3>1. PICK i \in DOMAIN free : free[i] = w
      BY <1>2, <1>9 DEF StreamInv, PoolInv
    <3>2. i # 1
      BY <1>4, <1>9, <3>1
    <3> QED
      BY <1>1, <1>4, <3>1, <3>2
  <2> QED
    BY <1>1, <1>2, <2>1, <2>2, <2>3 DEF StreamInv, PoolInv
<1>13. QueryInv'
  <2>1. \A i \in DOMAIN queries :
          /\ queries'[i].worker \in SessionWorkers(session)
          /\ ~queries'[i].answered =>
               /\ queries'[i].worker \in DOMAIN busy'
               /\ busy'[queries'[i].worker].from = queries'[i].from
               /\ busy'[queries'[i].worker].to = queries'[i].to
    BY <1>2, <1>8, <1>9 DEF StreamInv, QueryInv
  <2>2. /\ query.worker = worker /\ ~query.answered
        /\ busy'[worker].from = query.from /\ busy'[worker].to = query.to
    BY <1>9 DEF query, job
  <2>3. \A w \in SessionWorkers(session) \cap DOMAIN busy' :
          \E i \in DOMAIN queries' : queries'[i].worker = w /\ ~queries'[i].answered
    <3> TAKE w \in SessionWorkers(session) \cap DOMAIN busy'
    <3>1. CASE w = worker
      BY <1>8, <2>2, <3>1
    <3>2. CASE w # worker
      <4>1. PICK i \in DOMAIN queries : queries[i].worker = w /\ ~queries[i].answered
        BY <1>2, <1>9, <3>2 DEF StreamInv, QueryInv
      <4>2. i \in DOMAIN queries' /\ queries'[i] = queries[i]
        BY <1>8
      <4> QED
        BY <4>1, <4>2
    <3> QED
      BY <3>1, <3>2
  <2>4. \A i \in DOMAIN queries' :
          /\ queries'[i].worker \in SessionWorkers(session)
          /\ ~queries'[i].answered =>
               /\ queries'[i].worker \in DOMAIN busy'
               /\ busy'[queries'[i].worker].from = queries'[i].from
               /\ busy'[queries'[i].worker].to = queries'[i].to
    <3> TAKE i \in DOMAIN queries'
    <3>1. CASE i \in DOMAIN queries
      BY <2>1, <3>1
    <3>2. CASE i \notin DOMAIN queries
      <4>1. i = Len(queries) + 1
        BY <1>8, <3>2
      <4> QED
        BY <1>5, <1>8, <1>9, <2>2, <4>1
    <3> QED
      BY <3>1, <3>2
  <2> QED
    BY <1>1, <2>3, <2>4 DEF QueryInv
<1>14. CutInv'
  <2> SUFFICES ASSUME range.start <= range.end
               PROVE  /\ WorkerEnd <= range.end
                      /\ Begin(1)' = Position'
                      /\ \A i \in DOMAIN queries' :
                           queries'[i].from <= queries'[i].to /\ queries'[i].to = Begin(i + 1)'
    BY <1>1 DEF CutInv
  <2>1. /\ offset <= range.end /\ Begin(1) = Position
        /\ \A i \in DOMAIN queries : queries[i].from <= queries[i].to /\ queries[i].to = Begin(i + 1)
    BY <1>2 DEF StreamInv, CutInv
  <2>2. offset <= WorkerEnd /\ WorkerEnd <= range.end
    BY <2>1, WorkerEndFacts DEF StreamInv
  <2>3. query.from = offset /\ query.to = WorkerEnd
    BY DEF query
  <2>4. \A i \in DOMAIN queries' : Begin(i)' = Begin(i)
    <3> TAKE i \in DOMAIN queries'
    <3>1. CASE i \in DOMAIN queries
      BY <1>8, <3>1 DEF Begin
    <3>2. CASE i \notin DOMAIN queries
      <4>1. i = Len(queries) + 1
        BY <1>8, <3>2
      <4> QED
        BY <1>8, <2>3, <3>2, <4>1 DEF Begin
    <3> QED
      BY <3>1, <3>2
  <2>5. 1 \in DOMAIN queries'
    BY <1>8
  <2>6. \A i \in DOMAIN queries : i + 1 \in DOMAIN queries'
    BY <1>8
  <2>7. Len(queries) + 2 \notin DOMAIN queries'
    BY <1>8
  <2>8. \A i \in DOMAIN queries' : queries'[i].from <= queries'[i].to /\ queries'[i].to = Begin(i + 1)'
    <3> TAKE i \in DOMAIN queries'
    <3>1. CASE i \in DOMAIN queries
      BY <1>8, <2>1, <2>4, <2>6, <3>1
    <3>2. CASE i \notin DOMAIN queries
      <4>1. i = Len(queries) + 1 /\ i + 1 = Len(queries) + 2
        BY <1>8, <3>2
      <4>2. Begin(i + 1)' = WorkerEnd
        BY <1>1, <2>7, <4>1 DEF Begin
      <4> QED
        BY <1>8, <2>2, <2>3, <4>1, <4>2
    <3> QED
      BY <3>1, <3>2
  <2> QED
    BY <1>1, <2>1, <2>2, <2>4, <2>5, <2>8 DEF Position
<1>15. EmptyInv'
  <2> SUFFICES ASSUME range.end < range.start
               PROVE  /\ WorkerEnd = range.end
                      /\ delivered = <<>> /\ ready = <<>>
                      /\ \A i \in DOMAIN queries' : queries'[i].to <= queries'[i].from
    BY <1>1 DEF EmptyInv
  <2>1. /\ offset \in {range.start, range.end} /\ delivered = <<>> /\ ready = <<>>
        /\ \A i \in DOMAIN queries : queries[i].to <= queries[i].from
    BY <1>2 DEF StreamInv, EmptyInv
  <2>2. range.start \in Nat /\ range.end \in Nat
    BY DEF StreamInv, StreamTypeOK, Heights
  <2>3. range.end <= offset /\ WorkerEnd = range.end
    BY <2>1, <2>2, WorkerEndFacts DEF StreamInv
  <2>4. query.to <= query.from
    BY <2>3 DEF query
  <2>5. \A i \in DOMAIN queries' : queries'[i].to <= queries'[i].from
    BY <1>8, <2>1, <2>4
  <2> QED
    BY <2>1, <2>3, <2>5
<1>16. ReadyInv' /\ InOrder' /\ ReleasedAtEnd'
  BY <1>1, <1>2 DEF StreamInv, ReadyInv, InOrder, ReleasedAtEnd
<1> QED
  BY <1>10, <1>11, <1>12, <1>13, <1>14, <1>15, <1>16 DEF StreamInv

LEMMA ResolveKeeps == ASSUME StreamInv, Resolve PROVE StreamInv'
<1> DEFINE oldest == Head(queries)
<1>1. /\ phase = "await" /\ oldest.answered /\ phase' = "yield"
      /\ ready' = HeightsOf(oldest) /\ queries' = Tail(queries)
      /\ UNCHANGED <<session, range, offset, free, delivered, live, busy>>
  BY DEF Resolve
<1>2. IsRunning /\ IsRunning' /\ phase' \in Phases /\ phase' \notin {"handout", "await", "done"}
  BY <1>1 DEF IsRunning, Running, Phases
<1>3. queries \in Seq(Queries) /\ queries # <<>> /\ ready = <<>>
  BY <1>1 DEF StreamInv, StreamTypeOK, ReadyInv
<1>4. /\ oldest = queries[1] /\ oldest \in Queries /\ 1 \in DOMAIN queries
      /\ queries' \in Seq(Queries) /\ Len(queries) \in Nat
      /\ DOMAIN queries = 1..Len(queries) /\ DOMAIN queries' = 1..(Len(queries) - 1)
      /\ \A i \in DOMAIN queries' : i + 1 \in DOMAIN queries /\ queries'[i] = queries[i + 1]
      /\ \A i \in DOMAIN queries : i # 1 => i - 1 \in DOMAIN queries' /\ queries'[i - 1] = queries[i]
  BY <1>1, <1>3, TailFacts
<1> HIDE DEF oldest
<1>5. oldest.from \in Heights /\ oldest.to \in Heights
  BY <1>4 DEF Queries
<1>6. /\ ready' \in Seq(Heights)
      /\ \A i \in DOMAIN ready' : ready'[i] = oldest.from + i /\ i \in Nat
      /\ oldest.from <= oldest.to => Len(ready') = oldest.to - oldest.from
      /\ oldest.to <= oldest.from => ready' = <<>>
  BY <1>1, <1>5, HeightsOfFacts
<1>7. /\ range.start \in Nat /\ range.end \in Nat /\ oldest.from \in Nat /\ oldest.to \in Nat
      /\ Len(delivered) \in Nat /\ Len(ready) = 0
  BY <1>3, <1>5, LenProperties DEF StreamInv, StreamTypeOK, Heights
<1>8. StreamTypeOK'
  BY <1>1, <1>2, <1>4, <1>6 DEF StreamInv, StreamTypeOK
<1>9. PoolInv' /\ OpenedOnly'
  BY <1>1, <1>2 DEF StreamInv, PoolInv, OpenedOnly
<1>10. QueryInv'
  <2>1. \A i \in DOMAIN queries' :
          /\ queries'[i].worker \in SessionWorkers(session)
          /\ ~queries'[i].answered =>
               /\ queries'[i].worker \in DOMAIN busy
               /\ busy[queries'[i].worker].from = queries'[i].from
               /\ busy[queries'[i].worker].to = queries'[i].to
    BY <1>2, <1>4 DEF StreamInv, QueryInv
  <2>2. \A w \in SessionWorkers(session) \cap DOMAIN busy :
          \E i \in DOMAIN queries' : queries'[i].worker = w /\ ~queries'[i].answered
    <3> TAKE w \in SessionWorkers(session) \cap DOMAIN busy
    <3>1. PICK i \in DOMAIN queries : queries[i].worker = w /\ ~queries[i].answered
      BY <1>2 DEF StreamInv, QueryInv
    <3>2. i # 1
      BY <1>1, <1>4, <3>1
    <3> QED
      BY <1>4, <3>1, <3>2
  <2> QED
    BY <1>1, <2>1, <2>2 DEF QueryInv
<1>11. range.start <= range.end =>
         oldest.from <= oldest.to /\ oldest.from = range.start + Len(delivered) /\ oldest.to = Begin(2)
  BY <1>2, <1>4, <1>7 DEF StreamInv, CutInv, Begin, Position
<1>12. CutInv'
  <2> SUFFICES ASSUME range.start <= range.end
               PROVE  /\ Begin(1)' = Position'
                      /\ \A i \in DOMAIN queries' :
                           queries'[i].from <= queries'[i].to /\ queries'[i].to = Begin(i + 1)'
    BY <1>1, <1>2 DEF StreamInv, CutInv
  <2>1. \A i \in 1..Len(queries) : Begin(i)' = Begin(i + 1)
    <3> TAKE i \in 1..Len(queries)
    <3>1. CASE i \in DOMAIN queries'
      BY <1>1, <1>4, <3>1 DEF Begin
    <3>2. CASE i \notin DOMAIN queries'
      <4>1. i + 1 \notin DOMAIN queries
        BY <1>4, <3>2
      <4> QED
        BY <1>1, <3>2, <4>1 DEF Begin
    <3> QED
      BY <3>1, <3>2
  <2>2. Position' = oldest.to
    BY <1>1, <1>6, <1>7, <1>11 DEF Position
  <2>3. Begin(1)' = Begin(2)
    BY <1>4, <2>1
  <2>4. \A i \in DOMAIN queries' :
          queries'[i].from <= queries'[i].to /\ queries'[i].to = Begin(i + 1)'
    <3> TAKE i \in DOMAIN queries'
    <3>1. i + 1 \in 1..Len(queries) /\ queries'[i] = queries[i + 1]
      BY <1>4
    <3>2. queries[i + 1].from <= queries[i + 1].to /\ queries[i + 1].to = Begin((i + 1) + 1)
      BY <1>2, <1>4, <3>1 DEF StreamInv, CutInv
    <3> QED
      BY <2>1, <3>1, <3>2
  <2> QED
    BY <1>11, <2>2, <2>3, <2>4
<1>13. range.end < range.start => oldest.to <= oldest.from /\ delivered = <<>>
  BY <1>2, <1>4 DEF StreamInv, EmptyInv
<1>14. EmptyInv'
  BY <1>1, <1>2, <1>4, <1>6, <1>13 DEF StreamInv, EmptyInv
<1>15. ReadyInv'
  <2>1. \A i \in DOMAIN ready' : ready'[i] = range.start + Len(delivered) + i
    <3>1. CASE range.start <= range.end
      BY <1>6, <1>7, <1>11, <3>1
    <3>2. CASE range.end < range.start
      <4>1. DOMAIN ready' = {}
        BY <1>6, <1>13, <3>2
      <4> QED
        BY <4>1
    <3> QED
      BY <1>7, <3>1, <3>2
  <2> QED
    BY <1>1, <1>2, <2>1 DEF ReadyInv
<1>16. InOrder' /\ ReleasedAtEnd'
  BY <1>1, <1>2 DEF StreamInv, InOrder, ReleasedAtEnd
<1> QED
  BY <1>8, <1>9, <1>10, <1>12, <1>14, <1>15, <1>16 DEF StreamInv

LEMMA TakeKeeps == ASSUME StreamInv, Take PROVE StreamInv'
<1>1. /\ phase = "yield" /\ ready # <<>>
      /\ delivered' = Append(delivered, Head(ready)) /\ ready' = Tail(ready)
      /\ UNCHANGED <<session, phase, range, offset, free, queries, live, busy>>
  BY DEF Take
<1>2. IsRunning /\ IsRunning' /\ phase \notin {"handout", "await", "done"}
  BY <1>1 DEF IsRunning, Running
<1>3. ready \in Seq(Heights) /\ delivered \in Seq(Heights)
  BY DEF StreamInv, StreamTypeOK
<1>4. /\ Head(ready) = ready[1] /\ Head(ready) \in Heights /\ 1 \in DOMAIN ready
      /\ ready' \in Seq(Heights) /\ Len(ready') = Len(ready) - 1 /\ Len(ready) \in Nat
      /\ \A i \in DOMAIN ready' : i + 1 \in DOMAIN ready /\ ready'[i] = ready[i + 1] /\ i \in Nat
  <2>1. DOMAIN ready' = 1..(Len(ready) - 1)
    BY <1>1, <1>3, TailFacts
  <2> QED
    BY <1>1, <1>3, <2>1, TailFacts
<1>5. /\ delivered' \in Seq(Heights) /\ Len(delivered') = Len(delivered) + 1 /\ Len(delivered) \in Nat
      /\ DOMAIN delivered = 1..Len(delivered) /\ DOMAIN delivered' = 1..(Len(delivered) + 1)
      /\ \A i \in DOMAIN delivered : delivered'[i] = delivered[i]
      /\ delivered'[Len(delivered) + 1] = Head(ready)
  BY <1>1, <1>3, <1>4, AppendFacts
<1>6. range.start \in Nat
  BY DEF StreamInv, StreamTypeOK, Heights
<1>7. Head(ready) = range.start + (Len(delivered) + 1)
  <2>1. Head(ready) = range.start + Len(delivered) + 1
    <3>1. ready[1] = range.start + Len(delivered) + 1 /\ Head(ready) = ready[1]
      BY <1>4 DEF StreamInv, ReadyInv
    <3> QED
      BY <3>1, Zenon
  <2>2. Len(delivered) \in Nat
    BY <1>5
  <2> DEFINE d == Len(delivered)
             h == Head(ready)
  <2> HIDE DEF d, h
  <2>3. h = range.start + d + 1 /\ d \in Nat
    BY <2>1, <2>2 DEF d, h
  <2>4. h = range.start + (d + 1)
    BY <1>6, <2>3
  <2> QED
    BY <2>4, Zenon DEF d, h
<1>8. StreamTypeOK'
  BY <1>1, <1>4, <1>5 DEF StreamInv, StreamTypeOK
<1>9. OpenedOnly' /\ PoolInv' /\ QueryInv' /\ ReleasedAtEnd'
  BY <1>1, <1>2 DEF StreamInv, OpenedOnly, PoolInv, QueryInv, ReleasedAtEnd
<1>10. Position' = Position
  <2>1. /\ Len(delivered') = Len(delivered) + 1 /\ Len(ready') = Len(ready) - 1
        /\ Len(delivered) \in Nat /\ Len(ready) \in Nat /\ range' = range
    BY <1>1, <1>4, <1>5
  <2> QED
    BY <1>6, <2>1 DEF Position
<1>11. CutInv'
  BY <1>1, <1>2, <1>10 DEF StreamInv, CutInv, Begin
<1>12. EmptyInv'
  BY <1>1, <1>2 DEF StreamInv, EmptyInv
<1>13. ReadyInv'
  <2>1. \A i \in DOMAIN ready' : ready'[i] = range.start + Len(delivered') + i
    <3> TAKE i \in DOMAIN ready'
    <3>1. i + 1 \in DOMAIN ready /\ ready'[i] = ready[i + 1] /\ i \in Nat
      BY <1>4
    <3>2. ready[i + 1] = range.start + Len(delivered) + (i + 1)
      BY <3>1 DEF StreamInv, ReadyInv
    <3>3. Len(delivered') = Len(delivered) + 1 /\ Len(delivered) \in Nat
      BY <1>5
    <3> QED
      BY <1>6, <3>1, <3>2, <3>3
  <2>2. phase' \notin {"handout", "await"} /\ range' = range
    BY <1>1, <1>2
  <2> QED
    BY <2>1, <2>2 DEF ReadyInv
<1>14. InOrder'
  BY <1>1, <1>2, <1>5, <1>7 DEF StreamInv, InOrder
<1> QED
  BY <1>8, <1>9, <1>11, <1>12, <1>13, <1>14 DEF StreamInv

\* A thread fetches a block of its job; the job's bounds stay.
LEMMA FetchKeeps == ASSUME StreamInv, NEW w \in Workers, Fetch(w) PROVE StreamInv'
<1>1. PICK h \in ToSet(HeightsOf(busy[w])) : busy' = [busy EXCEPT ![w].fetched = Append(@, h)]
  BY DEF Fetch
<1>2. /\ w \in DOMAIN busy
      /\ UNCHANGED <<session, phase, range, offset, free, queries, ready, delivered, live>>
  BY DEF Fetch
<1>3. busy[w] \in Jobs
  BY <1>2 DEF StreamInv, StreamTypeOK
<1>4. h \in Heights
  <2>1. HeightsOf(busy[w]) \in Seq(Heights)
    BY <1>3, HeightsOfFacts DEF Jobs
  <2>2. \A i \in DOMAIN HeightsOf(busy[w]) : HeightsOf(busy[w])[i] \in Heights
    BY <2>1, LenProperties, ElementOfSeq
  <2> QED
    BY <2>2 DEF ToSet
<1>5. Append(busy[w].fetched, h) \in Seq(Heights)
  BY <1>3, <1>4, AppendProperties DEF Jobs
<1>6. /\ DOMAIN busy' = DOMAIN busy
      /\ \A x \in DOMAIN busy : busy'[x].from = busy[x].from /\ busy'[x].to = busy[x].to
      /\ \A x \in DOMAIN busy : busy'[x] \in Jobs
  <2>1. DOMAIN busy' = DOMAIN busy /\ \A x \in DOMAIN busy : x # w => busy'[x] = busy[x]
    BY <1>1
  <2>2. busy'[w] = [busy[w] EXCEPT !.fetched = Append(@, h)]
    BY <1>1, <1>2
  <2>3. busy'[w].from = busy[w].from /\ busy'[w].to = busy[w].to /\ busy'[w] \in Jobs
    BY <1>3, <1>5, <2>2 DEF Jobs
  <2>4. \A x \in DOMAIN busy : busy[x] \in Jobs
    BY DEF StreamInv, StreamTypeOK
  <2> QED
    BY <2>1, <2>3, <2>4
<1>7. StreamTypeOK'
  BY <1>2, <1>6 DEF StreamInv, StreamTypeOK
<1>8. OpenedOnly' /\ PoolInv' /\ QueryInv'
  BY <1>2, <1>6 DEF StreamInv, OpenedOnly, PoolInv, QueryInv, IsRunning
<1>9. CutInv' /\ EmptyInv' /\ ReadyInv' /\ InOrder' /\ ReleasedAtEnd'
  BY <1>2 DEF StreamInv, CutInv, EmptyInv, ReadyInv, InOrder, ReleasedAtEnd, IsRunning, Begin, Position
<1> QED
  BY <1>7, <1>8, <1>9 DEF StreamInv

\* An answer of a thread of the stream that runs settles its query and makes
\* it free again; another thread only stops working.
LEMMA AnswerKeeps == ASSUME StreamInv, NEW w \in Workers, Answer(w) PROVE StreamInv'
<1> DEFINE Settled(i) == queries[i].worker = w /\ ~queries[i].answered
           current == phase \in Running /\ w \in SessionWorkers(session)
<1>1. /\ w \in DOMAIN busy /\ busy' = Idle(w)
      /\ UNCHANGED <<session, phase, range, offset, ready, delivered, live>>
  BY DEF Answer
<1>2. DOMAIN busy' = DOMAIN busy \ {w} /\ \A x \in DOMAIN busy \ {w} : busy'[x] = busy[x]
  BY <1>1 DEF Idle
<1>3. CASE ~current
  <2>1. UNCHANGED <<queries, free>>
    BY <1>3 DEF Answer
  <2>2. StreamTypeOK'
    BY <1>1, <1>2, <2>1 DEF StreamInv, StreamTypeOK
  <2>3. OpenedOnly' /\ PoolInv' /\ QueryInv'
    BY <1>1, <1>2, <1>3, <2>1 DEF StreamInv, OpenedOnly, PoolInv, QueryInv, IsRunning
  <2>4. CutInv' /\ EmptyInv' /\ ReadyInv' /\ InOrder' /\ ReleasedAtEnd'
    BY <1>1, <2>1 DEF StreamInv, CutInv, EmptyInv, ReadyInv, InOrder, ReleasedAtEnd, IsRunning, Begin, Position
  <2> QED
    BY <2>2, <2>3, <2>4 DEF StreamInv
<1>4. CASE current
  <2>1. /\ queries' = [i \in DOMAIN queries |->
                         IF Settled(i) THEN [queries[i] EXCEPT !.answered = TRUE] ELSE queries[i]]
        /\ free' = Append(free, w)
    BY <1>4 DEF Answer
  <2>2. IsRunning /\ IsRunning' /\ phase' = phase
    BY <1>1, <1>4 DEF IsRunning
  <2>3. queries \in Seq(Queries) /\ free \in Seq(Workers)
    BY DEF StreamInv, StreamTypeOK
  <2>4. DOMAIN queries = 1..Len(queries) /\ Len(queries) \in Nat /\ \A i \in DOMAIN queries : queries[i] \in Queries
    BY <2>3, LenProperties, ElementOfSeq
  <2>5. /\ DOMAIN queries' = DOMAIN queries
        /\ \A i \in DOMAIN queries :
             /\ queries'[i] \in Queries
             /\ queries'[i].worker = queries[i].worker
             /\ queries'[i].from = queries[i].from /\ queries'[i].to = queries[i].to
             /\ ~queries'[i].answered <=> ~queries[i].answered /\ queries[i].worker # w
    <3>1. DOMAIN queries' = DOMAIN queries
      BY <2>1
    <3>2. SUFFICES ASSUME NEW i \in DOMAIN queries
                   PROVE  /\ queries'[i] \in Queries
                          /\ queries'[i].worker = queries[i].worker
                          /\ queries'[i].from = queries[i].from /\ queries'[i].to = queries[i].to
                          /\ ~queries'[i].answered <=> ~queries[i].answered /\ queries[i].worker # w
      BY <3>1
    <3>3. queries[i] \in Queries
      BY <2>4
    <3>4. CASE Settled(i)
      <4>1. queries'[i] = [queries[i] EXCEPT !.answered = TRUE]
        BY <2>1, <3>4
      <4> QED
        BY <3>3, <3>4, <4>1 DEF Queries
    <3>5. CASE ~Settled(i)
      <4>1. queries'[i] = queries[i]
        BY <2>1, <3>5
      <4> QED
        BY <3>3, <3>5, <4>1
    <3> QED
      BY <3>4, <3>5
  <2> HIDE DEF Settled
  <2>6. queries' \in Seq(Queries) /\ Len(queries') = Len(queries)
    <3>1. queries' \in [1..Len(queries) -> Queries]
      BY <2>1, <2>4, <2>5
    <3>2. queries' \in Seq(Queries)
      BY <2>4, <3>1
    <3> QED
      BY <2>4, <2>5, <3>2, LenProperties
  <2>7. /\ free' \in Seq(Workers) /\ Len(free) \in Nat
        /\ DOMAIN free = 1..Len(free) /\ DOMAIN free' = 1..(Len(free) + 1)
        /\ \A i \in DOMAIN free : free'[i] = free[i]
        /\ free'[Len(free) + 1] = w
    BY <2>1, <2>3, AppendFacts
  <2>8. StreamTypeOK'
    BY <1>1, <1>2, <2>6, <2>7 DEF StreamInv, StreamTypeOK
  <2>9. OpenedOnly' /\ ReleasedAtEnd' /\ InOrder' /\ ReadyInv'
    <3>1. queries' # <<>> <=> queries # <<>>
      BY <2>3, <2>6, EmptySeq
    <3> QED
      BY <1>1, <3>1 DEF StreamInv, OpenedOnly, ReleasedAtEnd, InOrder, ReadyInv
  <2>10. PoolInv'
    <3>1. \A i \in DOMAIN free : free[i] # w
      BY <1>1, <2>2 DEF StreamInv, PoolInv
    <3>2. \A i \in DOMAIN free' : free'[i] \in SessionWorkers(session) \ DOMAIN busy'
      <4> TAKE i \in DOMAIN free'
      <4>1. CASE i \in DOMAIN free
        BY <1>2, <2>2, <2>7, <4>1 DEF StreamInv, PoolInv
      <4>2. CASE i = Len(free) + 1
        BY <1>2, <1>4, <2>7, <4>2
      <4> QED
        BY <2>7, <4>1, <4>2
    <3>3. \A i, j \in DOMAIN free' : free'[i] = free'[j] => i = j
      <4> SUFFICES ASSUME NEW i \in DOMAIN free', NEW j \in DOMAIN free', free'[i] = free'[j] PROVE i = j
        OBVIOUS
      <4>1. CASE i \in DOMAIN free /\ j \in DOMAIN free
        BY <2>2, <2>7, <4>1 DEF StreamInv, PoolInv
      <4>2. CASE i = Len(free) + 1
        BY <2>7, <3>1, <4>2
      <4>3. CASE j = Len(free) + 1
        BY <2>7, <3>1, <4>3
      <4> QED
        BY <2>7, <4>1, <4>2, <4>3
    <3>4. \A x \in SessionWorkers(session) \ DOMAIN busy' : \E i \in DOMAIN free' : free'[i] = x
      <4> TAKE x \in SessionWorkers(session) \ DOMAIN busy'
      <4>1. CASE x = w
        BY <2>7, <4>1
      <4>2. CASE x # w
        <5>1. PICK i \in DOMAIN free : free[i] = x
          BY <1>2, <2>2, <4>2 DEF StreamInv, PoolInv
        <5>2. i \in DOMAIN free' /\ free'[i] = x
          BY <2>7, <5>1
        <5> QED
          BY <5>2
      <4> QED
        BY <4>1, <4>2
    <3> QED
      BY <1>1, <2>2, <3>2, <3>3, <3>4 DEF StreamInv, PoolInv
  <2>11. QueryInv'
    <3>1. \A i \in DOMAIN queries' :
            /\ queries'[i].worker \in SessionWorkers(session)
            /\ ~queries'[i].answered =>
                 /\ queries'[i].worker \in DOMAIN busy'
                 /\ busy'[queries'[i].worker].from = queries'[i].from
                 /\ busy'[queries'[i].worker].to = queries'[i].to
      BY <1>2, <2>2, <2>5 DEF StreamInv, QueryInv
    <3>2. \A x \in SessionWorkers(session) \cap DOMAIN busy' :
            \E i \in DOMAIN queries' : queries'[i].worker = x /\ ~queries'[i].answered
      <4> TAKE x \in SessionWorkers(session) \cap DOMAIN busy'
      <4>1. x # w /\ x \in DOMAIN busy
        BY <1>2
      <4>2. PICK i \in DOMAIN queries : queries[i].worker = x /\ ~queries[i].answered
        BY <2>2, <4>1 DEF StreamInv, QueryInv
      <4> QED
        BY <2>5, <4>1, <4>2
    <3> QED
      BY <1>1, <3>1, <3>2 DEF QueryInv
  <2>12. \A i : Begin(i)' = Begin(i)
    BY <1>1, <2>5 DEF Begin
  <2>13. CutInv' /\ EmptyInv'
    BY <1>1, <2>2, <2>5, <2>12 DEF StreamInv, CutInv, EmptyInv, Position
  <2> QED
    BY <2>8, <2>9, <2>10, <2>11, <2>13 DEF StreamInv
<1> QED
  BY <1>3, <1>4

(***************************************************************************)
(* The theorem                                                             *)
(***************************************************************************)

LEMMA StepKeeps == StreamInv /\ [StreamNext]_streamVars => StreamInv'
<1> SUFFICES ASSUME StreamInv, [StreamNext]_streamVars PROVE StreamInv'
  OBVIOUS
<1>1. CASE Open
  BY <1>1, OpenKeeps
<1>2. CASE HandOut
  BY <1>2, HandOutKeeps
<1>3. CASE TurnToOldest
  BY <1>3, TurnToOldestKeeps
<1>4. CASE RangeDone
  BY <1>4, RangeDoneKeeps
<1>5. CASE Resolve
  BY <1>5, ResolveKeeps
<1>6. CASE Take
  BY <1>6, TakeKeeps
<1>7. CASE ChunkDone
  BY <1>7, ChunkDoneKeeps
<1>8. CASE Leave
  BY <1>8, LeaveKeeps
<1>9. CASE OldestFails
  BY <1>9, OldestFailsKeeps
<1>10. CASE \E w \in Workers : Fetch(w) \/ Answer(w) \/ OtherFails(w)
  BY <1>10, FetchKeeps, AnswerKeeps, OtherFailsKeeps
<1>11. CASE UNCHANGED streamVars
  BY <1>11 DEF streamVars, StreamInv, StreamTypeOK, OpenedOnly, PoolInv, QueryInv, CutInv, EmptyInv,
               ReadyInv, InOrder, ReleasedAtEnd, IsRunning, Begin, Position
<1> QED
  BY <1>1, <1>2, <1>3, <1>4, <1>5, <1>6, <1>7, <1>8, <1>9, <1>10, <1>11
  DEF StreamNext, GeneratorStep

LEMMA StreamInvHolds == StreamSpec => []StreamInv
BY InitKeeps, StepKeeps, PTL DEF StreamSpec

\* The arrays of getBlocks hold what their types say, for every number of
\* threads, chunk size and range.
THEOREM StreamTypeCorrect == StreamSpec => []StreamTypeOK
<1>1. StreamInv => StreamTypeOK
  BY DEF StreamInv
<1> QED
  BY <1>1, StreamInvHolds, PTL

\* sync() gets the blocks of its range in order, each once, and all of them
\* when the stream ends by itself, however the threads' answers arrive.
THEOREM StreamInOrder == StreamSpec => []InOrder
<1>1. StreamInv => InOrder
  BY DEF StreamInv
<1> QED
  BY <1>1, StreamInvHolds, PTL

\* A query without an answer is the one its thread works at: the message
\* listener of a thread never settles another query with its blocks.
THEOREM QueryHasItsWorker == StreamSpec => []EachHasItsWorker
<1>1. StreamInv => EachHasItsWorker
  <2> SUFFICES ASSUME StreamInv, phase \in Running
               PROVE  /\ \A i \in DOMAIN queries :
                           ~queries[i].answered =>
                             /\ queries[i].worker \in DOMAIN busy \cap live
                             /\ busy[queries[i].worker].from = queries[i].from
                             /\ busy[queries[i].worker].to = queries[i].to
                      /\ IsInjective(free) /\ ToSet(free) \subseteq live \ DOMAIN busy
    BY DEF EachHasItsWorker
  <2>1. DOMAIN busy \subseteq live
    BY DEF StreamInv, StreamTypeOK
  <2>2. PoolInv /\ QueryInv /\ IsRunning
    BY DEF StreamInv, IsRunning
  <2>3. IsInjective(free)
    BY <2>2 DEF PoolInv, IsInjective
  <2>4. ToSet(free) \subseteq live \ DOMAIN busy
    BY <2>2 DEF PoolInv, ToSet
  <2> QED
    BY <2>1, <2>2, <2>3, <2>4 DEF QueryInv
<1> QED
  BY <1>1, StreamInvHolds, PTL

\* A stream consumed to its end has terminated every thread it started.
THEOREM ConsumedIsReleased == StreamSpec => []ReleasedAtEnd
<1>1. StreamInv => ReleasedAtEnd
  BY DEF StreamInv
<1> QED
  BY <1>1, StreamInvHolds, PTL

=============================================================================
