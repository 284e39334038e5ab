----------------------------- MODULE BlockStream -----------------------------
(***************************************************************************)
(* The stream of blocks sync() consumes: the getBlocks generator, its pool *)
(* of worker threads, and what a worker does with its part of the range.   *)
(*                                                                         *)
(* A session is one call of getBlocks.  The generator hands out the range  *)
(* (start, end] in chunks to free workers, awaits the oldest query and     *)
(* yields its blocks.  The consumer may leave at any yield.  A block is    *)
(* its height; what the node answers is in SyncService.                    *)
(***************************************************************************)
EXTENDS Integers, Sequences, FiniteSets, SequencesExt

CONSTANTS
  Threads,      \* sync.threads
  ChunkSize,    \* sync.blockChunk
  MaxHeight,    \* bound: ranges lie within 0..MaxHeight
  MaxSessions   \* bound: how often sync() opens a stream

ASSUME ThreadsAssumption == Threads \in Nat \ {0}
ASSUME ChunkSizeAssumption == ChunkSize \in Nat \ {0}
ASSUME BoundsAssumption == MaxHeight \in Nat /\ MaxSessions \in Nat

VARIABLES
  session,    \* how many streams were opened; the last one is the current
  phase,      \* what its generator does
  range,      \* its start and end
  offset,     \* up to where the range is handed out
  free,       \* freeWorkers
  queries,    \* the unresolved or untaken queries, oldest first
  ready,      \* the blocks of the resolved query that are not yielded yet
  delivered,  \* the blocks the consumer got
  live,       \* the worker threads that exist, of all sessions
  busy        \* what each working thread has to do and has fetched so far

streamVars == <<session, phase, range, offset, free, queries, ready, delivered, live, busy>>

Workers == (1..MaxSessions) \X (1..Threads)
SessionWorkers(n) == {n} \X (1..Threads)
Phases == {"handout", "await", "yield", "done", "left", "failed", "crashed", "off"}
Running == {"handout", "await", "yield"}
Heights == 0..MaxHeight

Jobs == [from : Heights, to : Heights, fetched : Seq(Heights)]
Queries == [worker : Workers, from : Heights, to : Heights, answered : BOOLEAN]

StreamTypeOK ==
  /\ session \in 0..MaxSessions
  /\ phase \in Phases
  /\ range \in [start : Heights, end : Heights]
  /\ offset \in Heights
  /\ free \in Seq(Workers)
  /\ queries \in Seq(Queries)
  /\ ready \in Seq(Heights)
  /\ delivered \in Seq(Heights)
  /\ live \in SUBSET Workers
  /\ DOMAIN busy \subseteq live
  /\ \A w \in DOMAIN busy : busy[w] \in Jobs

StreamInit ==
  /\ session = 0
  /\ phase = "off"
  /\ range = [start |-> 0, end |-> 0]
  /\ offset = 0
  /\ free = <<>>
  /\ queries = <<>>
  /\ ready = <<>>
  /\ delivered = <<>>
  /\ live = {}
  /\ busy = <<>>

\* sync() calls getBlocks: new threads, all free.  The end may be below the
\* start, when the tip is.
Open ==
  /\ phase \notin Running
  /\ session < MaxSessions
  /\ session' = session + 1
  /\ \E start, end \in Heights :
       /\ range' = [start |-> start, end |-> end]
       /\ offset' = start
  /\ phase' = "handout"
  /\ free' = [i \in 1..Threads |-> <<session + 1, i>>]
  /\ live' = live \cup SessionWorkers(session + 1)
  /\ queries' = <<>>
  /\ ready' = <<>>
  /\ delivered' = <<>>
  /\ UNCHANGED busy

\* Mutant: takes the range for [start, end).
HeightsFrom(part) == [i \in 1..(part.to - part.from) |-> part.from + i - 1]

\* The heights of a part (from, to] of the range, in order.
HeightsOf(part) == [i \in 1..(part.to - part.from) |-> part.from + i]

WorkerEnd == IF offset + ChunkSize < range.end THEN offset + ChunkSize ELSE range.end

\* What is left to hand out goes to the worker that is free the longest.
HandOut ==
  LET worker == Head(free) IN
  /\ phase = "handout"
  /\ free # <<>>
  /\ offset # WorkerEnd
  /\ free' = Tail(free)
  /\ queries' = Append(queries, [worker |-> worker, from |-> offset, to |-> WorkerEnd, answered |-> FALSE])
  /\ busy' = [w \in DOMAIN busy \cup {worker} |->
                IF w = worker THEN [from |-> offset, to |-> WorkerEnd, fetched |-> <<>>] ELSE busy[w]]
  /\ offset' = WorkerEnd
  /\ UNCHANGED <<session, phase, range, ready, delivered, live>>

\* finally: the workers that are free now are terminated.
Finish(how) ==
  /\ phase' = how
  /\ live' = live \ ToSet(free)
  /\ free' = <<>>
  /\ queries' = <<>>
  /\ ready' = <<>>
  /\ UNCHANGED <<session, range, offset, delivered, busy>>

\* Mutant: turns to the queries only when it needs a free worker.
TurnToOldestWhenFull ==
  /\ phase = "handout"
  /\ free = <<>>
  /\ queries # <<>>
  /\ phase' = "await"
  /\ UNCHANGED <<session, range, offset, free, queries, ready, delivered, live, busy>>

\* No worker is free or nothing is left: turn to the oldest query, if any.
TurnToOldest ==
  /\ phase = "handout"
  /\ free = <<>> \/ offset = WorkerEnd
  /\ queries # <<>>
  /\ phase' = "await"
  /\ UNCHANGED <<session, range, offset, free, queries, ready, delivered, live, busy>>

\* Mutant: ends once everything is handed out.
RangeDoneEarly ==
  /\ phase = "handout"
  /\ offset = WorkerEnd
  /\ Finish("done")

RangeDone ==
  /\ phase = "handout"
  /\ free = <<>> \/ offset = WorkerEnd
  /\ queries = <<>>
  /\ Finish("done")

\* The oldest query has its answer: its blocks are yielded one by one.
Resolve ==
  /\ phase = "await"
  /\ Head(queries).answered
  /\ phase' = "yield"
  /\ ready' = HeightsOf(Head(queries))
  /\ queries' = Tail(queries)
  /\ UNCHANGED <<session, range, offset, free, delivered, live, busy>>

\* The consumer takes a block and comes back for the next one.
Take ==
  /\ phase = "yield"
  /\ ready # <<>>
  /\ delivered' = Append(delivered, Head(ready))
  /\ ready' = Tail(ready)
  /\ UNCHANGED <<session, phase, range, offset, free, queries, live, busy>>

ChunkDone ==
  /\ phase = "yield"
  /\ ready = <<>>
  /\ phase' = "handout"
  /\ UNCHANGED <<session, range, offset, free, queries, ready, delivered, live, busy>>

\* sync() returns after a rollback, breaks at a missing block or throws.
Leave ==
  /\ phase = "yield"
  /\ delivered # <<>>
  /\ Finish("left")

\* client.getBlockByNumber and the cells it needs, all heights at once.
Fetch(w) ==
  /\ w \in DOMAIN busy
  /\ \E h \in ToSet(HeightsOf(busy[w])) \ ToSet(busy[w].fetched) :
       busy' = [busy EXCEPT ![w].fetched = Append(@, h)]
  /\ UNCHANGED <<session, phase, range, offset, free, queries, ready, delivered, live>>

\* Mutant: a worker is free again before its job is over.
StillBusy(w) == busy

Idle(w) == [x \in DOMAIN busy \ {w} |-> busy[x]]

\* The thread posts its blocks: the query resolves, the worker is free again.
\* The array of a generator that has finished is not looked at any more.
Answer(w) ==
  /\ w \in DOMAIN busy
  /\ ToSet(busy[w].fetched) = ToSet(HeightsOf(busy[w]))
  /\ busy' = Idle(w)
  /\ IF phase \in Running /\ w \in SessionWorkers(session)
       THEN /\ queries' = [i \in DOMAIN queries |->
                             IF queries[i].worker = w /\ ~queries[i].answered
                               THEN [queries[i] EXCEPT !.answered = TRUE] ELSE queries[i]]
            /\ free' = Append(free, w)
       ELSE UNCHANGED <<queries, free>>
  /\ UNCHANGED <<session, phase, range, offset, ready, delivered, live>>

\* A request of a worker fails, the thread dies and its query is rejected.
\* If the generator awaits that query it throws.
OldestFails ==
  /\ phase = "await"
  /\ ~Head(queries).answered
  /\ LET w == Head(queries).worker IN
       /\ phase' = "failed"
       /\ live' = live \ ({w} \cup ToSet(free))
       /\ busy' = Idle(w)
  /\ free' = <<>>
  /\ queries' = <<>>
  /\ ready' = <<>>
  /\ UNCHANGED <<session, range, offset, delivered>>

\* Nobody awaits it: the rejection is unhandled and ends the process.
OtherFails(w) ==
  /\ w \in DOMAIN busy
  /\ ~(phase = "await" /\ Head(queries).worker = w /\ ~Head(queries).answered)
  /\ phase' = "crashed"
  /\ live' = {}
  /\ busy' = <<>>
  /\ free' = <<>>
  /\ queries' = <<>>
  /\ ready' = <<>>
  /\ UNCHANGED <<session, range, offset, delivered>>

GeneratorStep == HandOut \/ TurnToOldest \/ RangeDone \/ Resolve \/ Take \/ ChunkDone

StreamNext ==
  \/ Open
  \/ GeneratorStep
  \/ Leave
  \/ OldestFails
  \/ \E w \in Workers : Fetch(w) \/ Answer(w) \/ OtherFails(w)

StreamSpec == StreamInit /\ [][StreamNext]_streamVars

\* Requests are answered or time out, and sync() handles each block in time.
FairStreamSpec ==
  /\ StreamSpec
  /\ WF_streamVars(GeneratorStep)
  /\ \A w \in Workers : WF_streamVars(Fetch(w) \/ Answer(w))

(***************************************************************************)
(* Properties                                                              *)
(***************************************************************************)

\* The consumer gets the blocks of the range in order, none twice and none
\* left out, however the answers of the workers arrive; after the last one
\* the stream ends and not before.
InOrder ==
  /\ \A i \in DOMAIN delivered : delivered[i] = range.start + i
  /\ phase = "done" => Len(delivered) = (IF range.end > range.start THEN range.end - range.start ELSE 0)

\* A query without an answer is what its worker is working at, so that the
\* worker's next message cannot be taken for the answer to another query.
EachHasItsWorker ==
  phase \in Running =>
    /\ \A i \in DOMAIN queries :
         LET q == queries[i] IN
         ~q.answered => /\ q.worker \in DOMAIN busy \cap live
                        /\ busy[q.worker].from = q.from /\ busy[q.worker].to = q.to
    /\ IsInjective(free) /\ ToSet(free) \subseteq live \ DOMAIN busy

\* A stream that was consumed to its end leaves no thread behind.
ReleasedAtEnd == phase = "done" => live \cap SessionWorkers(session) = {}

\* Every opened stream is consumed, left, or fails.
StreamEnds == phase \in Running ~> phase \notin Running

\* There are no more worker threads than sync.threads.
ThreadsBounded == Cardinality(live) <= Threads

=============================================================================
