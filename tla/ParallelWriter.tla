--------------------------- MODULE ParallelWriter ---------------------------
(***************************************************************************)
(* The parallel path of gobzip2's Writer (writer.go, Concurrency > 1): the *)
(* caller's goroutine cuts blocks and sends them over the channel jobs,    *)
(* the workers compress them and send them over the channel results, in    *)
(* whatever order they finish, and the serializer puts them back in order  *)
(* and writes the stream to the destination.  Close and Reset shut the     *)
(* pipeline down: close(jobs), wait for the workers, close(results),       *)
(* receive the serializer's verdict from done.                             *)
(*                                                                         *)
(* A block is its contents, a member of Block; its checksum is a function  *)
(* of the contents and is not kept beside them.  The contents and the      *)
(* encoding of blocks are the business of other modules.                   *)
(*                                                                         *)
(* The caller uses the Writer from one goroutine and, once Close has       *)
(* returned, calls nothing but Reset.                                      *)
(***************************************************************************)
EXTENDS Integers, Sequences, FiniteSets

CONSTANTS Block,        \* the contents a block can have
          Workers,      \* the worker goroutines of one pipeline
          MaxBlocks,    \* bound: blocks sealed per stream
          MaxResets,    \* bound: calls of Reset
          SinkMayFail   \* whether writes to the destination may fail

ASSUME WorkersAssumption == IsFiniteSet(Workers) /\ Workers # {}
ASSUME BoundsAssumption == MaxBlocks \in Nat \ {0} /\ MaxResets \in Nat
ASSUME SinkAssumption == SinkMayFail \in BOOLEAN

\* make(chan blockJob, concurrency*2), make(chan blockResult, concurrency*2)
ChanCapOnePerWorker == Cardinality(Workers)
ChanCap == 2 * Cardinality(Workers)

VARIABLES
    \* the caller's goroutine and the fields of its Writer
    call,           \* where the call in progress stands; "idle" between calls
    op,             \* the method in progress: "Write", "Close" or "Reset"
    cur,            \* {}, or {b}: the block being flushed
    dirty,          \* a byte was written since the stream began (stateInCh < 256)
    blockNo,        \* w.blockNo, the next job's seq
    result,         \* what Close returned: "none", "ok" or "error"
    resets,         \* calls of Reset so far
    \* the pipeline's channels and WaitGroup
    jobs, jobsClosed, results, resultsClosed,
    done,           \* {}, or {v}: the verdict not yet received
    wg,             \* the counter of the WaitGroup that the caller waits on
    forked,         \* the workers count down another copy of that WaitGroup
    \* the workers
    held,           \* per worker {}, or {job} taken and not yet passed on
    gone,           \* the workers that returned
    \* the serializer
    ser,            \* where it stands
    pending, nextSeq, combined,
    bwErr,          \* bw.err # nil: a write to the destination failed
    \* the destination, and the blocks that should get there
    dst, sealed

callerVars == <<call, op, cur, dirty, blockNo, result, resets>>
chanVars == <<jobs, jobsClosed, results, resultsClosed, done>>
workerVars == <<wg, forked, held, gone>>
serVars == <<ser, pending, nextSeq, combined, bwErr, dst>>
vars == <<callerVars, chanVars, workerVars, serVars, sealed>>

Promise == INSTANCE Bzip2Stream WITH
    sink <- IF bwErr THEN "failed" ELSE "ok",
    phase <- IF jobsClosed THEN "closing" ELSE "open"

Job == [seq : Nat, data : Block]

-----------------------------------------------------------------------------
(* Decisions and updates of the pipeline that are named because the proofs and *)
(* the mutants of the project refer to them.                                   *)

\* ps.wg.Wait() lets the caller go on.
WorkersDoneUnchecked == TRUE
WorkersDone == wg = 0

\* wg after a worker's deferred Done.
CountDownForgotten == wg
CountDownTwice == IF forked THEN wg ELSE wg - 2
CountDown == IF forked THEN wg ELSE wg - 1

\* Whether a received result is the next to write.
InTurnAny(r) == TRUE
InTurn(r) == r.seq = nextSeq

\* delete(pending, nextSeq)
TakenOutForgotten(r) == pending
TakenOut(r) == pending \ {r}

Init ==
    /\ call = "idle" /\ op = "Write"
    /\ cur = {}
    /\ dirty = FALSE
    /\ blockNo = 0
    /\ result = "none"
    /\ resets = 0
    /\ forked = FALSE
    /\ sealed = << >>
    \* newParallelState
    /\ jobs = << >> /\ jobsClosed = FALSE
    /\ results = << >> /\ resultsClosed = FALSE
    /\ done = {}
    /\ wg = Cardinality(Workers)
    /\ held = [w \in Workers |-> {}]
    /\ gone = {}
    /\ ser = "header"
    /\ pending = {} /\ nextSeq = 0 /\ combined = << >>
    /\ bwErr = FALSE
    /\ dst = << >>

-----------------------------------------------------------------------------
(* The caller. *)

\* A Write that leaves the block with room: no flush.
WriteSome ==
    /\ call = "idle"
    /\ dirty' = TRUE
    /\ UNCHANGED <<call, op, cur, blockNo, result, resets,
                   chanVars, workerVars, serVars, sealed>>

\* A Write fills the block: flushBlock(false), up to the send.
WriteFull ==
    /\ call = "idle"
    /\ Len(sealed) < MaxBlocks - 1      \* Close may add the last one
    /\ \E b \in Block : cur' = {b}
    /\ dirty' = TRUE
    /\ call' = "send" /\ op' = "Write"
    /\ UNCHANGED <<blockNo, result, resets, chanVars, workerVars, serVars, sealed>>

\* Close: flushRL leaves a nonempty block if there is a byte in the stream.
Close ==
    /\ call = "idle"
    /\ op' = "Close"
    /\ IF dirty
       THEN /\ \E b \in Block : cur' = {b}
            /\ call' = "send"
       ELSE /\ call' = "shut"
            /\ UNCHANGED cur
    /\ dirty' = FALSE
    /\ UNCHANGED <<blockNo, result, resets, chanVars, workerVars, serVars, sealed>>

\* Reset clears the Writer's fields, then shuts the old pipeline down.
Reset ==
    /\ call \in {"idle", "closed"}
    /\ resets < MaxResets
    /\ resets' = resets + 1
    /\ call' = "shut" /\ op' = "Reset"
    /\ dirty' = FALSE
    /\ blockNo' = 0
    /\ UNCHANGED <<cur, result, chanVars, workerVars, serVars, sealed>>

\* ps.jobs <- blockJob{...}: blocks while the channel is full.
SendJob ==
    /\ call = "send"
    /\ Len(jobs) < ChanCap
    /\ \E b \in cur :
         /\ jobs' = Append(jobs, [seq |-> blockNo, data |-> b])
         /\ sealed' = Append(sealed, b)
    /\ blockNo' = blockNo + 1
    /\ cur' = {}
    /\ call' = IF op = "Close" THEN "shut" ELSE "idle"
    /\ UNCHANGED <<op, dirty, result, resets, results, jobsClosed, resultsClosed,
                   done, workerVars, serVars>>

\* close(ps.jobs) panics on a channel that is closed already.
CloseJobs ==
    /\ call = "shut"
    /\ jobsClosed' = TRUE
    /\ call' = IF jobsClosed THEN "panicked" ELSE "wait"
    /\ UNCHANGED <<op, cur, dirty, blockNo, result, resets, jobs, results,
                   resultsClosed, done, workerVars, serVars, sealed>>

\* ps.wg.Wait(); close(ps.results)
AwaitWorkers ==
    /\ call = "wait"
    /\ WorkersDone
    /\ resultsClosed' = TRUE
    /\ call' = "verdict"
    /\ UNCHANGED <<op, cur, dirty, blockNo, result, resets, jobs, jobsClosed,
                   results, done, workerVars, serVars, sealed>>

\* Close returns <-ps.done.
CloseReturns ==
    /\ call = "verdict" /\ op = "Close"
    /\ \E v \in done : result' = v
    /\ done' = {}
    /\ call' = "closed"
    /\ UNCHANGED <<op, cur, dirty, blockNo, resets, jobs, jobsClosed, results,
                   resultsClosed, workerVars, serVars, sealed>>

\* Reset drops the verdict and copies a new pipeline's state over the old: the
\* channels are shared with the new goroutines, the WaitGroup is not.
ResetReturns ==
    /\ call = "verdict" /\ op = "Reset"
    /\ done # {}
    /\ call' = "idle"
    /\ result' = "none"
    /\ sealed' = << >>
    /\ forked' = TRUE
    /\ jobs' = << >> /\ jobsClosed' = FALSE
    /\ results' = << >> /\ resultsClosed' = FALSE
    /\ done' = {}
    /\ wg' = Cardinality(Workers)
    /\ held' = [w \in Workers |-> {}]
    /\ gone' = {}
    /\ ser' = "header"
    /\ pending' = {} /\ nextSeq' = 0 /\ combined' = << >>
    /\ bwErr' = FALSE
    /\ dst' = << >>
    /\ UNCHANGED <<op, cur, dirty, blockNo, resets>>

-----------------------------------------------------------------------------
(* A worker. *)

TakeJob(w) ==
    /\ w \notin gone /\ held[w] = {}
    /\ jobs # << >>
    /\ held' = [held EXCEPT ![w] = {Head(jobs)}]
    /\ jobs' = Tail(jobs)
    /\ UNCHANGED <<callerVars, jobsClosed, results, resultsClosed, done,
                   wg, forked, gone, serVars, sealed>>

\* ps.results <- blockResult{...}: blocks while the channel is full.
SendResult(w) ==
    /\ Len(results) < ChanCap
    /\ \E job \in held[w] :
         /\ results' = Append(results, job)
         /\ held' = [held EXCEPT ![w] = @ \ {job}]
    /\ UNCHANGED <<callerVars, jobs, jobsClosed, resultsClosed, done,
                   wg, forked, gone, serVars, sealed>>

\* The range over jobs ends and the deferred Done runs.
WorkerReturns(w) ==
    /\ w \notin gone /\ held[w] = {}
    /\ jobs = << >> /\ jobsClosed
    /\ gone' = gone \cup {w}
    /\ wg' = CountDown
    /\ UNCHANGED <<callerVars, chanVars, forked, held, serVars, sealed>>

Worker(w) == TakeJob(w) \/ SendResult(w) \/ WorkerReturns(w)

-----------------------------------------------------------------------------
(* The serializer. *)

\* An item goes to the destination through the bitWriter: once a write failed
\* it drops everything, and otherwise it may fail now.
Emit(item) ==
    \/ ~bwErr /\ dst' = Append(dst, item) /\ bwErr' = FALSE
    \/ (bwErr \/ SinkMayFail) /\ dst' = dst /\ bwErr' = TRUE

\* The header is written first; its failure is noticed with the next item.
WriteHeader ==
    /\ ser = "header"
    /\ Emit(Promise!Header)
    /\ ser' = "receive"
    /\ UNCHANGED <<callerVars, chanVars, workerVars, pending, nextSeq, combined, sealed>>

\* res := <-ps.results; pending[res.seq] = res
ReceiveResult ==
    /\ ser = "receive"
    /\ results # << >>
    /\ LET res == Head(results)
       IN  pending' = {p \in pending : p.seq # res.seq} \cup {res}
    /\ results' = Tail(results)
    /\ ser' = "drain"
    /\ UNCHANGED <<callerVars, jobs, jobsClosed, resultsClosed, done, workerVars,
                   nextSeq, combined, bwErr, dst, sealed>>

\* The next block in order is there: write it; stop at the first error.
WriteBlock ==
    /\ ser = "drain"
    /\ \E r \in pending :
         /\ InTurn(r)
         /\ pending' = TakenOut(r)
         /\ combined' = Append(combined, r.data)
         /\ Emit(Promise!BlockItem(r.data))
    /\ nextSeq' = nextSeq + 1
    /\ ser' = IF bwErr' THEN "exited" ELSE "drain"
    /\ done' = IF bwErr' THEN {"error"} ELSE done
    /\ UNCHANGED <<callerVars, jobs, jobsClosed, results, resultsClosed,
                   workerVars, sealed>>

\* It is not: wait for another result.
AwaitNextBlock ==
    /\ ser = "drain"
    /\ \A r \in pending : ~InTurn(r)
    /\ ser' = "receive"
    /\ UNCHANGED <<callerVars, chanVars, workerVars, pending, nextSeq, combined,
                   bwErr, dst, sealed>>

\* The range over results ends: the trailer, and the verdict.
WriteTrailer ==
    /\ ser = "receive"
    /\ results = << >> /\ resultsClosed
    /\ Emit(Promise!Trailer(combined))
    /\ done' = {IF bwErr' THEN "error" ELSE "ok"}
    /\ ser' = "exited"
    /\ UNCHANGED <<callerVars, jobs, jobsClosed, results, resultsClosed,
                   workerVars, pending, nextSeq, combined, sealed>>

Serializer ==
    WriteHeader \/ ReceiveResult \/ WriteBlock \/ AwaitNextBlock \/ WriteTrailer

-----------------------------------------------------------------------------
\* The steps of a call already made; the caller need not make another.
CallerGoesOn == SendJob \/ CloseJobs \/ AwaitWorkers \/ CloseReturns \/ ResetReturns

Next ==
    \/ WriteSome \/ WriteFull \/ Close \/ Reset
    \/ CallerGoesOn
    \/ \E w \in Workers : Worker(w)
    \/ Serializer

\* A goroutine that can run does run: Go's scheduler preempts, and a channel
\* serves its waiters in turn.
Fairness ==
    /\ WF_vars(CallerGoesOn)
    /\ \A w \in Workers : WF_vars(Worker(w))
    /\ WF_vars(Serializer)

Spec == Init /\ [][Next]_vars
FairSpec == Spec /\ Fairness

-----------------------------------------------------------------------------
CallerTypes ==
    /\ call \in {"idle", "send", "shut", "wait", "verdict", "closed", "panicked"}
    /\ op \in {"Write", "Close", "Reset"}
    /\ cur \subseteq Block /\ (call = "send" <=> cur # {})
    /\ dirty \in BOOLEAN
    /\ blockNo \in Nat
    /\ result \in {"none", "ok", "error"}
    /\ resets \in Nat
    /\ sealed \in Seq(Block)
ChanTypes ==
    /\ jobs \in Seq(Job) /\ Len(jobs) <= ChanCap
    /\ results \in Seq(Job) /\ Len(results) <= ChanCap
    /\ jobsClosed \in BOOLEAN /\ resultsClosed \in BOOLEAN
    /\ done \subseteq {"ok", "error"}
WorkerTypes ==
    /\ wg \in 0..Cardinality(Workers)
    /\ forked \in BOOLEAN
    /\ held \in [Workers -> SUBSET Job]
    /\ gone \subseteq Workers
SerTypes ==
    /\ ser \in {"header", "receive", "drain", "exited"}
    /\ pending \subseteq Job
    /\ nextSeq \in Nat
    /\ combined \in Seq(Block)
    /\ bwErr \in BOOLEAN
    /\ dst \in Seq(Promise!Items)
TypeOK == CallerTypes /\ ChanTypes /\ WorkerTypes /\ SerTypes

\* The destination receives the stream that the single-threaded Writer promises:
\* header, blocks in the caller's order whatever the workers' order, trailer over
\* the same blocks; Close says "ok" only for the whole of it and never swallows a
\* failed write; a failed destination is not written to again (writer.go:384-434).
KeepsPromise == Promise!Spec

-----------------------------------------------------------------------------
(* Why the promise is kept: the parts of an inductive invariant, which            *)
(* ParallelWriter_proofs carries through every step.                              *)

Elements(q) == {q[i] : i \in DOMAIN q}
HeldJobs == UNION {held[w] : w \in Workers}
InFlight == Elements(jobs) \cup HeldJobs \cup Elements(results) \cup pending

\* The WaitGroup the caller waits on counts the workers still there - or, once it was
\* copied by a Reset, never moves (writer.go:354-364, 444).
Countdown == wg = Cardinality(IF forked THEN Workers ELSE Workers \ gone)

\* The order of the shutdown (writer.go:367-377, 436-441, 467-471).
Shutdown ==
    /\ call \in {"idle", "send"} \/ (call = "shut" /\ op = "Close") => ~jobsClosed
    /\ call \in {"wait", "verdict", "closed", "panicked"} => jobsClosed
    /\ resultsClosed => gone = Workers
    /\ gone # {} => jobsClosed /\ jobs = << >>
    /\ \A w \in gone : held[w] = {}

\* w.blockNo numbers the blocks of the stream (writer.go:157, 262, 458).
Numbered ==
    /\ call \in {"idle", "send"} => blockNo = Len(sealed)
    /\ op = "Reset" /\ call \in {"shut", "wait", "verdict"} => blockNo = 0

\* What is under way is a sealed block with its number, and every sealed block that the
\* serializer has not passed is under way (writer.go:397-414, 457-463).
Faithful == \A r \in InFlight : r.seq < Len(sealed) /\ r.data = sealed[r.seq + 1]
Covered == \A k \in nextSeq..Len(sealed) - 1 : \E r \in InFlight : r.seq = k

\* How far the serializer came, and what the destination holds (writer.go:384-434).
Serialized ==
    /\ nextSeq <= Len(sealed)
    /\ combined = SubSeq(sealed, 1, nextSeq)
    /\ ser = "header" => nextSeq = 0 /\ pending = {}
    /\ ser = "receive" => \A r \in pending : r.seq # nextSeq
    /\ Len(dst) <= Len(sealed) + (IF jobsClosed THEN 2 ELSE 1)
    /\ \A i \in 1..Len(dst) : dst[i] = Promise!Item(sealed, i)
    /\ ~bwErr /\ ser = "header" => Len(dst) = 0
    /\ ~bwErr /\ ser \in {"receive", "drain"} => Len(dst) = nextSeq + 1
    /\ ~bwErr /\ ser = "exited" => jobsClosed /\ Len(dst) = Len(sealed) + 2

\* The verdict on its way to the caller (writer.go:417, 431-434, 471).
Verdict ==
    /\ ser # "exited" => done = {} /\ result = "none"
    /\ result # "none" => jobsClosed /\ call \in {"closed", "shut", "panicked"}
    /\ \A v \in done : v = IF bwErr THEN "error" ELSE "ok"

IInv ==
    /\ TypeOK /\ Countdown /\ Shutdown /\ Numbered
    /\ Faithful /\ Covered /\ Serialized /\ Verdict

-----------------------------------------------------------------------------
\* From the send to the write, every block of the stream is in exactly one place:
\* a channel, a worker, the reorder map, or behind the serializer (writer.go:397-414).
Copies(k) ==
    Cardinality({i \in DOMAIN jobs : jobs[i].seq = k})
    + Cardinality({w \in Workers : \E job \in held[w] : job.seq = k})
    + Cardinality({i \in DOMAIN results : results[i].seq = k})
    + Cardinality({r \in pending : r.seq = k})
    + (IF k < nextSeq THEN 1 ELSE 0)
EachBlockInOnePlace ==
    \A k \in 0..MaxBlocks : Copies(k) = IF k < Len(sealed) THEN 1 ELSE 0

\* The shutdown order close(jobs), wg.Wait, close(results) lets no goroutine send on
\* a closed channel, which would panic (writer.go:468-470, 438-440).
NoSendOnClosedChannel ==
    /\ jobsClosed => call # "send"
    /\ resultsClosed => \A w \in Workers : w \in gone /\ held[w] = {}

\* A Write, Close or Reset that was called returns, unless the serializer gave up on a
\* failed destination or an earlier Reset has split the WaitGroup in two.
CallsReturn ==
    [](call # "idle" =>
         <>(call \in {"idle", "closed", "panicked"} \/ (bwErr /\ ser = "exited") \/ forked))

\* Even so Close returns when what is left to send fits the results channel: the
\* block the serializer gave up on and ChanCap more (writer.go:352, 416, 469).
ShortStreamsClose ==
    [](op = "Close" /\ call = "shut" /\ Len(sealed) <= 2 * Cardinality(Workers) + 1
          /\ ~forked
         => <>(call = "closed"))

\* Close returns, whatever happened before it (writer.go:139: "Close flushes any
\* pending data and writes the bzip2 stream trailer").
CloseAlwaysReturns == [](op = "Close" /\ call = "shut" => <>(call = "closed"))

\* Reset can be used on every Writer (writer.go:149: "Reset discards internal state
\* and switches to writing to dst"), one that was closed too.
ResetNeverPanics == call # "panicked"
=============================================================================
