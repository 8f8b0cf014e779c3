----------------------- MODULE ParallelWriter_proofs -----------------------
(***************************************************************************)
(* What the runs of ParallelWriter check for two workers and a few blocks,  *)
(* proved for all sets of blocks and of workers and for all bounds.          *)
(***************************************************************************)
EXTENDS ParallelWriter, FiniteSetTheorems, TLAPS

-----------------------------------------------------------------------------
(* Sequences and cardinalities. *)

\* A send adds one element to those of a channel.
LEMMA ElementsAppend ==
    ASSUME NEW S, NEW q \in Seq(S), NEW x \in S
    PROVE  Elements(Append(q, x)) = Elements(q) \cup {x}
<1>1. /\ DOMAIN Append(q, x) = DOMAIN q \cup {Len(q) + 1}
      /\ \A i \in DOMAIN q : Append(q, x)[i] = q[i]
      /\ Append(q, x)[Len(q) + 1] = x
  OBVIOUS
<1> QED  BY <1>1 DEF Elements

\* A receive takes the head; the elements of a channel are the head and those of the rest.
LEMMA ElementsHead ==
    ASSUME NEW S, NEW q \in Seq(S), q # << >>
    PROVE  /\ Elements(q) = {Head(q)} \cup Elements(Tail(q))
           /\ Head(q) \in S /\ Tail(q) \in Seq(S) /\ Len(Tail(q)) = Len(q) - 1
<1> DEFINE rest == Tail(q)
<1>1. Len(q) \in Nat \ {0} /\ DOMAIN q = 1..Len(q)
  OBVIOUS
<1>2. rest \in Seq(S) /\ Len(rest) = Len(q) - 1 /\ DOMAIN rest = 1..Len(q) - 1
  OBVIOUS
<1>3. \A i \in 1..Len(q) - 1 : rest[i] = q[i + 1]
  OBVIOUS
<1>4. Head(q) = q[1] /\ q[1] \in S
  OBVIOUS
<1> HIDE DEF rest
<1>5. Elements(q) \subseteq {q[1]} \cup Elements(rest)
  <2>1. SUFFICES ASSUME NEW i \in 1..Len(q)
                 PROVE  q[i] \in {q[1]} \cup Elements(rest)
    BY <1>1 DEF Elements
  <2>2. CASE i = 1
    BY <2>2
  <2>3. CASE i # 1
    <3>1. i - 1 \in 1..Len(q) - 1 /\ (i - 1) + 1 = i
      BY <1>1, <2>3
    <3>2. q[i] = rest[i - 1]
      BY <3>1, <1>3
    <3> QED  BY <3>1, <3>2, <1>2 DEF Elements
  <2> QED  BY <2>2, <2>3
<1>6. {q[1]} \cup Elements(rest) \subseteq Elements(q)
  <2>1. \A i \in 1..Len(q) - 1 : i + 1 \in 1..Len(q)
    BY <1>1
  <2> QED  BY <2>1, <1>1, <1>2, <1>3 DEF Elements
<1>7. Elements(q) = {Head(q)} \cup Elements(rest)
  BY <1>4, <1>5, <1>6
<1> QED  BY <1>2, <1>4, <1>7 DEF rest

\* There is at least one worker, and a channel has room for something (writer.go:352-353).
LEMMA WorkersCount ==
    /\ Cardinality(Workers) \in Nat \ {0}
    /\ ChanCap \in Nat \ {0}
    /\ \A S \in SUBSET Workers :
         /\ IsFiniteSet(S)
         /\ Cardinality(S) \in 0..Cardinality(Workers)
         /\ Cardinality(S) = 0 <=> S = {}
         /\ \A w \in S : Cardinality(S \ {w}) = Cardinality(S) - 1
<1>1. \A S \in SUBSET Workers :
         IsFiniteSet(S) /\ Cardinality(S) \in Nat /\ Cardinality(S) <= Cardinality(Workers)
  BY WorkersAssumption, FS_Subset, FS_CardinalityType
<1>2. \A S \in SUBSET Workers : Cardinality(S) = 0 <=> S = {}
  BY <1>1, FS_EmptySet
<1>3. \A S \in SUBSET Workers : \A w \in S : Cardinality(S \ {w}) = Cardinality(S) - 1
  BY <1>1, FS_RemoveElement
<1>4. Workers \in SUBSET Workers
  OBVIOUS
<1>5. Cardinality(Workers) \in Nat \ {0}
  BY <1>1, <1>2, <1>4, WorkersAssumption
<1> QED  BY <1>1, <1>2, <1>3, <1>5 DEF ChanCap

\* What the serializer writes are items of the stream (writer.go:391-429).
LEMMA ItemTypes ==
    /\ Promise!Header \in Promise!Items
    /\ \A b \in Block : Promise!BlockItem(b) \in Promise!Items
    /\ \A blocks \in Seq(Block) : Promise!Trailer(blocks) \in Promise!Items
BY DEF Promise!Header, Promise!BlockItem, Promise!Trailer, Promise!Items

\* A new channel is empty.
LEMMA EmptyQueue == \A S : << >> \in Seq(S) /\ Len(<< >>) = 0
OBVIOUS

\* Writing an item, or failing to, keeps the types of the destination (bitio.go:18-34).
LEMMA EmitTypes ==
    ASSUME NEW item \in Promise!Items, SerTypes, Emit(item)
    PROVE  dst' \in Seq(Promise!Items) /\ bwErr' \in BOOLEAN
<1> DEFINE Items == Promise!Items
<1>1. item \in Items /\ dst \in Seq(Items) /\ bwErr \in BOOLEAN
  BY DEF SerTypes
<1>2. \/ dst' = Append(dst, item) /\ bwErr' = FALSE
      \/ dst' = dst /\ bwErr' = TRUE
  BY DEF Emit
<1> HIDE DEF Items
<1>3. dst' \in Seq(Items)
  BY <1>1, <1>2
<1>4. bwErr' \in BOOLEAN
  BY <1>2
<1> QED  BY <1>3, <1>4 DEF Items

\* One block more does not change the items in front of it.
LEMMA ItemStable ==
    ASSUME NEW blocks \in Seq(Block), NEW b \in Block, NEW i \in 1..Len(blocks) + 1
    PROVE  Promise!Item(Append(blocks, b), i) = Promise!Item(blocks, i)
BY DEF Promise!Item, Promise!BlockItem, Promise!Header

-----------------------------------------------------------------------------
(* The initial states. *)

\* The pipeline that newParallelState starts satisfies the invariant (writer.go:347-365).
LEMMA InitInv == Init => IInv
<1> SUFFICES ASSUME Init PROVE IInv
  OBVIOUS
<1>1. InFlight = {}
  BY DEF Init, InFlight, HeldJobs, Elements
<1>2. CallerTypes
  <2>1. sealed \in Seq(Block)
    BY DEF Init
  <2> QED  BY <2>1 DEF Init, CallerTypes
<1>3. ChanTypes
  <2>1. jobs \in Seq(Job) /\ results \in Seq(Job)
    BY DEF Init
  <2>2. Len(jobs) <= ChanCap /\ Len(results) <= ChanCap
    BY WorkersCount DEF Init
  <2> QED  BY <2>1, <2>2 DEF Init, ChanTypes
<1>4. WorkerTypes
  BY WorkersCount DEF Init, WorkerTypes
<1>5. SerTypes
  <2>1. combined \in Seq(Block) /\ dst \in Seq(Promise!Items)
    BY DEF Init
  <2> QED  BY <2>1 DEF Init, SerTypes
<1>6. Countdown
  <2>1. Workers \ gone = Workers
    BY DEF Init
  <2> QED  BY <2>1 DEF Init, Countdown
<1>7. Shutdown /\ Numbered /\ Verdict
  BY DEF Init, Shutdown, Numbered, Verdict
<1>8. Faithful /\ Covered
  BY <1>1 DEF Init, Faithful, Covered
<1>9. Serialized
  BY DEF Init, Serialized
<1> QED  BY <1>2, <1>3, <1>4, <1>5, <1>6, <1>7, <1>8, <1>9 DEF IInv, TypeOK

-----------------------------------------------------------------------------
(* One lemma for each part of the invariant: every step preserves it. *)

\* Every step keeps the types, the capacities of the channels among them.
LEMMA TypeStep == IInv /\ [Next]_vars => TypeOK'
<1> SUFFICES ASSUME IInv, [Next]_vars PROVE TypeOK'
  OBVIOUS
<1>0. CallerTypes /\ ChanTypes /\ WorkerTypes /\ SerTypes /\ Countdown
  BY DEF IInv, TypeOK
<1>1. UNCHANGED <<callerVars, sealed>> => CallerTypes'
  BY <1>0 DEF CallerTypes, callerVars
<1>2. UNCHANGED chanVars => ChanTypes'
  BY <1>0 DEF ChanTypes, chanVars
<1>3. UNCHANGED workerVars => WorkerTypes'
  BY <1>0 DEF WorkerTypes, workerVars
<1>4. UNCHANGED serVars => SerTypes'
  BY <1>0 DEF SerTypes, serVars
<1>5. CASE WriteSome
  <2>1. CallerTypes'
    BY <1>0, <1>5 DEF WriteSome, CallerTypes
  <2> QED  BY <2>1, <1>5, <1>2, <1>3, <1>4 DEF WriteSome, TypeOK, callerVars, chanVars, workerVars, serVars
<1>6. CASE WriteFull
  <2>1. CallerTypes'
    BY <1>0, <1>6 DEF WriteFull, CallerTypes
  <2> QED  BY <2>1, <1>6, <1>2, <1>3, <1>4 DEF WriteFull, TypeOK, callerVars, chanVars, workerVars, serVars
<1>7. CASE Close
  <2>1. CallerTypes'
    BY <1>0, <1>7 DEF Close, CallerTypes
  <2> QED  BY <2>1, <1>7, <1>2, <1>3, <1>4 DEF Close, TypeOK, callerVars, chanVars, workerVars, serVars
<1>8. CASE Reset
  <2>1. CallerTypes'
    <3>1. sealed' \in Seq(Block) /\ cur' \subseteq Block
      BY <1>0, <1>8 DEF Reset, CallerTypes
    <3>2. resets' \in Nat /\ blockNo' \in Nat
      BY <1>0, <1>8 DEF Reset, CallerTypes
    <3> QED  BY <1>0, <1>8, <3>1, <3>2 DEF Reset, CallerTypes
  <2> QED  BY <2>1, <1>8, <1>2, <1>3, <1>4 DEF Reset, TypeOK, callerVars, chanVars, workerVars, serVars
<1>9. CASE SendJob
  <2>1. CallerTypes'
    BY <1>0, <1>9 DEF SendJob, CallerTypes
  <2>2. ChanTypes'
    <3>1. PICK b \in cur : jobs' = Append(jobs, [seq |-> blockNo, data |-> b])
      BY <1>9 DEF SendJob
    <3>2. [seq |-> blockNo, data |-> b] \in Job
      BY <1>0 DEF CallerTypes, Job
    <3>3. jobs' \in Seq(Job) /\ Len(jobs') = Len(jobs) + 1
      BY <1>0, <3>1, <3>2 DEF ChanTypes
    <3>4. Len(jobs') <= ChanCap
      BY <1>0, <1>9, <3>3, WorkersCount DEF SendJob, ChanTypes
    <3> QED  BY <1>0, <1>9, <3>3, <3>4 DEF SendJob, ChanTypes
  <2> QED  BY <2>1, <2>2, <1>9, <1>3, <1>4 DEF SendJob, TypeOK, callerVars, chanVars, workerVars, serVars
<1>10. CASE CloseJobs
  <2>1. CallerTypes'
    BY <1>0, <1>10 DEF CloseJobs, CallerTypes
  <2>2. ChanTypes'
    BY <1>0, <1>10 DEF CloseJobs, ChanTypes
  <2> QED  BY <2>1, <2>2, <1>10, <1>3, <1>4 DEF CloseJobs, TypeOK, callerVars, chanVars, workerVars, serVars
<1>11. CASE AwaitWorkers
  <2>1. CallerTypes'
    BY <1>0, <1>11 DEF AwaitWorkers, CallerTypes
  <2>2. ChanTypes'
    BY <1>0, <1>11 DEF AwaitWorkers, ChanTypes
  <2> QED  BY <2>1, <2>2, <1>11, <1>3, <1>4 DEF AwaitWorkers, TypeOK, callerVars, chanVars, workerVars, serVars
<1>12. CASE CloseReturns
  <2>1. CallerTypes'
    BY <1>0, <1>12 DEF CloseReturns, CallerTypes, ChanTypes
  <2>2. ChanTypes'
    BY <1>0, <1>12 DEF CloseReturns, ChanTypes
  <2> QED  BY <2>1, <2>2, <1>12, <1>3, <1>4 DEF CloseReturns, TypeOK, callerVars, chanVars, workerVars, serVars
<1>13. CASE ResetReturns
  <2>1. CallerTypes'
    BY <1>0, <1>13 DEF ResetReturns, CallerTypes
  <2>2. ChanTypes'
    <3>1. Len(jobs') <= ChanCap /\ Len(results') <= ChanCap
      BY <1>13, EmptyQueue, WorkersCount DEF ResetReturns
    <3>2. jobs' \in Seq(Job) /\ results' \in Seq(Job)
      BY <1>13, EmptyQueue DEF ResetReturns
    <3> QED  BY <1>13, <3>1, <3>2 DEF ResetReturns, ChanTypes
  <2>3. WorkerTypes'
    BY <1>0, <1>13, WorkersCount DEF ResetReturns, WorkerTypes
  <2>4. SerTypes'
    <3>1. combined' \in Seq(Block) /\ dst' \in Seq(Promise!Items)
      BY <1>13, EmptyQueue DEF ResetReturns
    <3> QED  BY <1>13, <3>1 DEF ResetReturns, SerTypes
  <2> QED  BY <2>1, <2>2, <2>3, <2>4, <1>13 DEF ResetReturns, TypeOK
<1>14. ASSUME NEW w \in Workers, TakeJob(w) PROVE TypeOK'
  <2>1. ChanTypes'
    <3>1. jobs' \in Seq(Job) /\ Len(jobs') = Len(jobs) - 1 /\ Len(jobs) \in Nat
      BY <1>0, <1>14, ElementsHead DEF TakeJob, ChanTypes
    <3>2. Len(jobs') <= ChanCap
      BY <1>0, <3>1, WorkersCount DEF ChanTypes
    <3> QED  BY <1>0, <1>14, <3>1, <3>2 DEF TakeJob, ChanTypes
  <2>2. WorkerTypes'
    BY <1>0, <1>14, ElementsHead DEF TakeJob, WorkerTypes, ChanTypes
  <2> QED  BY <2>1, <2>2, <1>14, <1>1, <1>4 DEF TakeJob, TypeOK, callerVars, chanVars, workerVars, serVars
<1>15. ASSUME NEW w \in Workers, SendResult(w) PROVE TypeOK'
  <2>1. ChanTypes'
    <3>1. PICK job \in held[w] : results' = Append(results, job)
      BY <1>15 DEF SendResult
    <3>2. job \in Job
      BY <1>0 DEF WorkerTypes
    <3>3. results' \in Seq(Job) /\ Len(results') = Len(results) + 1
      BY <1>0, <3>1, <3>2 DEF ChanTypes
    <3>4. Len(results') <= ChanCap
      BY <1>0, <1>15, <3>3, WorkersCount DEF SendResult, ChanTypes
    <3> QED  BY <1>0, <1>15, <3>3, <3>4 DEF SendResult, ChanTypes
  <2>2. WorkerTypes'
    BY <1>0, <1>15 DEF SendResult, WorkerTypes
  <2> QED  BY <2>1, <2>2, <1>15, <1>1, <1>4 DEF SendResult, TypeOK, callerVars, chanVars, workerVars, serVars
<1>16. ASSUME NEW w \in Workers, WorkerReturns(w) PROVE TypeOK'
  <2>1. WorkerTypes'
    BY <1>0, <1>16, WorkersCount DEF WorkerReturns, WorkerTypes, CountDown, Countdown
  <2> QED  BY <2>1, <1>16, <1>1, <1>2, <1>4 DEF WorkerReturns, TypeOK, callerVars, chanVars, workerVars, serVars
<1>17. CASE WriteHeader
  <2>1. SerTypes'
    <3>1. dst' \in Seq(Promise!Items) /\ bwErr' \in BOOLEAN
      BY <1>0, <1>17, ItemTypes, EmitTypes DEF WriteHeader
    <3> QED  BY <1>0, <1>17, <3>1 DEF WriteHeader, SerTypes
  <2> QED  BY <2>1, <1>17, <1>1, <1>2, <1>3 DEF WriteHeader, TypeOK, callerVars, chanVars, workerVars, serVars
<1>18. CASE ReceiveResult
  <2>1. ChanTypes'
    <3>1. results' \in Seq(Job) /\ Len(results') = Len(results) - 1 /\ Len(results) \in Nat
      BY <1>0, <1>18, ElementsHead DEF ReceiveResult, ChanTypes
    <3>2. Len(results') <= ChanCap
      BY <1>0, <3>1, WorkersCount DEF ChanTypes
    <3> QED  BY <1>0, <1>18, <3>1, <3>2 DEF ReceiveResult, ChanTypes
  <2>2. SerTypes'
    BY <1>0, <1>18, ElementsHead DEF ReceiveResult, SerTypes, ChanTypes
  <2> QED  BY <2>1, <2>2, <1>18, <1>1, <1>3 DEF ReceiveResult, TypeOK, callerVars, chanVars, workerVars, serVars
<1>19. CASE WriteBlock
  <2>1. ChanTypes'
    BY <1>0, <1>19 DEF WriteBlock, ChanTypes
  <2>2. SerTypes'
    <3>1. PICK r \in pending : /\ pending' = TakenOut(r)
                              /\ combined' = Append(combined, r.data)
                              /\ Emit(Promise!BlockItem(r.data))
      BY <1>19 DEF WriteBlock
    <3>2. r.data \in Block
      BY <1>0 DEF SerTypes, Job
    <3>3. combined' \in Seq(Block)
      BY <1>0, <3>1, <3>2 DEF SerTypes
    <3>4. dst' \in Seq(Promise!Items) /\ bwErr' \in BOOLEAN
      BY <1>0, <3>1, <3>2, ItemTypes, EmitTypes
    <3>5. pending' \subseteq Job /\ nextSeq' \in Nat
      BY <1>0, <1>19, <3>1 DEF WriteBlock, TakenOut, SerTypes
    <3> QED  BY <1>19, <3>3, <3>4, <3>5 DEF WriteBlock, SerTypes
  <2> QED  BY <2>1, <2>2, <1>19, <1>1, <1>3 DEF WriteBlock, TypeOK, callerVars, chanVars, workerVars, serVars
<1>20. CASE AwaitNextBlock
  <2>1. SerTypes'
    BY <1>0, <1>20 DEF AwaitNextBlock, SerTypes
  <2> QED  BY <2>1, <1>20, <1>1, <1>2, <1>3 DEF AwaitNextBlock, TypeOK, callerVars, chanVars, workerVars, serVars
<1>21. CASE WriteTrailer
  <2>1. ChanTypes'
    BY <1>0, <1>21 DEF WriteTrailer, ChanTypes
  <2>2. SerTypes'
    <3>1. dst' \in Seq(Promise!Items) /\ bwErr' \in BOOLEAN
      <4>1. Promise!Trailer(combined) \in Promise!Items
        BY <1>0, ItemTypes DEF SerTypes
      <4> QED  BY <1>0, <1>21, <4>1, EmitTypes DEF WriteTrailer
    <3> QED  BY <1>0, <1>21, <3>1 DEF WriteTrailer, SerTypes
  <2> QED  BY <2>1, <2>2, <1>21, <1>1, <1>3 DEF WriteTrailer, TypeOK, callerVars, chanVars, workerVars, serVars
<1>22. CASE UNCHANGED vars
  BY <1>1, <1>2, <1>3, <1>4, <1>22 DEF vars, TypeOK
<1> QED
  BY <1>5, <1>6, <1>7, <1>8, <1>9, <1>10, <1>11, <1>12, <1>13,
     <1>14, <1>15, <1>16, <1>17, <1>18, <1>19, <1>20, <1>21, <1>22
  DEF Next, CallerGoesOn, Worker, Serializer

\* Every step keeps the WaitGroup in step with the workers (writer.go:358, 369, 444).
LEMMA CountdownStep == IInv /\ [Next]_vars => Countdown'
<1> SUFFICES ASSUME IInv, [Next]_vars PROVE Countdown'
  OBVIOUS
<1>0. WorkerTypes /\ Countdown
  BY DEF IInv, TypeOK
<1>1. UNCHANGED <<wg, forked, gone>> => Countdown'
  BY <1>0 DEF Countdown
<1>2. CASE \/ WriteSome \/ WriteFull \/ Close \/ Reset \/ SendJob \/ CloseJobs
         \/ AwaitWorkers \/ CloseReturns \/ WriteHeader \/ ReceiveResult \/ WriteBlock \/ AwaitNextBlock \/ WriteTrailer
  BY <1>1, <1>2 DEF WriteSome, WriteFull, Close, Reset, SendJob, CloseJobs, AwaitWorkers, CloseReturns, WriteHeader, ReceiveResult, WriteBlock, AwaitNextBlock, WriteTrailer,
     callerVars, chanVars, workerVars, serVars
<1>3. ASSUME NEW w \in Workers, TakeJob(w) \/ SendResult(w) PROVE Countdown'
  BY <1>1, <1>3 DEF TakeJob, SendResult, callerVars, chanVars, serVars
<1>4. CASE ResetReturns
  <2>1. Workers \ gone' = Workers
    BY <1>4 DEF ResetReturns
  <2> QED  BY <1>4, <2>1 DEF ResetReturns, Countdown
<1>5. ASSUME NEW w \in Workers, WorkerReturns(w) PROVE Countdown'
  <2>1. CASE forked
    BY <1>0, <1>5, <2>1 DEF WorkerReturns, CountDown, Countdown
  <2>2. CASE ~forked
    <3>1. wg = Cardinality(Workers \ gone) /\ w \in Workers \ gone
      BY <1>0, <1>5, <2>2 DEF WorkerReturns, Countdown
    <3>2. Cardinality((Workers \ gone) \ {w}) = Cardinality(Workers \ gone) - 1
      BY <3>1, WorkersCount
    <3>3. Workers \ gone' = (Workers \ gone) \ {w}
      BY <1>5 DEF WorkerReturns
    <3> QED  BY <1>5, <2>2, <3>1, <3>2, <3>3 DEF WorkerReturns, CountDown, Countdown
  <2> QED  BY <2>1, <2>2, <1>0 DEF WorkerTypes
<1>6. CASE UNCHANGED vars
  BY <1>1, <1>6 DEF vars, callerVars, chanVars, workerVars, serVars
<1> QED
  BY <1>2, <1>3, <1>4, <1>5, <1>6
  DEF Next, CallerGoesOn, Worker, Serializer

\* Every step keeps the order of the shutdown (writer.go:438-441, 468-471).
LEMMA ShutdownStep == IInv /\ [Next]_vars => Shutdown'
<1> SUFFICES ASSUME IInv, [Next]_vars PROVE Shutdown'
  OBVIOUS
<1>0. CallerTypes /\ WorkerTypes /\ Countdown /\ Shutdown
  BY DEF IInv, TypeOK
<1>1. UNCHANGED <<call, op, jobs, jobsClosed, resultsClosed, gone, held>> => Shutdown'
  BY <1>0 DEF Shutdown
<1>2. CASE WriteSome \/ WriteHeader \/ ReceiveResult \/ WriteBlock \/ AwaitNextBlock \/ WriteTrailer
  BY <1>1, <1>2 DEF WriteSome, WriteHeader, ReceiveResult, WriteBlock, AwaitNextBlock, WriteTrailer,
     callerVars, chanVars, workerVars, serVars
<1>3. CASE WriteFull
  BY <1>0, <1>3 DEF WriteFull, Shutdown, chanVars, workerVars
<1>4. CASE Close
  BY <1>0, <1>4 DEF Close, Shutdown, chanVars, workerVars
<1>5. CASE Reset
  BY <1>0, <1>5 DEF Reset, Shutdown, chanVars, workerVars
<1>6. CASE SendJob
  BY <1>0, <1>6 DEF SendJob, Shutdown, chanVars, workerVars
<1>7. CASE CloseJobs
  BY <1>0, <1>7 DEF CloseJobs, Shutdown, chanVars, workerVars
<1>8. CASE AwaitWorkers
  <2>1. gone = Workers
    <3>1. ~forked /\ Cardinality(Workers \ gone) = 0
      BY <1>0, <1>8, WorkersCount DEF AwaitWorkers, WorkersDone, Countdown
    <3>2. Workers \ gone = {}
      BY <3>1, WorkersCount
    <3> QED  BY <3>2, <1>0 DEF WorkerTypes
  <2> QED  BY <1>0, <1>8, <2>1 DEF AwaitWorkers, Shutdown, workerVars
<1>9. CASE CloseReturns
  BY <1>0, <1>9 DEF CloseReturns, Shutdown, chanVars, workerVars
<1>10. CASE ResetReturns
  BY <1>0, <1>10 DEF ResetReturns, Shutdown, chanVars, workerVars
<1>11. ASSUME NEW w \in Workers, TakeJob(w) PROVE Shutdown'
  <2>1. gone = {}
    BY <1>0, <1>11 DEF TakeJob, Shutdown
  <2> QED  BY <1>0, <1>11, <2>1 DEF TakeJob, Shutdown, callerVars
<1>12. ASSUME NEW w \in Workers, SendResult(w) PROVE Shutdown'
  <2>1. w \notin gone
    BY <1>0, <1>12 DEF SendResult, Shutdown
  <2>2. \A v \in gone : held'[v] = {}
    BY <1>0, <1>12, <2>1 DEF SendResult, Shutdown, WorkerTypes
  <2> QED  BY <1>0, <1>12, <2>2 DEF SendResult, Shutdown, callerVars
<1>13. ASSUME NEW w \in Workers, WorkerReturns(w) PROVE Shutdown'
  <2>1. resultsClosed => gone' = Workers
    BY <1>0, <1>13 DEF WorkerReturns, Shutdown, WorkerTypes
  <2>2. \A v \in gone' : held'[v] = {}
    BY <1>0, <1>13 DEF WorkerReturns, Shutdown
  <2> QED  BY <1>0, <1>13, <2>1, <2>2 DEF WorkerReturns, Shutdown, callerVars, chanVars
<1>14. CASE UNCHANGED vars
  BY <1>1, <1>14 DEF vars, callerVars, chanVars, workerVars, serVars
<1> QED
  BY <1>2, <1>3, <1>4, <1>5, <1>6, <1>7, <1>8, <1>9, <1>10, <1>11, <1>12, <1>13, <1>14
  DEF Next, CallerGoesOn, Worker, Serializer

\* Every step keeps the numbering of the blocks (writer.go:245, 458).
LEMMA NumberedStep == IInv /\ [Next]_vars => Numbered'
<1> SUFFICES ASSUME IInv, [Next]_vars PROVE Numbered'
  OBVIOUS
<1>0. CallerTypes /\ Numbered
  BY DEF IInv, TypeOK
<1>1. UNCHANGED <<call, op, blockNo, sealed>> => Numbered'
  BY <1>0 DEF Numbered
<1>2. CASE WriteSome \/ WriteHeader \/ ReceiveResult \/ WriteBlock \/ AwaitNextBlock \/ WriteTrailer
  BY <1>1, <1>2 DEF WriteSome, WriteHeader, ReceiveResult, WriteBlock, AwaitNextBlock, WriteTrailer,
     callerVars, chanVars, workerVars, serVars
<1>3. ASSUME NEW w \in Workers, TakeJob(w) \/ SendResult(w) \/ WorkerReturns(w) PROVE Numbered'
  BY <1>1, <1>3 DEF TakeJob, SendResult, WorkerReturns, callerVars, chanVars, serVars
<1>4. CASE WriteFull
  BY <1>0, <1>4 DEF WriteFull, Numbered
<1>5. CASE Close
  BY <1>0, <1>5 DEF Close, Numbered
<1>6. CASE Reset
  BY <1>0, <1>6 DEF Reset, Numbered
<1>7. CASE SendJob
  <2>1. blockNo = Len(sealed) /\ call' # "wait" /\ call' # "verdict"
    BY <1>0, <1>7 DEF SendJob, Numbered
  <2>2. Len(sealed') = Len(sealed) + 1 /\ blockNo' = blockNo + 1
    BY <1>0, <1>7 DEF SendJob, CallerTypes
  <2>3. ~(op' = "Reset" /\ call' = "shut")
    BY <1>7 DEF SendJob
  <2> QED  BY <2>1, <2>2, <2>3 DEF Numbered
<1>8. CASE CloseJobs
  BY <1>0, <1>8 DEF CloseJobs, Numbered
<1>9. CASE AwaitWorkers
  BY <1>0, <1>9 DEF AwaitWorkers, Numbered
<1>10. CASE CloseReturns
  BY <1>0, <1>10 DEF CloseReturns, Numbered
<1>11. CASE ResetReturns
  BY <1>0, <1>11, EmptyQueue DEF ResetReturns, Numbered
<1>12. CASE UNCHANGED vars
  BY <1>1, <1>12 DEF vars, callerVars, chanVars, workerVars, serVars
<1> QED
  BY <1>2, <1>3, <1>4, <1>5, <1>6, <1>7, <1>8, <1>9, <1>10, <1>11, <1>12
  DEF Next, CallerGoesOn, Worker, Serializer

\* Every step keeps the verdict right: one, and the error if there was one (writer.go:410-433).
LEMMA VerdictStep == IInv /\ [Next]_vars => Verdict'
<1> SUFFICES ASSUME IInv, [Next]_vars PROVE Verdict'
  OBVIOUS
<1>0. CallerTypes /\ SerTypes /\ Shutdown /\ Verdict
  BY DEF IInv, TypeOK
<1>1. UNCHANGED <<call, jobsClosed, result, ser, done, bwErr>> => Verdict'
  BY <1>0 DEF Verdict
<1>2. CASE WriteSome
  BY <1>1, <1>2 DEF WriteSome,
     callerVars, chanVars, workerVars, serVars
<1>3. ASSUME NEW w \in Workers, TakeJob(w) \/ SendResult(w) \/ WorkerReturns(w) PROVE Verdict'
  BY <1>1, <1>3 DEF TakeJob, SendResult, WorkerReturns, callerVars, chanVars, serVars
<1>4. CASE WriteFull
  BY <1>0, <1>4 DEF WriteFull, Verdict, Shutdown, chanVars, serVars
<1>5. CASE Close
  BY <1>0, <1>5 DEF Close, Verdict, Shutdown, chanVars, serVars
<1>6. CASE Reset
  BY <1>0, <1>6 DEF Reset, Verdict, Shutdown, chanVars, serVars
<1>7. CASE SendJob
  BY <1>0, <1>7 DEF SendJob, Verdict, Shutdown, chanVars, serVars
<1>8. CASE CloseJobs
  BY <1>0, <1>8 DEF CloseJobs, Verdict, Shutdown, chanVars, serVars
<1>9. CASE AwaitWorkers
  BY <1>0, <1>9 DEF AwaitWorkers, Verdict, Shutdown, chanVars, serVars
<1>10. CASE CloseReturns
  BY <1>0, <1>10 DEF CloseReturns, Verdict, Shutdown, serVars
<1>11. CASE ResetReturns
  BY <1>0, <1>11 DEF ResetReturns, Verdict, Shutdown, chanVars, serVars
<1>12. CASE WriteHeader
  BY <1>0, <1>12 DEF WriteHeader, Verdict, Emit, callerVars, chanVars
<1>13. CASE ReceiveResult
  BY <1>0, <1>13 DEF ReceiveResult, Verdict, callerVars
<1>14. CASE WriteBlock
  BY <1>0, <1>14 DEF WriteBlock, Verdict, Emit, callerVars
<1>15. CASE AwaitNextBlock
  BY <1>0, <1>15 DEF AwaitNextBlock, Verdict, callerVars, chanVars
<1>16. CASE WriteTrailer
  BY <1>0, <1>16 DEF WriteTrailer, Verdict, Emit, callerVars
<1>17. CASE UNCHANGED vars
  BY <1>1, <1>17 DEF vars, callerVars, chanVars, workerVars, serVars
<1> QED
  BY <1>2, <1>3, <1>4, <1>5, <1>6, <1>7, <1>8, <1>9, <1>10, <1>11, <1>12, <1>13, <1>14, <1>15, <1>16, <1>17
  DEF Next, CallerGoesOn, Worker, Serializer

-----------------------------------------------------------------------------
(* What the steps do to the blocks under way. *)

\* A send puts one block under way, with the next number (writer.go:457-463).
LEMMA FlightSend ==
    ASSUME CallerTypes, ChanTypes, SendJob
    PROVE  \E b \in Block :
             /\ sealed' = Append(sealed, b)
             /\ InFlight' = InFlight \cup {[seq |-> blockNo, data |-> b]}
<1>1. PICK b \in cur : /\ jobs' = Append(jobs, [seq |-> blockNo, data |-> b])
                       /\ sealed' = Append(sealed, b)
  BY DEF SendJob
<1>2. b \in Block /\ [seq |-> blockNo, data |-> b] \in Job
  BY DEF CallerTypes, Job
<1>3. Elements(jobs') = Elements(jobs) \cup {[seq |-> blockNo, data |-> b]}
  BY <1>1, <1>2, ElementsAppend DEF ChanTypes
<1>4. HeldJobs' = HeldJobs /\ Elements(results)' = Elements(results) /\ pending' = pending
  BY DEF SendJob, workerVars, serVars, HeldJobs, Elements
<1>5. Elements(jobs)' = Elements(jobs')
  BY DEF Elements
<1> QED  BY <1>1, <1>2, <1>3, <1>4, <1>5 DEF InFlight

\* A worker that takes a job neither loses nor invents one (writer.go:374).
LEMMA FlightTake ==
    ASSUME ChanTypes, WorkerTypes, NEW w \in Workers, TakeJob(w)
    PROVE  InFlight' = InFlight
<1>1. /\ Elements(jobs) = {Head(jobs)} \cup Elements(Tail(jobs))
      /\ Elements(jobs)' = Elements(Tail(jobs))
  BY ElementsHead DEF TakeJob, ChanTypes, Elements
<1>2. HeldJobs' = HeldJobs \cup {Head(jobs)}
  <2>1. held[w] = {} /\ held'[w] = {Head(jobs)}
    BY DEF TakeJob, WorkerTypes
  <2>2. \A v \in Workers \ {w} : held'[v] = held[v]
    BY DEF TakeJob, WorkerTypes
  <2> QED  BY <2>1, <2>2 DEF HeldJobs
<1>3. Elements(results)' = Elements(results) /\ pending' = pending
  BY DEF TakeJob, serVars, Elements
<1> QED  BY <1>1, <1>2, <1>3 DEF InFlight

\* Nor does one that passes its result on (writer.go:376-380).
LEMMA FlightResult ==
    ASSUME ChanTypes, WorkerTypes, NEW w \in Workers, SendResult(w)
    PROVE  InFlight' = InFlight
<1>1. PICK job \in held[w] : /\ results' = Append(results, job)
                             /\ held' = [held EXCEPT ![w] = @ \ {job}]
  BY DEF SendResult
<1>2. job \in Job
  BY DEF WorkerTypes
<1>3. Elements(results)' = Elements(results) \cup {job}
  <2>1. Elements(results') = Elements(results) \cup {job}
    BY <1>1, <1>2, ElementsAppend DEF ChanTypes
  <2> QED  BY <2>1 DEF Elements
<1>4. HeldJobs' \cup {job} = HeldJobs
  <2>1. held'[w] = held[w] \ {job}
    BY <1>1 DEF WorkerTypes
  <2>2. \A v \in Workers \ {w} : held'[v] = held[v]
    BY <1>1 DEF WorkerTypes
  <2> QED  BY <1>1, <2>1, <2>2 DEF HeldJobs
<1>5. Elements(jobs)' = Elements(jobs) /\ pending' = pending
  BY DEF SendResult, serVars, Elements
<1> QED  BY <1>3, <1>4, <1>5 DEF InFlight

\* Nor does the serializer that receives it: of two results with one number it keeps one (writer.go:397-398).
LEMMA FlightReceive ==
    ASSUME ChanTypes, ReceiveResult
    PROVE  /\ InFlight' \subseteq InFlight
           /\ \A r \in InFlight : \E s \in InFlight' : s.seq = r.seq
<1> DEFINE res == Head(results)
<1>1. /\ Elements(results) = {res} \cup Elements(Tail(results))
      /\ Elements(results)' = Elements(Tail(results))
  BY ElementsHead DEF ReceiveResult, ChanTypes, Elements
<1>2. pending' = {p \in pending : p.seq # res.seq} \cup {res}
  BY DEF ReceiveResult
<1>3. HeldJobs' = HeldJobs /\ Elements(jobs)' = Elements(jobs)
  BY DEF ReceiveResult, workerVars, HeldJobs, Elements
<1> HIDE DEF res
<1> QED  BY <1>1, <1>2, <1>3 DEF InFlight

\* The block that is written, and no other, is no longer under way (writer.go:401-409).
LEMMA FlightWrite ==
    ASSUME WriteBlock
    PROVE  \E r \in pending :
             /\ r.seq = nextSeq /\ combined' = Append(combined, r.data)
             /\ Emit(Promise!BlockItem(r.data))
             /\ InFlight' \subseteq InFlight
             /\ InFlight \ {r} \subseteq InFlight'
<1>1. PICK r \in pending : /\ r.seq = nextSeq /\ pending' = pending \ {r}
                           /\ combined' = Append(combined, r.data)
                           /\ Emit(Promise!BlockItem(r.data))
  BY DEF WriteBlock, InTurn, TakenOut
<1>2. HeldJobs' = HeldJobs /\ Elements(jobs)' = Elements(jobs)
  BY DEF WriteBlock, workerVars, HeldJobs, Elements
<1>3. Elements(results)' = Elements(results)
  BY DEF WriteBlock, Elements
<1> QED  BY <1>1, <1>2, <1>3 DEF InFlight

\* A new pipeline has nothing under way.
LEMMA FlightReset == ResetReturns => InFlight' = {}
<1> SUFFICES ASSUME ResetReturns PROVE InFlight' = {}
  OBVIOUS
<1>1. Elements(jobs)' = {} /\ Elements(results)' = {} /\ pending' = {}
  BY DEF ResetReturns, Elements
<1>2. HeldJobs' = {}
  BY DEF ResetReturns, HeldJobs
<1> QED  BY <1>1, <1>2 DEF InFlight

\* The other steps leave the blocks under way alone.
LEMMA FlightUnchanged == UNCHANGED <<jobs, held, results, pending>> => InFlight' = InFlight
BY DEF InFlight, HeldJobs, Elements

-----------------------------------------------------------------------------
(* The serializer. *)

\* What is under way are jobs.
LEMMA FlightTypes == ChanTypes /\ WorkerTypes /\ SerTypes => InFlight \subseteq Job
<1> SUFFICES ASSUME ChanTypes, WorkerTypes, SerTypes PROVE InFlight \subseteq Job
  OBVIOUS
<1>1. Elements(jobs) \subseteq Job /\ Elements(results) \subseteq Job
  BY DEF Elements, ChanTypes
<1>2. HeldJobs \subseteq Job
  BY DEF HeldJobs, WorkerTypes
<1>3. pending \subseteq Job
  BY DEF SerTypes
<1> QED  BY <1>1, <1>2, <1>3 DEF InFlight

\* A beginning of a sequence is one of the sequence extended.
LEMMA SubSeqAppend ==
    ASSUME NEW q \in Seq(Block), NEW b \in Block, NEW n \in 0..Len(q)
    PROVE  SubSeq(Append(q, b), 1, n) = SubSeq(q, 1, n)
OBVIOUS

\* A beginning and the element after it make the next beginning.
LEMMA SubSeqNext ==
    ASSUME NEW q \in Seq(Block), NEW n \in Nat, n < Len(q)
    PROVE  Append(SubSeq(q, 1, n), q[n + 1]) = SubSeq(q, 1, n + 1)
OBVIOUS

\* The whole is a beginning.
LEMMA SubSeqAll ==
    ASSUME NEW q \in Seq(Block)
    PROVE  SubSeq(q, 1, Len(q)) = q
OBVIOUS

\* An item that is in its place extends the stream in the destination, or is lost
\* with the destination.
LEMMA DstExtended ==
    ASSUME SerTypes, NEW item \in Promise!Items, Emit(item),
           \A i \in 1..Len(dst) : dst[i] = Promise!Item(sealed, i),
           ~bwErr => item = Promise!Item(sealed, Len(dst) + 1)
    PROVE  /\ \A i \in 1..Len(dst') : dst'[i] = Promise!Item(sealed, i)
           /\ Len(dst) \in Nat
           /\ \/ bwErr' /\ Len(dst') = Len(dst)
              \/ ~bwErr' /\ ~bwErr /\ Len(dst') = Len(dst) + 1
<1> DEFINE Items == Promise!Items
           It(i) == Promise!Item(sealed, i)
<1>0. dst \in Seq(Items) /\ item \in Items /\ \A i \in 1..Len(dst) : dst[i] = It(i)
  BY DEF SerTypes
<1>1. CASE ~bwErr /\ dst' = Append(dst, item) /\ bwErr' = FALSE
  <2>1. item = It(Len(dst) + 1)
    BY <1>1
  <2> HIDE DEF Items, It
  <2>2. Len(dst') = Len(dst) + 1 /\ Len(dst) \in Nat
    BY <1>0, <1>1
  <2>3. \A i \in 1..Len(dst') : dst'[i] = It(i)
    BY <1>0, <1>1, <2>1, <2>2
  <2> QED  BY <1>1, <2>2, <2>3 DEF It
<1>2. CASE dst' = dst /\ bwErr' = TRUE
  BY <1>2, <1>0
<1> QED  BY <1>1, <1>2 DEF Emit

\* When the results end, every sealed block has passed the serializer.
LEMMA AllPassed ==
    ASSUME IInv, WriteTrailer
    PROVE  nextSeq = Len(sealed) /\ jobsClosed
<1>1. gone = Workers /\ Workers # {}
  BY WorkersAssumption DEF IInv, Shutdown, WriteTrailer
<1>2. jobsClosed /\ jobs = << >> /\ \A w \in Workers : held[w] = {}
  BY <1>1 DEF IInv, Shutdown
<1>3. InFlight = pending
  <2>1. Elements(jobs) = {} /\ Elements(results) = {}
    BY <1>2 DEF Elements, WriteTrailer
  <2>2. HeldJobs = {}
    BY <1>2 DEF HeldJobs
  <2> QED  BY <2>1, <2>2 DEF InFlight
<1>4. nextSeq \in Nat /\ Len(sealed) \in Nat /\ nextSeq <= Len(sealed)
  BY DEF IInv, TypeOK, CallerTypes, SerTypes, Serialized
<1>5. ~(nextSeq < Len(sealed))
  <2> SUFFICES ASSUME nextSeq < Len(sealed) PROVE FALSE
    OBVIOUS
  <2>1. nextSeq \in nextSeq..Len(sealed) - 1
    BY <1>4
  <2>2. PICK r \in pending : r.seq = nextSeq
    BY <2>1, <1>3 DEF IInv, Covered
  <2> QED  BY <2>2 DEF IInv, Serialized, WriteTrailer
<1> QED  BY <1>2, <1>4, <1>5

\* Every step keeps the blocks under way true to the sealed ones.
LEMMA FaithfulStep == IInv /\ [Next]_vars => Faithful'
<1> SUFFICES ASSUME IInv, [Next]_vars PROVE Faithful'
  OBVIOUS
<1>0. CallerTypes /\ ChanTypes /\ WorkerTypes /\ SerTypes /\ Numbered /\ Faithful
  BY DEF IInv, TypeOK
<1>1. UNCHANGED <<jobs, held, results, pending, sealed>> => Faithful'
  BY <1>0, FlightUnchanged DEF Faithful
<1>2. CASE \/ WriteSome \/ WriteFull \/ Close \/ Reset \/ CloseJobs \/ AwaitWorkers
         \/ CloseReturns \/ WriteHeader \/ AwaitNextBlock \/ WriteTrailer
  BY <1>1, <1>2 DEF WriteSome, WriteFull, Close, Reset, CloseJobs, AwaitWorkers, CloseReturns, WriteHeader, AwaitNextBlock, WriteTrailer,
     callerVars, chanVars, workerVars, serVars
<1>3. ASSUME NEW w \in Workers, WorkerReturns(w) PROVE Faithful'
  BY <1>1, <1>3 DEF WorkerReturns, callerVars, chanVars, serVars
<1>4. CASE SendJob
  <2>1. PICK b \in Block : /\ sealed' = Append(sealed, b)
                           /\ InFlight' = InFlight \cup {[seq |-> blockNo, data |-> b]}
    BY <1>0, <1>4, FlightSend
  <2>2. blockNo = Len(sealed) /\ sealed \in Seq(Block)
    BY <1>0, <1>4 DEF SendJob, Numbered, CallerTypes
  <2>3. SUFFICES ASSUME NEW r \in InFlight'
                 PROVE  r.seq < Len(sealed') /\ r.data = sealed'[r.seq + 1]
    BY DEF Faithful
  <2>4. CASE r \in InFlight
    <3>1. r.seq \in Nat /\ r.seq < Len(sealed) /\ r.data = sealed[r.seq + 1]
      BY <1>0, <2>4, FlightTypes DEF Faithful, Job
    <3> QED  BY <2>1, <2>2, <3>1
  <2>5. CASE r = [seq |-> blockNo, data |-> b]
    BY <2>1, <2>2, <2>5
  <2> QED  BY <2>1, <2>4, <2>5
<1>5. CASE ResetReturns
  BY <1>5, FlightReset DEF Faithful
<1>6. ASSUME NEW w \in Workers, TakeJob(w) PROVE Faithful'
  <2>1. InFlight' \subseteq InFlight /\ sealed' = sealed
    BY <1>0, <1>6, FlightTake DEF TakeJob
  <2> QED  BY <1>0, <2>1 DEF Faithful
<1>7. ASSUME NEW w \in Workers, SendResult(w) PROVE Faithful'
  <2>1. InFlight' \subseteq InFlight /\ sealed' = sealed
    BY <1>0, <1>7, FlightResult DEF SendResult
  <2> QED  BY <1>0, <2>1 DEF Faithful
<1>8. CASE ReceiveResult
  <2>1. InFlight' \subseteq InFlight /\ sealed' = sealed
    BY <1>0, <1>8, FlightReceive DEF ReceiveResult
  <2> QED  BY <1>0, <2>1 DEF Faithful
<1>9. CASE WriteBlock
  <2>1. InFlight' \subseteq InFlight /\ sealed' = sealed
    BY <1>0, <1>9, FlightWrite DEF WriteBlock
  <2> QED  BY <1>0, <2>1 DEF Faithful
<1>10. CASE UNCHANGED vars
  BY <1>1, <1>10 DEF vars, callerVars, chanVars, workerVars, serVars
<1> QED
  BY <1>2, <1>3, <1>4, <1>5, <1>6, <1>7, <1>8, <1>9, <1>10
  DEF Next, CallerGoesOn, Worker, Serializer

\* No step loses a block that is not yet written.
LEMMA CoveredStep == IInv /\ [Next]_vars => Covered'
<1> SUFFICES ASSUME IInv, [Next]_vars PROVE Covered'
  OBVIOUS
<1>0. CallerTypes /\ ChanTypes /\ WorkerTypes /\ SerTypes /\ Numbered /\ Covered
  BY DEF IInv, TypeOK
<1>1. UNCHANGED <<jobs, held, results, pending, sealed, nextSeq>> => Covered'
  BY <1>0, FlightUnchanged DEF Covered
<1>2. CASE \/ WriteSome \/ WriteFull \/ Close \/ Reset \/ CloseJobs \/ AwaitWorkers
         \/ CloseReturns \/ WriteHeader \/ AwaitNextBlock \/ WriteTrailer
  BY <1>1, <1>2 DEF WriteSome, WriteFull, Close, Reset, CloseJobs, AwaitWorkers, CloseReturns, WriteHeader, AwaitNextBlock, WriteTrailer,
     callerVars, chanVars, workerVars, serVars
<1>3. ASSUME NEW w \in Workers, WorkerReturns(w) PROVE Covered'
  BY <1>1, <1>3 DEF WorkerReturns, callerVars, chanVars, serVars
<1>4. CASE SendJob
  <2>1. PICK b \in Block : /\ sealed' = Append(sealed, b)
                           /\ InFlight' = InFlight \cup {[seq |-> blockNo, data |-> b]}
    BY <1>0, <1>4, FlightSend
  <2>2. /\ blockNo = Len(sealed) /\ nextSeq' = nextSeq /\ nextSeq \in Nat
        /\ Len(sealed) \in Nat /\ Len(sealed') = Len(sealed) + 1
    BY <1>0, <1>4, <2>1 DEF SendJob, Numbered, CallerTypes, SerTypes, serVars
  <2>3. SUFFICES ASSUME NEW k \in nextSeq..Len(sealed)
                 PROVE  \E r \in InFlight' : r.seq = k
    BY <2>2 DEF Covered
  <2>4. CASE k = Len(sealed)
    <3>1. [seq |-> blockNo, data |-> b].seq = k
      BY <2>2, <2>4
    <3> QED  BY <2>1, <3>1
  <2>5. CASE k # Len(sealed)
    <3>1. k \in nextSeq..Len(sealed) - 1
      BY <2>2, <2>5
    <3> QED  BY <1>0, <2>1, <3>1 DEF Covered
  <2> QED  BY <2>4, <2>5
<1>5. CASE ResetReturns
  <2>1. Len(sealed') = 0 /\ nextSeq' = 0
    BY <1>5, EmptyQueue DEF ResetReturns
  <2> QED  BY <2>1 DEF Covered
<1>6. ASSUME NEW w \in Workers, TakeJob(w) PROVE Covered'
  <2>1. InFlight' = InFlight /\ sealed' = sealed /\ nextSeq' = nextSeq
    BY <1>0, <1>6, FlightTake DEF TakeJob, serVars
  <2> QED  BY <1>0, <2>1 DEF Covered
<1>7. ASSUME NEW w \in Workers, SendResult(w) PROVE Covered'
  <2>1. InFlight' = InFlight /\ sealed' = sealed /\ nextSeq' = nextSeq
    BY <1>0, <1>7, FlightResult DEF SendResult, serVars
  <2> QED  BY <1>0, <2>1 DEF Covered
<1>8. CASE ReceiveResult
  <2>1. \A r \in InFlight : \E s \in InFlight' : s.seq = r.seq
    BY <1>0, <1>8, FlightReceive
  <2>2. sealed' = sealed /\ nextSeq' = nextSeq
    BY <1>8 DEF ReceiveResult
  <2> QED  BY <1>0, <2>1, <2>2 DEF Covered
<1>9. CASE WriteBlock
  <2>1. PICK r \in pending : r.seq = nextSeq /\ InFlight \ {r} \subseteq InFlight'
    BY <1>9, FlightWrite
  <2>2. sealed' = sealed /\ nextSeq' = nextSeq + 1 /\ nextSeq \in Nat
    BY <1>0, <1>9 DEF WriteBlock, SerTypes
  <2>3. SUFFICES ASSUME NEW k \in nextSeq + 1..Len(sealed) - 1
                 PROVE  \E s \in InFlight' : s.seq = k
    BY <2>2 DEF Covered
  <2>4. k \in nextSeq..Len(sealed) - 1 /\ k # nextSeq
    BY <1>0, <2>2 DEF CallerTypes
  <2>5. PICK s \in InFlight : s.seq = k
    BY <1>0, <2>4 DEF Covered
  <2> QED  BY <2>1, <2>4, <2>5
<1>10. CASE UNCHANGED vars
  BY <1>1, <1>10 DEF vars, callerVars, chanVars, workerVars, serVars
<1> QED
  BY <1>2, <1>3, <1>4, <1>5, <1>6, <1>7, <1>8, <1>9, <1>10
  DEF Next, CallerGoesOn, Worker, Serializer

\* Every step keeps the destination a beginning of the stream (writer.go:384-434).
LEMMA SerializedStep == IInv /\ [Next]_vars => Serialized'
<1> SUFFICES ASSUME IInv, [Next]_vars PROVE Serialized'
  OBVIOUS
<1>0. CallerTypes /\ ChanTypes /\ WorkerTypes /\ SerTypes /\ Shutdown /\ Numbered /\ Faithful /\ Covered /\ Serialized
  BY DEF IInv, TypeOK
<1>1. UNCHANGED <<nextSeq, combined, ser, pending, bwErr, dst, sealed, jobsClosed>> => Serialized'
  BY <1>0 DEF Serialized
<1>2. CASE WriteSome \/ WriteFull \/ Close \/ Reset \/ AwaitWorkers \/ CloseReturns
  BY <1>1, <1>2 DEF WriteSome, WriteFull, Close, Reset, AwaitWorkers, CloseReturns,
     callerVars, chanVars, workerVars, serVars
<1>3. ASSUME NEW w \in Workers, TakeJob(w) \/ SendResult(w) \/ WorkerReturns(w) PROVE Serialized'
  BY <1>1, <1>3 DEF TakeJob, SendResult, WorkerReturns, callerVars, chanVars, serVars
<1>4. CASE SendJob
  <2>1. PICK b \in Block : sealed' = Append(sealed, b)
    BY <1>0, <1>4, FlightSend
  <2>2. /\ UNCHANGED <<nextSeq, combined, ser, pending, bwErr, dst, jobsClosed>>
        /\ ~jobsClosed
    BY <1>0, <1>4 DEF SendJob, serVars, Shutdown
  <2>3. /\ sealed \in Seq(Block) /\ Len(sealed) \in Nat /\ nextSeq \in Nat
        /\ Len(sealed') = Len(sealed) + 1
    BY <1>0, <2>1 DEF CallerTypes, SerTypes
  <2>4. Len(dst) \in Nat /\ Len(dst) <= Len(sealed) + 1
    BY <1>0, <2>2 DEF Serialized, SerTypes
  <2>5. nextSeq' <= Len(sealed') /\ Len(dst') <= Len(sealed') + 1
    BY <1>0, <2>2, <2>3, <2>4 DEF Serialized
  <2>6. combined' = SubSeq(sealed', 1, nextSeq')
    <3>1. nextSeq \in 0..Len(sealed)
      BY <1>0, <2>3 DEF Serialized
    <3>2. SubSeq(sealed', 1, nextSeq) = SubSeq(sealed, 1, nextSeq)
      BY <2>1, <2>3, <3>1, SubSeqAppend
    <3> QED  BY <1>0, <2>2, <3>2 DEF Serialized
  <2>7. \A i \in 1..Len(dst) : dst[i] = Promise!Item(sealed', i)
    <3> SUFFICES ASSUME NEW i \in 1..Len(dst) PROVE dst[i] = Promise!Item(sealed', i)
      OBVIOUS
    <3>1. i \in 1..Len(sealed) + 1
      BY <2>3, <2>4
    <3>2. Promise!Item(sealed', i) = Promise!Item(sealed, i)
      BY <2>1, <2>3, <3>1, ItemStable
    <3> QED  BY <1>0, <3>2 DEF Serialized
  <2>8. (\A i \in 1..Len(dst) : dst[i] = Promise!Item(sealed, i))'
    BY <2>2, <2>7
  <2>9. bwErr \/ ser # "exited"
    BY <1>0, <2>2 DEF Serialized
  <2>10. (Len(dst) <= Len(sealed) + (IF jobsClosed THEN 2 ELSE 1))'
    BY <2>2, <2>5
  <2>11. /\ (ser = "header" => nextSeq = 0 /\ pending = {})'
         /\ (ser = "receive" => \A r \in pending : r.seq # nextSeq)'
         /\ (~bwErr /\ ser = "header" => Len(dst) = 0)'
         /\ (~bwErr /\ ser \in {"receive", "drain"} => Len(dst) = nextSeq + 1)'
         /\ ~(~bwErr /\ ser = "exited")'
    BY <1>0, <2>2, <2>9 DEF Serialized
  <2> QED  BY <2>5, <2>6, <2>8, <2>10, <2>11 DEF Serialized
<1>5. CASE CloseJobs
  <2>1. UNCHANGED <<nextSeq, combined, ser, pending, bwErr, dst, sealed>> /\ jobsClosed'
    BY <1>5 DEF CloseJobs, serVars
  <2>2. Len(dst) \in Nat /\ Len(sealed) \in Nat
    BY <1>0 DEF CallerTypes, SerTypes
  <2>3. (Len(dst) <= Len(sealed) + (IF jobsClosed THEN 2 ELSE 1))'
    BY <1>0, <2>1, <2>2 DEF Serialized
  <2> QED  BY <1>0, <2>1, <2>3 DEF Serialized
<1>6. CASE ResetReturns
  <2>1. /\ sealed' = << >> /\ dst' = << >> /\ nextSeq' = 0 /\ combined' = << >>
        /\ ser' = "header" /\ pending' = {}
    BY <1>6 DEF ResetReturns
  <2>2. Len(sealed') = 0 /\ Len(dst') = 0 /\ combined' = SubSeq(sealed', 1, nextSeq')
    BY <2>1
  <2> QED  BY <2>1, <2>2 DEF Serialized
<1>7. CASE WriteHeader
  <2>1. /\ ser = "header" /\ Emit(Promise!Header) /\ ser' = "receive"
        /\ UNCHANGED <<pending, nextSeq, combined, sealed, jobsClosed>>
    BY <1>7 DEF WriteHeader, chanVars
  <2>2. nextSeq = 0 /\ pending = {} /\ (~bwErr => Len(dst) = 0) /\ Len(sealed) \in Nat
    BY <1>0, <2>1 DEF Serialized, CallerTypes
  <2>3. ~bwErr => Promise!Header = Promise!Item(sealed, Len(dst) + 1)
    BY <2>2 DEF Promise!Item
  <2>4. /\ \A i \in 1..Len(dst') : dst'[i] = Promise!Item(sealed, i)
        /\ Len(dst) \in Nat
        /\ \/ bwErr' /\ Len(dst') = Len(dst)
           \/ ~bwErr' /\ ~bwErr /\ Len(dst') = Len(dst) + 1
    BY <1>0, <2>1, <2>3, ItemTypes, DstExtended DEF Serialized
  <2>5. (Len(dst) <= Len(sealed) + (IF jobsClosed THEN 2 ELSE 1))'
    BY <1>0, <2>1, <2>2, <2>4 DEF Serialized
  <2>6. (\A i \in 1..Len(dst) : dst[i] = Promise!Item(sealed, i))'
    BY <2>1, <2>4
  <2>7. (~bwErr => Len(dst) = nextSeq + 1)'
    BY <2>1, <2>2, <2>4
  <2>8. (nextSeq <= Len(sealed) /\ combined = SubSeq(sealed, 1, nextSeq))'
    BY <1>0, <2>1 DEF Serialized
  <2> QED  BY <2>1, <2>2, <2>5, <2>6, <2>7, <2>8 DEF Serialized
<1>8. CASE ReceiveResult
  <2>1. /\ ser = "receive" /\ ser' = "drain"
        /\ UNCHANGED <<nextSeq, combined, sealed, jobsClosed, bwErr, dst>>
    BY <1>8 DEF ReceiveResult
  <2> QED  BY <1>0, <2>1 DEF Serialized
<1>9. CASE WriteBlock
  <2>1. PICK r \in pending : /\ r.seq = nextSeq /\ combined' = Append(combined, r.data)
                            /\ Emit(Promise!BlockItem(r.data))
    BY <1>9, FlightWrite
  <2>2. /\ ser = "drain" /\ ser' = (IF bwErr' THEN "exited" ELSE "drain")
        /\ nextSeq' = nextSeq + 1 /\ UNCHANGED <<sealed, jobsClosed>>
    BY <1>9 DEF WriteBlock
  <2>3. /\ sealed \in Seq(Block) /\ Len(sealed) \in Nat /\ nextSeq \in Nat
        /\ r.data \in Block
    BY <1>0 DEF CallerTypes, SerTypes, Job
  <2>4. nextSeq < Len(sealed) /\ r.data = sealed[nextSeq + 1]
    <3>1. r \in InFlight
      BY DEF InFlight
    <3> QED  BY <1>0, <2>1, <3>1 DEF Faithful
  <2>5. combined' = SubSeq(sealed, 1, nextSeq + 1)
    BY <1>0, <2>1, <2>3, <2>4, SubSeqNext DEF Serialized
  <2>6. ~bwErr => Len(dst) = nextSeq + 1
    BY <1>0, <2>2 DEF Serialized
  <2>7. Promise!BlockItem(r.data) = Promise!Item(sealed, nextSeq + 2)
    <3>1. nextSeq + 2 # 1 /\ nextSeq + 2 <= Len(sealed) + 1 /\ (nextSeq + 2) - 1 = nextSeq + 1
      BY <2>3, <2>4
    <3> QED  BY <2>4, <3>1 DEF Promise!Item
  <2>8. ~bwErr => Promise!BlockItem(r.data) = Promise!Item(sealed, Len(dst) + 1)
    BY <2>3, <2>6, <2>7
  <2>9. /\ \A i \in 1..Len(dst') : dst'[i] = Promise!Item(sealed, i)
        /\ Len(dst) \in Nat
        /\ \/ bwErr' /\ Len(dst') = Len(dst)
           \/ ~bwErr' /\ ~bwErr /\ Len(dst') = Len(dst) + 1
    BY <1>0, <2>1, <2>3, <2>8, ItemTypes, DstExtended DEF Serialized
  <2>10. (Len(dst) <= Len(sealed) + (IF jobsClosed THEN 2 ELSE 1))'
    BY <1>0, <2>2, <2>3, <2>4, <2>6, <2>9 DEF Serialized
  <2>11. (nextSeq <= Len(sealed) /\ combined = SubSeq(sealed, 1, nextSeq))'
    BY <2>2, <2>3, <2>4, <2>5
  <2>12. (~bwErr => ser = "drain" /\ Len(dst) = nextSeq + 1)'
    BY <2>2, <2>6, <2>9
  <2>13. (\A i \in 1..Len(dst) : dst[i] = Promise!Item(sealed, i))'
    BY <2>2, <2>9
  <2> QED  BY <2>2, <2>10, <2>11, <2>12, <2>13 DEF Serialized
<1>10. CASE AwaitNextBlock
  <2>1. /\ ser = "drain" /\ ser' = "receive" /\ \A r \in pending : r.seq # nextSeq
        /\ UNCHANGED <<pending, nextSeq, combined, sealed, jobsClosed, bwErr, dst>>
    BY <1>10 DEF AwaitNextBlock, InTurn, chanVars
  <2> QED  BY <1>0, <2>1 DEF Serialized
<1>11. CASE WriteTrailer
  <2>1. /\ ser = "receive" /\ Emit(Promise!Trailer(combined)) /\ ser' = "exited"
        /\ UNCHANGED <<pending, nextSeq, combined, sealed, jobsClosed>>
    BY <1>11 DEF WriteTrailer
  <2>2. nextSeq = Len(sealed) /\ jobsClosed
    BY <1>11, AllPassed
  <2>3. sealed \in Seq(Block) /\ Len(sealed) \in Nat
    BY <1>0 DEF CallerTypes
  <2>4. combined = sealed
    BY <1>0, <2>2, <2>3, SubSeqAll DEF Serialized
  <2>5. ~bwErr => Len(dst) = Len(sealed) + 1
    BY <1>0, <2>1, <2>2 DEF Serialized
  <2>6. Promise!Trailer(combined) = Promise!Item(sealed, Len(sealed) + 2)
    <3>1. Len(sealed) + 2 # 1 /\ ~(Len(sealed) + 2 <= Len(sealed) + 1)
      BY <2>3
    <3> QED  BY <2>4, <3>1 DEF Promise!Item
  <2>7. ~bwErr => Promise!Trailer(combined) = Promise!Item(sealed, Len(dst) + 1)
    BY <2>3, <2>5, <2>6
  <2>8. /\ \A i \in 1..Len(dst') : dst'[i] = Promise!Item(sealed, i)
        /\ Len(dst) \in Nat
        /\ \/ bwErr' /\ Len(dst') = Len(dst)
           \/ ~bwErr' /\ ~bwErr /\ Len(dst') = Len(dst) + 1
    <3>1. Promise!Trailer(combined) \in Promise!Items
      BY <1>0, ItemTypes DEF SerTypes
    <3> QED  BY <1>0, <2>1, <2>7, <3>1, DstExtended DEF Serialized
  <2>9. (Len(dst) <= Len(sealed) + (IF jobsClosed THEN 2 ELSE 1))'
    BY <1>0, <2>1, <2>2, <2>3, <2>5, <2>8 DEF Serialized
  <2>10. (nextSeq <= Len(sealed) /\ combined = SubSeq(sealed, 1, nextSeq))'
    BY <1>0, <2>1 DEF Serialized
  <2>11. (~bwErr => jobsClosed /\ Len(dst) = Len(sealed) + 2)'
    BY <2>1, <2>2, <2>3, <2>5, <2>8
  <2>12. (\A i \in 1..Len(dst) : dst[i] = Promise!Item(sealed, i))'
    BY <2>1, <2>8
  <2> QED  BY <2>1, <2>9, <2>10, <2>11, <2>12 DEF Serialized
<1>12. CASE UNCHANGED vars
  BY <1>1, <1>12 DEF vars, callerVars, chanVars, workerVars, serVars
<1> QED
  BY <1>2, <1>3, <1>4, <1>5, <1>6, <1>7, <1>8, <1>9, <1>10, <1>11, <1>12
  DEF Next, CallerGoesOn, Worker, Serializer

-----------------------------------------------------------------------------
(* The theorems. *)

\* What keeps the pipeline in order holds in every reachable state, for any number of
\* workers and any blocks (writer.go:335-474).
THEOREM Invariance == Spec => []IInv
<1>1. Init => IInv
  BY InitInv
<1>2. IInv /\ [Next]_vars => IInv'
  <2> SUFFICES ASSUME IInv, [Next]_vars
               PROVE  IInv'
    OBVIOUS
  <2>1. TypeOK'
    BY TypeStep
  <2>2. Countdown' /\ Shutdown'
    BY CountdownStep, ShutdownStep
  <2>3. Numbered' /\ Verdict'
    BY NumberedStep, VerdictStep
  <2>4. Faithful' /\ Covered' /\ Serialized'
    BY FaithfulStep, CoveredStep, SerializedStep
  <2> QED  BY <2>1, <2>2, <2>3, <2>4 DEF IInv
<1> QED  BY <1>1, <1>2, PTL DEF Spec

\* Every variable has its type: no channel holds more than its capacity and no verdict
\* is sent twice (writer.go:349-353, 433).
THEOREM TypeCorrect == Spec => []TypeOK
<1>1. IInv => TypeOK
  BY DEF IInv
<1> QED  BY <1>1, Invariance, PTL

\* No goroutine ever sends on a channel that was closed: neither the caller on jobs nor
\* a worker on results (writer.go:367-377, 436-441, 457, 467-471).
THEOREM NoPanic == Spec => []NoSendOnClosedChannel
<1>1. IInv => NoSendOnClosedChannel
  <2> SUFFICES ASSUME IInv
               PROVE  NoSendOnClosedChannel
    OBVIOUS
  <2>1. jobsClosed => call # "send"
    BY DEF IInv, Shutdown
  <2>2. resultsClosed => \A w \in Workers : w \in gone /\ held[w] = {}
    BY DEF IInv, Shutdown
  <2> QED  BY <2>1, <2>2 DEF NoSendOnClosedChannel
<1> QED  BY <1>1, Invariance, PTL

\* As long as no verdict was given and the pipeline works, the abstract writer's state is
\* the image of the pipeline's: these are the guards the mapped steps need.
LEMMA SealGuard == IInv /\ call = "send" => ~jobsClosed /\ result = "none"
BY DEF IInv, Shutdown, Verdict

\* A serializer that has not exited has given no verdict.
LEMMA DeliverGuard == IInv /\ ser # "exited" => result = "none" /\ done = {}
BY DEF IInv, Verdict

\* The verdict "ok" is given for the whole stream only, and it is the first verdict.
LEMMA FinishGuard ==
  IInv /\ call = "verdict" /\ done # {} =>
    /\ result = "none"
    /\ jobsClosed
    /\ ~bwErr => dst = Promise!Stream(sealed)
<1> SUFFICES ASSUME IInv, call = "verdict", done # {}
             PROVE  /\ result = "none"
                    /\ jobsClosed
                    /\ ~bwErr => dst = Promise!Stream(sealed)
  OBVIOUS
<1>1. result = "none" /\ jobsClosed /\ ser = "exited"
  BY DEF IInv, Verdict, Shutdown
<1>2. ASSUME ~bwErr PROVE dst = Promise!Stream(sealed)
  <2>1. Len(dst) = Len(sealed) + 2
    BY <1>1, <1>2 DEF IInv, Serialized
  <2>2. \A i \in 1..Len(dst) : dst[i] = Promise!Item(sealed, i)
    BY DEF IInv, Serialized
  <2>3. dst \in Seq(Promise!Items)
    BY DEF IInv, TypeOK, SerTypes
  <2>4. dst = [i \in 1..Len(dst) |-> dst[i]]
    BY <2>3
  <2> QED  BY <2>1, <2>2, <2>4 DEF Promise!Stream
<1> QED  BY <1>1, <1>2

\* An emitted item is the next one of the promised stream, or the destination failed, or it
\* had failed before and nothing happened.
LEMMA EmitDelivers ==
  ASSUME NEW item, Emit(item), IInv, ser # "exited",
         ~bwErr => item = Promise!Item(sealed, Len(dst) + 1),
         ~bwErr => Len(dst) <= Len(sealed) + (IF jobsClosed THEN 1 ELSE 0),
         UNCHANGED <<sealed, jobsClosed, result>>
  PROVE  [Promise!Next]_(Promise!streamVars)
<1>1. result = "none"
  BY DeliverGuard
<1>2. bwErr \in BOOLEAN
  BY DEF IInv, TypeOK, SerTypes
<1>3. CASE ~bwErr /\ dst' = Append(dst, item) /\ bwErr' = FALSE
  <2>1. Promise!Deliver
    BY <1>1, <1>3 DEF Promise!Deliver
  <2> QED  BY <2>1 DEF Promise!Next
<1>4. CASE bwErr /\ dst' = dst /\ bwErr' = TRUE
  <2>1. UNCHANGED Promise!streamVars
    BY <1>2, <1>4 DEF Promise!streamVars
  <2> QED  BY <2>1
<1>5. CASE ~bwErr /\ dst' = dst /\ bwErr' = TRUE
  <2>1. Promise!Fail
    BY <1>5 DEF Promise!Fail
  <2> QED  BY <2>1 DEF Promise!Next
<1> QED  BY <1>3, <1>4, <1>5 DEF Emit

\* Every step of the pipeline is a step of the single stream it promises, or none: the
\* send of a job seals a block, close(jobs) ends the stream, the serializer delivers or
\* fails, Close and Reset report and restart; all else is hidden (writer.go:335-474).
LEMMA StepRefines == IInv /\ [Next]_vars => [Promise!Next]_(Promise!streamVars)
<1> SUFFICES ASSUME IInv, [Next]_vars
             PROVE  [Promise!Next]_(Promise!streamVars)
  OBVIOUS
<1>0. TypeOK /\ Serialized /\ Shutdown
  BY DEF IInv
<1>1. ASSUME UNCHANGED <<sealed, dst, bwErr, jobsClosed, result>>
      PROVE  [Promise!Next]_(Promise!streamVars)
  BY <1>1 DEF Promise!streamVars
<1>2. CASE WriteSome \/ WriteFull \/ Close \/ Reset \/ AwaitWorkers
  BY <1>1, <1>2 DEF WriteSome, WriteFull, Close, Reset, AwaitWorkers, chanVars, serVars
<1>3. CASE SendJob
  <2>1. PICK b \in cur : sealed' = Append(sealed, b)
    BY <1>3 DEF SendJob
  <2>2. b \in Block /\ sealed \in Seq(Block)
    BY <1>0, <2>1 DEF TypeOK, CallerTypes
  <2>3. /\ Len(sealed') = Len(sealed) + 1
        /\ sealed'[Len(sealed) + 1] = b
    BY <2>1, <2>2
  <2>4. ~jobsClosed /\ result = "none"
    BY <1>3, SealGuard DEF SendJob
  <2>5. Promise!Seal
    BY <1>3, <2>1, <2>2, <2>3, <2>4 DEF Promise!Seal, SendJob, serVars
  <2> QED  BY <2>5 DEF Promise!Next
<1>4. CASE CloseJobs
  <2>1. CASE jobsClosed
    BY <1>0, <1>1, <1>4, <2>1 DEF CloseJobs, serVars, TypeOK, ChanTypes
  <2>2. CASE ~jobsClosed
    <3>1. Promise!Shut
      BY <1>4, <2>2 DEF Promise!Shut, CloseJobs, serVars
    <3> QED  BY <3>1 DEF Promise!Next
  <2> QED  BY <2>1, <2>2
<1>5. CASE CloseReturns
  <2>1. PICK v \in done : result' = v
    BY <1>5 DEF CloseReturns
  <2>2. v = IF bwErr THEN "error" ELSE "ok"
    BY <2>1 DEF IInv, Verdict
  <2>3. result = "none" /\ jobsClosed /\ (~bwErr => dst = Promise!Stream(sealed))
    BY <1>5, <2>1, FinishGuard DEF CloseReturns
  <2>4. Promise!Finish
    BY <1>5, <2>1, <2>2, <2>3 DEF Promise!Finish, CloseReturns, serVars
  <2> QED  BY <2>4 DEF Promise!Next
<1>6. CASE ResetReturns
  <2>1. Promise!Restart
    BY <1>6 DEF Promise!Restart, ResetReturns
  <2> QED  BY <2>1 DEF Promise!Next
<1>7. CASE \E w \in Workers : Worker(w)
  BY <1>1, <1>7 DEF Worker, TakeJob, SendResult, WorkerReturns,
     callerVars, chanVars, serVars
<1>8. CASE WriteHeader
  <2>1. ~bwErr => Len(dst) = 0
    BY <1>0, <1>8 DEF Serialized, WriteHeader
  <2>2. ~bwErr => Promise!Header = Promise!Item(sealed, Len(dst) + 1)
    BY <2>1 DEF Promise!Item
  <2>3. ~bwErr => Len(dst) <= Len(sealed) + (IF jobsClosed THEN 1 ELSE 0)
    BY <1>0, <2>1 DEF TypeOK, CallerTypes
  <2>4. Emit(Promise!Header) /\ ser # "exited" /\ UNCHANGED <<sealed, jobsClosed, result>>
    BY <1>8 DEF WriteHeader, chanVars, callerVars
  <2> QED  BY <2>2, <2>3, <2>4, EmitDelivers
<1>9. CASE ReceiveResult \/ AwaitNextBlock
  BY <1>1, <1>9 DEF ReceiveResult, AwaitNextBlock, callerVars, chanVars
<1>10. CASE WriteBlock
  <2>1. PICK r \in pending : InTurn(r) /\ Emit(Promise!BlockItem(r.data))
    BY <1>10 DEF WriteBlock
  <2>2. r.seq = nextSeq /\ r.seq < Len(sealed) /\ r.data = sealed[r.seq + 1]
    BY <2>1 DEF InTurn, IInv, Faithful, InFlight
  <2>3. nextSeq \in Nat /\ Len(sealed) \in Nat
    BY <1>0 DEF TypeOK, CallerTypes, SerTypes
  <2>4. ~bwErr => Len(dst) = nextSeq + 1
    BY <1>0, <1>10 DEF Serialized, WriteBlock
  <2>5. ASSUME ~bwErr
        PROVE  Promise!BlockItem(r.data) = Promise!Item(sealed, Len(dst) + 1)
    <3>1. /\ Len(dst) + 1 # 1
          /\ Len(dst) + 1 <= Len(sealed) + 1
          /\ (Len(dst) + 1) - 1 = nextSeq + 1
      BY <2>2, <2>3, <2>4, <2>5
    <3> QED  BY <2>2, <3>1 DEF Promise!Item
  <2>6. ~bwErr => Len(dst) <= Len(sealed) + (IF jobsClosed THEN 1 ELSE 0)
    BY <2>2, <2>3, <2>4
  <2>7. ser # "exited" /\ UNCHANGED <<sealed, jobsClosed, result>>
    BY <1>10 DEF WriteBlock, callerVars
  <2> QED  BY <2>1, <2>5, <2>6, <2>7, EmitDelivers
<1>11. CASE WriteTrailer
  <2>1. /\ ser = "receive" /\ results = << >> /\ resultsClosed
        /\ Emit(Promise!Trailer(combined))
        /\ UNCHANGED <<sealed, jobsClosed, result>>
    BY <1>11 DEF WriteTrailer, callerVars
  <2>2. nextSeq = Len(sealed) /\ jobsClosed
    BY <1>11, AllPassed
  <2>3. Len(sealed) \in Nat /\ sealed \in Seq(Block)
    BY <1>0 DEF TypeOK, CallerTypes
  <2>4. combined = sealed
    BY <1>0, <2>2, <2>3, SubSeqAll DEF Serialized
  <2>5. ~bwErr => Len(dst) = Len(sealed) + 1
    BY <1>0, <2>1, <2>2 DEF Serialized
  <2>6. ASSUME ~bwErr
        PROVE  Promise!Trailer(combined) = Promise!Item(sealed, Len(dst) + 1)
    <3>1. Len(dst) + 1 # 1 /\ ~(Len(dst) + 1 <= Len(sealed) + 1)
      BY <2>3, <2>5, <2>6
    <3> QED  BY <2>4, <3>1 DEF Promise!Item
  <2>7. ~bwErr => Len(dst) <= Len(sealed) + (IF jobsClosed THEN 1 ELSE 0)
    BY <2>2, <2>3, <2>5
  <2>8. ser # "exited"
    BY <2>1
  <2> QED  BY <2>1, <2>6, <2>7, <2>8, EmitDelivers
<1>12. CASE UNCHANGED vars
  BY <1>1, <1>12 DEF vars, callerVars, chanVars, serVars
<1> QED
  BY <1>2, <1>3, <1>4, <1>5, <1>6, <1>7, <1>8, <1>9, <1>10, <1>11, <1>12
  DEF Next, CallerGoesOn, Serializer

\* The pipeline implements the promise of a sequential writer: one stream, its blocks in
\* the caller's order, its trailer over the same blocks, "ok" only for all of it.
THEOREM Refinement == Spec => KeepsPromise
<1>1. Init => Promise!Init
  BY DEF Init, Promise!Init
<1>2. IInv /\ [Next]_vars => [Promise!Next]_(Promise!streamVars)
  BY StepRefines
<1> QED  BY <1>1, <1>2, Invariance, PTL DEF Spec, KeepsPromise, Promise!Spec

-----------------------------------------------------------------------------
(* What the promise gives its user.                                        *)

\* The next item is one of the items of a stream.
LEMMA NextItemTypes ==
  ASSUME sealed \in Seq(Block), NEW i \in 1..Len(sealed) + 2
  PROVE  Promise!Item(sealed, i) \in Promise!Items
<1>1. CASE i = 1
  BY <1>1, ItemTypes DEF Promise!Item
<1>2. CASE i # 1 /\ i <= Len(sealed) + 1
  <2>1. i - 1 \in 1..Len(sealed)
    BY <1>2
  <2>2. sealed[i - 1] \in Block
    BY <2>1
  <2> QED  BY <1>2, <2>2, ItemTypes DEF Promise!Item
<1>3. CASE i # 1 /\ ~(i <= Len(sealed) + 1)
  BY <1>3, ItemTypes DEF Promise!Item
<1> QED  BY <1>1, <1>2, <1>3

\* The three facts that carry each other.
PromiseInv == Promise!TypeOK /\ Promise!InOrder /\ Promise!WholeOnSuccess

\* An empty destination holds a beginning of any stream.
LEMMA PromiseInit == Promise!Init => PromiseInv
<1> SUFFICES ASSUME Promise!Init
             PROVE  PromiseInv
  OBVIOUS
<1>1. Promise!TypeOK
  BY DEF Promise!Init, Promise!TypeOK
<1>2. Promise!InOrder
  BY DEF Promise!Init, Promise!InOrder
<1> QED  BY <1>1, <1>2 DEF PromiseInv, Promise!Init, Promise!WholeOnSuccess

\* Every step keeps it one, and success the sign of a whole one.
LEMMA PromiseStep == PromiseInv /\ [Promise!Next]_(Promise!streamVars) => PromiseInv'
<1> SUFFICES ASSUME PromiseInv, [Promise!Next]_(Promise!streamVars)
             PROVE  PromiseInv'
  OBVIOUS
<1>0. Promise!TypeOK /\ Promise!InOrder /\ Promise!WholeOnSuccess
  BY DEF PromiseInv
<1>1. CASE Promise!Seal
  <2>1. PICK b \in Block : sealed' = Append(sealed, b)
    BY <1>1 DEF Promise!Seal
  <2>2. sealed \in Seq(Block) /\ sealed' \in Seq(Block) /\ Len(sealed') = Len(sealed) + 1
    BY <1>0, <2>1 DEF Promise!TypeOK
  <2>3. Len(dst) <= Len(sealed) + 1 /\ Len(dst) \in Nat /\ Len(sealed) \in Nat
    BY <1>0, <1>1 DEF Promise!InOrder, Promise!Seal, Promise!TypeOK
  <2>4. \A i \in 1..Len(dst) : Promise!Item(sealed', i) = Promise!Item(sealed, i)
    BY <2>1, <2>2, <2>3, ItemStable
  <2>5. Promise!InOrder'
    BY <1>0, <1>1, <2>2, <2>3, <2>4 DEF Promise!InOrder, Promise!Seal
  <2> QED  BY <1>0, <1>1, <2>2, <2>5 DEF PromiseInv, Promise!TypeOK, Promise!Seal, Promise!WholeOnSuccess
<1>2. CASE Promise!Deliver
  <2> DEFINE item == Promise!Item(sealed, Len(dst) + 1)
             Items == Promise!Items
  <2>1. Len(dst) \in Nat /\ Len(sealed) \in Nat /\ sealed \in Seq(Block)
    BY <1>0 DEF Promise!TypeOK
  <2>2. Len(dst) <= Len(sealed) + (IF jobsClosed THEN 1 ELSE 0)
    BY <1>2 DEF Promise!Deliver
  <2>3. item \in Items
    BY <2>1, <2>2, NextItemTypes
  <2>4. dst' = Append(dst, item) /\ dst \in Seq(Items)
    BY <1>0, <1>2 DEF Promise!Deliver, Promise!TypeOK
  <2> HIDE DEF item, Items
  <2>5. /\ dst' \in Seq(Items)
        /\ Len(dst') = Len(dst) + 1
        /\ \A i \in 1..Len(dst) : dst'[i] = dst[i]
        /\ dst'[Len(dst) + 1] = item
    BY <2>3, <2>4
  <2>6. \A i \in 1..Len(dst') : dst'[i] = Promise!Item(sealed, i)
    <3> TAKE i \in 1..Len(dst')
    <3>1. CASE i = Len(dst) + 1
      BY <2>5, <3>1 DEF item
    <3>2. CASE i \in 1..Len(dst)
      BY <1>0, <2>5, <3>2 DEF Promise!InOrder
    <3> QED  BY <2>1, <2>5, <3>1, <3>2
  <2>7. Promise!InOrder'
    BY <1>2, <2>1, <2>2, <2>5, <2>6 DEF Promise!InOrder, Promise!Deliver
  <2>8. Promise!TypeOK'
    BY <1>0, <1>2, <2>5 DEF Promise!TypeOK, Promise!Deliver, Items
  <2> QED  BY <1>2, <2>7, <2>8 DEF PromiseInv, Promise!Deliver, Promise!WholeOnSuccess
<1>3. CASE Promise!Fail
  BY <1>0, <1>3 DEF Promise!Fail, PromiseInv, Promise!TypeOK, Promise!InOrder, Promise!WholeOnSuccess
<1>4. CASE Promise!Shut
  <2>1. Len(dst) \in Nat /\ Len(sealed) \in Nat
    BY <1>0 DEF Promise!TypeOK
  <2>2. Promise!InOrder'
    BY <1>0, <1>4, <2>1 DEF Promise!Shut, Promise!InOrder
  <2> QED  BY <1>0, <1>4, <2>2 DEF Promise!Shut, PromiseInv, Promise!TypeOK, Promise!WholeOnSuccess
<1>5. CASE Promise!Finish
  <2>1. Promise!TypeOK' /\ Promise!InOrder'
    BY <1>0, <1>5 DEF Promise!Finish, Promise!TypeOK, Promise!InOrder
  <2>2. Promise!WholeOnSuccess'
    BY <1>5 DEF Promise!Finish, Promise!WholeOnSuccess, Promise!Stream, Promise!Item
  <2> QED  BY <2>1, <2>2 DEF PromiseInv
<1>6. CASE Promise!Restart
  <2>1. Promise!TypeOK'
    BY <1>6 DEF Promise!Restart, Promise!TypeOK
  <2>2. Promise!InOrder'
    BY <1>6 DEF Promise!Restart, Promise!InOrder
  <2> QED  BY <1>6, <2>1, <2>2 DEF Promise!Restart, PromiseInv, Promise!WholeOnSuccess
<1>7. CASE UNCHANGED Promise!streamVars
  BY <1>0, <1>7 DEF Promise!streamVars, PromiseInv, Promise!TypeOK, Promise!InOrder, Promise!WholeOnSuccess
<1> QED  BY <1>1, <1>2, <1>3, <1>4, <1>5, <1>6, <1>7 DEF Promise!Next

\* Whoever keeps the promise: the destination holds the beginning of the one stream for
\* the sealed blocks, header first, trailer last, and a reported success means that it
\* holds all of it - what the caller of a Writer (writer.go:139-146) may rely on.
THEOREM PromiseHolds == Promise!Spec => [](Promise!InOrder /\ Promise!WholeOnSuccess)
<1>1. PromiseInv => Promise!InOrder /\ Promise!WholeOnSuccess
  BY DEF PromiseInv
<1> QED  BY <1>1, PromiseInit, PromiseStep, PTL DEF Promise!Spec

\* The parallel path delivers so, for any number of workers and whatever order they
\* finish in (writer.go:384-434, 466-473).
THEOREM DeliversInOrder == Spec => [](Promise!InOrder /\ Promise!WholeOnSuccess)
BY Refinement, PromiseHolds, PTL DEF KeepsPromise


-----------------------------------------------------------------------------
(* How often a number occurs in a channel, with the workers, in the map.   *)

If1(b) == IF b THEN 1 ELSE 0
InQueue(q, k) == {i \in DOMAIN q : q[i].seq = k}
AtWorkers(h, k) == {w \in Workers : \E job \in h[w] : job.seq = k}
InMap(p, k) == {r \in p : r.seq = k}

\* One element more or less.
LEMMA CountOne ==
    ASSUME NEW S, IsFiniteSet(S), NEW x, x \notin S
    PROVE  /\ Cardinality(S) \in Nat /\ IsFiniteSet(S \cup {x})
           /\ Cardinality(S \cup {x}) = Cardinality(S) + 1
  BY FS_AddElement, FS_CardinalityType

LEMMA QueueFinite ==
    ASSUME NEW q \in Seq(Job), NEW k
    PROVE  IsFiniteSet(InQueue(q, k)) /\ Cardinality(InQueue(q, k)) \in Nat
<1>1. Len(q) \in Nat /\ DOMAIN q = 1..Len(q)
  OBVIOUS
<1>2. IsFiniteSet(1..Len(q))
  BY <1>1, FS_Interval
<1>3. InQueue(q, k) \subseteq 1..Len(q)
  BY <1>1 DEF InQueue
<1> QED  BY <1>2, <1>3, FS_Subset, FS_CardinalityType

\* A send.
LEMMA QueueAppend ==
    ASSUME NEW q \in Seq(Job), NEW x \in Job, NEW k
    PROVE  Cardinality(InQueue(Append(q, x), k)) = Cardinality(InQueue(q, k)) + If1(x.seq = k)
<1>1. /\ Len(q) \in Nat /\ DOMAIN q = 1..Len(q)
      /\ DOMAIN Append(q, x) = DOMAIN q \cup {Len(q) + 1}
      /\ \A i \in DOMAIN q : Append(q, x)[i] = q[i]
      /\ Append(q, x)[Len(q) + 1] = x
  OBVIOUS
<1>2. CASE x.seq = k
  <2>1. InQueue(Append(q, x), k) = InQueue(q, k) \cup {Len(q) + 1}
    BY <1>1, <1>2 DEF InQueue
  <2>2. Len(q) + 1 \notin InQueue(q, k)
    BY <1>1 DEF InQueue
  <2> QED  BY <1>2, <2>1, <2>2, QueueFinite, CountOne DEF If1
<1>3. CASE x.seq # k
  <2>1. InQueue(Append(q, x), k) = InQueue(q, k)
    BY <1>1, <1>3 DEF InQueue
  <2> QED  BY <1>3, <2>1, QueueFinite DEF If1
<1> QED  BY <1>2, <1>3

\* A receive.
LEMMA QueueHead ==
    ASSUME NEW q \in Seq(Job), q # << >>, NEW k
    PROVE  Cardinality(InQueue(q, k)) = Cardinality(InQueue(Tail(q), k)) + If1(Head(q).seq = k)
<1> DEFINE rest == Tail(q)
           Back == InQueue(rest, k)
           Moved == {i \in 2..Len(q) : q[i].seq = k}
<1>1. /\ Len(q) \in Nat \ {0} /\ DOMAIN q = 1..Len(q) /\ Head(q) = q[1]
      /\ rest \in Seq(Job) /\ Len(rest) = Len(q) - 1 /\ DOMAIN rest = 1..Len(q) - 1
      /\ \A i \in 1..Len(q) - 1 : rest[i] = q[i + 1]
  OBVIOUS
<1> HIDE DEF rest
<1>2. IsFiniteSet(Back)
  BY <1>1, QueueFinite
\* The elements behind the head move up by one.
<1>3. IsFiniteSet(Moved) /\ Cardinality(Moved) = Cardinality(Back)
  <2> DEFINE f == [i \in Back |-> i + 1]
  <2>1. \A i \in Back : i \in 1..Len(q) - 1 /\ rest[i].seq = k
    BY <1>1 DEF InQueue
  <2>2. \A i \in Back : i + 1 \in Moved
    BY <1>1, <2>1
  <2>3. f \in [Back -> Moved]
    BY <2>2
  <2>4. \A i, j \in Back : i # j => f[i] # f[j]
    BY <1>1, <2>1
  <2>5. \A m \in Moved : m - 1 \in Back /\ f[m - 1] = m
    <3> SUFFICES ASSUME NEW m \in Moved PROVE m - 1 \in Back /\ f[m - 1] = m
      OBVIOUS
    <3>1. m - 1 \in 1..Len(q) - 1 /\ (m - 1) + 1 = m /\ q[m].seq = k
      BY <1>1
    <3>2. m - 1 \in Back
      BY <1>1, <3>1 DEF InQueue
    <3> QED  BY <3>1, <3>2
  <2>6. f \in Bijection(Back, Moved)
    BY <2>3, <2>4, <2>5 DEF Bijection, Injection, Surjection, IsInjective
  <2> QED  BY <1>2, <2>6, FS_Bijection DEF ExistsBijection
<1>4. CASE q[1].seq = k
  <2>1. InQueue(q, k) = Moved \cup {1}
    BY <1>1, <1>4 DEF InQueue
  <2>2. 1 \notin Moved
    BY <1>1
  <2> HIDE DEF Moved, Back
  <2>3. Cardinality(Moved \cup {1}) = Cardinality(Moved) + 1
    BY <1>3, <2>2, CountOne
  <2> QED  BY <1>1, <1>3, <1>4, <2>1, <2>3 DEF If1, Back, rest
<1>5. CASE q[1].seq # k
  <2>1. InQueue(q, k) = Moved
    BY <1>1, <1>5 DEF InQueue
  <2> HIDE DEF Moved, Back
  <2>2. Cardinality(Back) \in Nat
    BY <1>2, FS_CardinalityType
  <2> QED  BY <1>1, <1>3, <1>5, <2>1, <2>2 DEF If1, Back, rest
<1> QED  BY <1>4, <1>5

LEMMA WorkersFinite ==
    ASSUME NEW h, NEW k
    PROVE  IsFiniteSet(AtWorkers(h, k)) /\ Cardinality(AtWorkers(h, k)) \in Nat
<1>1. AtWorkers(h, k) \in SUBSET Workers
  BY DEF AtWorkers
<1> QED  BY <1>1, WorkersAssumption, FS_Subset, FS_CardinalityType

\* A worker takes a job, or passes it on: h and g differ in that.
Takes(h, g, w, job) ==
    /\ w \in Workers
    /\ h[w] = {} /\ g[w] = {job}
    /\ \A v \in Workers \ {w} : g[v] = h[v]

LEMMA WorkerTakes ==
    ASSUME NEW h, NEW g, NEW w, NEW job, NEW k, Takes(h, g, w, job)
    PROVE  Cardinality(AtWorkers(g, k)) = Cardinality(AtWorkers(h, k)) + If1(job.seq = k)
<1>1. w \in Workers /\ g[w] = {job} /\ \A v \in Workers \ {w} : g[v] = h[v]
  BY DEF Takes
<1>2. w \notin AtWorkers(h, k)
  BY DEF AtWorkers, Takes
<1>3. CASE job.seq = k
  <2>1. AtWorkers(g, k) = AtWorkers(h, k) \cup {w}
    BY <1>1, <1>3 DEF AtWorkers
  <2> QED  BY <1>2, <1>3, <2>1, WorkersFinite, CountOne DEF If1
<1>4. CASE job.seq # k
  <2>1. w \notin AtWorkers(g, k)
    BY <1>1, <1>4 DEF AtWorkers
  <2>2. \A v \in Workers \ {w} : v \in AtWorkers(g, k) <=> v \in AtWorkers(h, k)
    BY <1>1 DEF AtWorkers
  <2>3. AtWorkers(g, k) \subseteq Workers /\ AtWorkers(h, k) \subseteq Workers
    BY DEF AtWorkers
  <2>4. AtWorkers(g, k) = AtWorkers(h, k)
    BY <1>2, <2>1, <2>2, <2>3
  <2> QED  BY <1>4, <2>4, WorkersFinite DEF If1
<1> QED  BY <1>3, <1>4

LEMMA MapFinite ==
    ASSUME NEW p, IsFiniteSet(p), NEW k
    PROVE  IsFiniteSet(InMap(p, k)) /\ Cardinality(InMap(p, k)) \in Nat
<1>1. InMap(p, k) \in SUBSET p
  BY DEF InMap
<1> QED  BY <1>1, FS_Subset, FS_CardinalityType

\* A result enters the reorder map, or leaves it.
LEMMA MapAdd ==
    ASSUME NEW p, IsFiniteSet(p), NEW r, r \notin p, NEW k
    PROVE  Cardinality(InMap(p \cup {r}, k)) = Cardinality(InMap(p, k)) + If1(r.seq = k)
<1>1. r \notin InMap(p, k)
  BY DEF InMap
<1>2. CASE r.seq = k
  <2>1. InMap(p \cup {r}, k) = InMap(p, k) \cup {r}
    BY <1>2 DEF InMap
  <2> QED  BY <1>1, <1>2, <2>1, MapFinite, CountOne DEF If1
<1>3. CASE r.seq # k
  <2>1. InMap(p \cup {r}, k) = InMap(p, k)
    BY <1>3 DEF InMap
  <2> QED  BY <1>3, <2>1, MapFinite DEF If1
<1> QED  BY <1>2, <1>3

\* What a map does not hold it counts as zero.
LEMMA MapNone ==
    ASSUME NEW p, IsFiniteSet(p), NEW k, Cardinality(InMap(p, k)) = 0
    PROVE  \A r \in p : r.seq # k
<1>1. InMap(p, k) = {}
  BY MapFinite, FS_EmptySet
<1> QED  BY <1>1 DEF InMap

-----------------------------------------------------------------------------
(* The invariant. *)

Passed(k) == If1(k < nextSeq)
Sealed(k) == If1(k < Len(sealed))

\* A worker has one job at a time, the map is finite, and the places of a block add up
\* to one from its send on.
OnePlace ==
    /\ \A w \in Workers : held[w] = {} \/ \E job \in Job : held[w] = {job}
    /\ IsFiniteSet(pending)
    /\ \A k \in Nat : Copies(k) = Sealed(k)

\* Copies, place by place.
LEMMA CopiesAre ==
    \A k : Copies(k) = Cardinality(InQueue(jobs, k)) + Cardinality(AtWorkers(held, k))
                       + Cardinality(InQueue(results, k)) + Cardinality(InMap(pending, k))
                       + Passed(k)
  BY DEF Copies, InQueue, AtWorkers, InMap, Passed, If1

LEMMA CopiesAreNext ==
    \A k : Copies(k)' = Cardinality(InQueue(jobs', k)) + Cardinality(AtWorkers(held', k))
                        + Cardinality(InQueue(results', k)) + Cardinality(InMap(pending', k))
                        + (IF k < nextSeq' THEN 1 ELSE 0)
  BY DEF Copies, InQueue, AtWorkers, InMap

LEMMA CountsAreNat ==
    ASSUME IInv, OnePlace, NEW k \in Nat
    PROVE  /\ Cardinality(InQueue(jobs, k)) \in Nat
           /\ Cardinality(AtWorkers(held, k)) \in Nat
           /\ Cardinality(InQueue(results, k)) \in Nat
           /\ Cardinality(InMap(pending, k)) \in Nat
  BY QueueFinite, WorkersFinite, MapFinite DEF IInv, TypeOK, ChanTypes, OnePlace

LEMMA PlaceInit == Init => OnePlace
<1> SUFFICES ASSUME Init PROVE OnePlace
  OBVIOUS
<1>1. \A w \in Workers : held[w] = {}
  BY DEF Init
<1>2. IsFiniteSet(pending)
  BY FS_EmptySet DEF Init
<1>3. ASSUME NEW k \in Nat
      PROVE  Copies(k) = Sealed(k)
  <2>1. /\ InQueue(jobs, k) = {} /\ AtWorkers(held, k) = {} /\ InQueue(results, k) = {}
        /\ InMap(pending, k) = {}
    BY DEF Init, InQueue, AtWorkers, InMap
  <2>2. Passed(k) = 0 /\ Sealed(k) = 0
    BY DEF Init, Passed, Sealed, If1
  <2> QED  BY <2>1, <2>2, CopiesAre, FS_EmptySet
<1> QED  BY <1>1, <1>2, <1>3 DEF OnePlace

-----------------------------------------------------------------------------
(* Every step keeps it. *)

\* The send that hands a block over (writer.go:457-463).
LEMMA SendJobPlace ==
    ASSUME IInv, OnePlace, SendJob
    PROVE  OnePlace'
<1>1. PICK b \in cur : /\ jobs' = Append(jobs, [seq |-> blockNo, data |-> b])
                       /\ sealed' = Append(sealed, b)
  BY DEF SendJob
<1>2. UNCHANGED <<held, results, pending, nextSeq>> /\ call = "send"
  BY DEF SendJob, workerVars, serVars
<1>3. jobs \in Seq(Job) /\ sealed \in Seq(Block) /\ b \in Block /\ blockNo \in Nat
  BY DEF IInv, TypeOK, CallerTypes, ChanTypes
<1>4. blockNo = Len(sealed)
  BY <1>2 DEF IInv, Numbered
<1> DEFINE x == [seq |-> blockNo, data |-> b]
<1>5. x \in Job /\ x.seq = blockNo
  BY <1>3 DEF Job
<1>6. Len(sealed') = Len(sealed) + 1 /\ Len(sealed) \in Nat
  BY <1>1, <1>3
<1> HIDE DEF x
<1>7. ASSUME NEW k \in Nat
      PROVE  Copies(k)' = Sealed(k)'
  <2>1. Cardinality(InQueue(jobs', k)) = Cardinality(InQueue(jobs, k)) + If1(blockNo = k)
    BY <1>1, <1>3, <1>5, QueueAppend DEF x
  <2>2. Copies(k)' = Copies(k) + If1(blockNo = k)
    <3>1. /\ (IF k < nextSeq' THEN 1 ELSE 0) = Passed(k) /\ Passed(k) \in Nat
          /\ If1(blockNo = k) \in Nat
      BY <1>2 DEF Passed, If1
    <3>2. Copies(k)' = Cardinality(InQueue(jobs', k)) + Cardinality(AtWorkers(held, k))
                       + Cardinality(InQueue(results, k)) + Cardinality(InMap(pending, k))
                       + Passed(k)
      BY <1>2, <3>1, CopiesAreNext
    <3> QED  BY <2>1, <3>1, <3>2, CopiesAre, CountsAreNat
  <2>3. Sealed(k)' = Sealed(k) + If1(blockNo = k)
    BY <1>4, <1>6 DEF Sealed, If1
  <2>4. Copies(k) = Sealed(k)
    BY DEF OnePlace
  <2> QED  BY <2>2, <2>3, <2>4
<1> QED  BY <1>2, <1>7 DEF OnePlace

\* A worker receives a job (writer.go:371-372).
LEMMA TakeJobPlace ==
    ASSUME IInv, OnePlace, NEW w \in Workers, TakeJob(w)
    PROVE  OnePlace'
<1>1. /\ held[w] = {} /\ jobs # << >> /\ held' = [held EXCEPT ![w] = {Head(jobs)}]
      /\ jobs' = Tail(jobs) /\ UNCHANGED <<results, pending, nextSeq, sealed>>
  BY DEF TakeJob, serVars
<1>2. jobs \in Seq(Job) /\ held \in [Workers -> SUBSET Job]
  BY DEF IInv, TypeOK, ChanTypes, WorkerTypes
<1>3. Head(jobs) \in Job
  BY <1>1, <1>2, ElementsHead
<1>6. Takes(held, held', w, Head(jobs))
  BY <1>1, <1>2 DEF Takes
<1>4. ASSUME NEW k \in Nat
      PROVE  Copies(k)' = Sealed(k)'
  <2>1. Cardinality(InQueue(jobs, k))
        = Cardinality(InQueue(jobs', k)) + If1(Head(jobs).seq = k)
    BY <1>1, <1>2, QueueHead
  <2>2. Cardinality(AtWorkers(held', k))
        = Cardinality(AtWorkers(held, k)) + If1(Head(jobs).seq = k)
    BY <1>6, WorkerTakes
  <2>3. jobs' \in Seq(Job)
    BY <1>1, <1>2, ElementsHead
  <2>4. Cardinality(InQueue(jobs', k)) \in Nat /\ If1(Head(jobs).seq = k) \in Nat
    BY <2>3, QueueFinite DEF If1
  <2>5. Copies(k)' = Copies(k)
    <3>1. (IF k < nextSeq' THEN 1 ELSE 0) = Passed(k) /\ Passed(k) \in Nat
      BY <1>1 DEF Passed, If1
    <3>2. Copies(k)' = Cardinality(InQueue(jobs', k)) + Cardinality(AtWorkers(held', k))
                       + Cardinality(InQueue(results, k)) + Cardinality(InMap(pending, k))
                       + Passed(k)
      BY <1>1, <3>1, CopiesAreNext
    <3> QED  BY <2>1, <2>2, <2>4, <3>1, <3>2, CopiesAre, CountsAreNat
  <2> QED  BY <1>1, <2>5 DEF OnePlace, Sealed
<1>5. \A v \in Workers : held'[v] = {} \/ \E job \in Job : held'[v] = {job}
  BY <1>1, <1>2, <1>3 DEF OnePlace
<1> QED  BY <1>1, <1>4, <1>5 DEF OnePlace

\* A worker sends its result (writer.go:379).
LEMMA SendResultPlace ==
    ASSUME IInv, OnePlace, NEW w \in Workers, SendResult(w)
    PROVE  OnePlace'
<1>1. PICK job \in held[w] : /\ results' = Append(results, job)
                             /\ held' = [held EXCEPT ![w] = @ \ {job}]
  BY DEF SendResult
<1>2. UNCHANGED <<jobs, pending, nextSeq, sealed>>
  BY DEF SendResult, serVars
<1>3. results \in Seq(Job) /\ held \in [Workers -> SUBSET Job] /\ job \in Job
  BY DEF IInv, TypeOK, ChanTypes, WorkerTypes
<1>4. held[w] = {job}
  BY DEF OnePlace
<1>5. Takes(held', held, w, job)
  BY <1>1, <1>3, <1>4 DEF Takes
<1>6. ASSUME NEW k \in Nat
      PROVE  Copies(k)' = Sealed(k)'
  <2>1. Cardinality(AtWorkers(held, k)) = Cardinality(AtWorkers(held', k)) + If1(job.seq = k)
    BY <1>5, WorkerTakes
  <2>2. Cardinality(InQueue(results', k))
        = Cardinality(InQueue(results, k)) + If1(job.seq = k)
    BY <1>1, <1>3, QueueAppend
  <2>3. Cardinality(AtWorkers(held', k)) \in Nat /\ If1(job.seq = k) \in Nat
    BY WorkersFinite DEF If1
  <2>4. Copies(k)' = Copies(k)
    <3>1. (IF k < nextSeq' THEN 1 ELSE 0) = Passed(k) /\ Passed(k) \in Nat
      BY <1>2 DEF Passed, If1
    <3>2. Copies(k)' = Cardinality(InQueue(jobs, k)) + Cardinality(AtWorkers(held', k))
                       + Cardinality(InQueue(results', k)) + Cardinality(InMap(pending, k))
                       + Passed(k)
      BY <1>2, <3>1, CopiesAreNext
    <3> QED  BY <2>1, <2>2, <2>3, <3>1, <3>2, CopiesAre, CountsAreNat
  <2> QED  BY <1>2, <2>4 DEF OnePlace, Sealed
<1>7. \A v \in Workers : held'[v] = {} \/ \E j \in Job : held'[v] = {j}
  BY <1>3, <1>4, <1>1 DEF OnePlace
<1> QED  BY <1>2, <1>6, <1>7 DEF OnePlace

\* The serializer receives a result: its number is not in the map yet, so that nothing
\* is overwritten there (writer.go:397-400).
LEMMA ReceivePlace ==
    ASSUME IInv, OnePlace, ReceiveResult
    PROVE  OnePlace'
<1> DEFINE res == Head(results)
<1>1. /\ results # << >> /\ results' = Tail(results)
      /\ pending' = {p \in pending : p.seq # res.seq} \cup {res}
      /\ UNCHANGED <<jobs, held, nextSeq, sealed>>
  BY DEF ReceiveResult, workerVars
<1>2. results \in Seq(Job) /\ IsFiniteSet(pending)
  BY DEF IInv, TypeOK, ChanTypes, OnePlace
<1>3. res \in Job /\ results' \in Seq(Job)
  BY <1>1, <1>2, ElementsHead
<1>4. res.seq \in Nat
  BY <1>3 DEF Job
<1>5. ASSUME NEW k \in Nat
      PROVE  Cardinality(InQueue(results, k))
             = Cardinality(InQueue(results', k)) + If1(res.seq = k)
  BY <1>1, <1>2, QueueHead
<1> HIDE DEF res
<1>6. \A r \in pending : r.seq # res.seq
  <2> DEFINE k == res.seq
  <2>1. Cardinality(InQueue(results, k)) = Cardinality(InQueue(results', k)) + 1
    BY <1>4, <1>5 DEF If1
  <2>2. Cardinality(InQueue(results', k)) \in Nat
    BY <1>3, QueueFinite
  <2>3. Copies(k) <= 1
    BY <1>4 DEF OnePlace, Sealed, If1
  <2>4. Passed(k) \in Nat
    BY DEF Passed, If1
  <2>5. /\ Cardinality(InQueue(jobs, k)) \in Nat
        /\ Cardinality(AtWorkers(held, k)) \in Nat
        /\ Cardinality(InMap(pending, k)) \in Nat
    BY <1>4, CountsAreNat
  <2>6. Copies(k) = Cardinality(InQueue(jobs, k)) + Cardinality(AtWorkers(held, k))
                    + Cardinality(InQueue(results, k)) + Cardinality(InMap(pending, k))
                    + Passed(k)
    BY CopiesAre
  <2> HIDE DEF k
  <2>7. Cardinality(InMap(pending, k)) = 0
    BY <2>1, <2>2, <2>3, <2>4, <2>5, <2>6
  <2> QED  BY <1>2, <2>7, MapNone DEF k
<1>7. pending' = pending \cup {res} /\ res \notin pending
  <2>1. {p \in pending : p.seq # res.seq} = pending
    BY <1>6
  <2> QED  BY <1>1, <1>6, <2>1
<1>8. IsFiniteSet(pending')
  BY <1>2, <1>7, FS_AddElement
<1>9. ASSUME NEW k \in Nat
      PROVE  Copies(k)' = Sealed(k)'
  <2>1. Cardinality(InMap(pending', k)) = Cardinality(InMap(pending, k)) + If1(res.seq = k)
    BY <1>2, <1>7, MapAdd
  <2>2. Cardinality(InQueue(results, k))
        = Cardinality(InQueue(results', k)) + If1(res.seq = k)
    BY <1>5
  <2>3. Cardinality(InQueue(results', k)) \in Nat /\ If1(res.seq = k) \in Nat
    BY <1>3, QueueFinite DEF If1
  <2>4. Copies(k)' = Copies(k)
    <3>1. (IF k < nextSeq' THEN 1 ELSE 0) = Passed(k) /\ Passed(k) \in Nat
      BY <1>1 DEF Passed, If1
    <3>2. Copies(k)' = Cardinality(InQueue(jobs, k)) + Cardinality(AtWorkers(held, k))
                       + Cardinality(InQueue(results', k)) + Cardinality(InMap(pending', k))
                       + Passed(k)
      BY <1>1, <3>1, CopiesAreNext
    <3> QED  BY <2>1, <2>2, <2>3, <3>1, <3>2, CopiesAre, CountsAreNat
  <2> QED  BY <1>1, <2>4 DEF OnePlace, Sealed
<1> QED  BY <1>1, <1>8, <1>9 DEF OnePlace

\* The serializer writes the next block (writer.go:402-420).
LEMMA WriteBlockPlace ==
    ASSUME IInv, OnePlace, WriteBlock
    PROVE  OnePlace'
<1>1. PICK r \in pending : r.seq = nextSeq /\ pending' = pending \ {r}
  BY DEF WriteBlock, InTurn, TakenOut
<1>2. nextSeq' = nextSeq + 1 /\ UNCHANGED <<jobs, held, results, sealed>>
  BY DEF WriteBlock, workerVars
<1>3. IsFiniteSet(pending) /\ nextSeq \in Nat
  BY DEF IInv, TypeOK, SerTypes, OnePlace
<1>4. IsFiniteSet(pending')
  BY <1>1, <1>3, FS_RemoveElement
<1>5. pending = pending' \cup {r} /\ r \notin pending'
  BY <1>1
<1>6. ASSUME NEW k \in Nat
      PROVE  Copies(k)' = Sealed(k)'
  <2>1. Cardinality(InMap(pending, k)) = Cardinality(InMap(pending', k)) + If1(nextSeq = k)
    BY <1>1, <1>4, <1>5, MapAdd
  <2>2. Cardinality(InMap(pending', k)) \in Nat
    BY <1>4, MapFinite
  <2>3. (IF k < nextSeq' THEN 1 ELSE 0) = Passed(k) + If1(nextSeq = k)
    BY <1>2, <1>3 DEF Passed, If1
  <2>4. Passed(k) \in Nat /\ If1(nextSeq = k) \in Nat
    BY DEF Passed, If1
  <2>5. Copies(k)' = Copies(k)
    BY <1>2, <2>1, <2>2, <2>3, <2>4, CopiesAre, CopiesAreNext, CountsAreNat
  <2> QED  BY <1>2, <2>5 DEF OnePlace, Sealed
<1> QED  BY <1>2, <1>4, <1>6 DEF OnePlace

\* A new pipeline has nothing under way (writer.go:344-365, 443-445).
LEMMA ResetPlace ==
    ASSUME IInv, OnePlace, ResetReturns
    PROVE  OnePlace'
<1>1. /\ jobs' = << >> /\ results' = << >> /\ held' = [w \in Workers |-> {}]
      /\ pending' = {} /\ nextSeq' = 0 /\ sealed' = << >>
  BY DEF ResetReturns
<1>2. IsFiniteSet(pending')
  BY <1>1, FS_EmptySet
<1>3. ASSUME NEW k \in Nat
      PROVE  Copies(k)' = Sealed(k)'
  <2>1. /\ InQueue(jobs', k) = {} /\ AtWorkers(held', k) = {} /\ InQueue(results', k) = {}
        /\ InMap(pending', k) = {}
    BY <1>1 DEF InQueue, AtWorkers, InMap
  <2>2. Sealed(k)' = 0 /\ ~(k < nextSeq')
    BY <1>1 DEF Sealed, If1
  <2> QED  BY <2>1, <2>2, CopiesAreNext, FS_EmptySet
<1> QED  BY <1>1, <1>2, <1>3 DEF OnePlace

LEMMA PlaceStep ==
    ASSUME IInv, OnePlace, [Next]_vars
    PROVE  OnePlace'
<1>1. ASSUME UNCHANGED <<jobs, held, results, pending, nextSeq, sealed>>
      PROVE  OnePlace'
  <2>1. \A k \in Nat : Copies(k)' = Copies(k)
    BY <1>1 DEF Copies
  <2> QED  BY <1>1, <2>1 DEF OnePlace, Sealed
<1>2. CASE \/ WriteSome \/ WriteFull \/ Close \/ Reset \/ CloseJobs \/ AwaitWorkers
           \/ CloseReturns \/ WriteHeader \/ AwaitNextBlock \/ WriteTrailer
  BY <1>1, <1>2 DEF WriteSome, WriteFull, Close, Reset, CloseJobs, AwaitWorkers,
     CloseReturns, WriteHeader, AwaitNextBlock, WriteTrailer, callerVars, chanVars,
     workerVars, serVars
<1>3. ASSUME NEW w \in Workers, WorkerReturns(w)
      PROVE  OnePlace'
  BY <1>1, <1>3 DEF WorkerReturns, chanVars, serVars
<1>4. CASE UNCHANGED vars
  BY <1>1, <1>4 DEF vars, callerVars, chanVars, workerVars, serVars
<1> QED
  BY <1>2, <1>3, <1>4, SendJobPlace, TakeJobPlace, SendResultPlace, ReceivePlace,
     WriteBlockPlace, ResetPlace
  DEF Next, CallerGoesOn, Worker, Serializer

\* From the send to the write a block is in one place: none is lost, and none is written
\* twice, however the workers overtake each other (writer.go:397-414).
THEOREM InOnePlace == Spec => []EachBlockInOnePlace
<1>1. OnePlace => EachBlockInOnePlace
  <2>1. \A k \in 0..MaxBlocks : k \in Nat
    BY BoundsAssumption
  <2> QED  BY <2>1 DEF OnePlace, EachBlockInOnePlace, Sealed, If1
<1>2. IInv /\ OnePlace /\ [Next]_vars => OnePlace'
  BY PlaceStep
<1>3. Spec => []IInv
  BY Invariance
<1> QED  BY PlaceInit, <1>1, <1>2, <1>3, PTL DEF Spec
=============================================================================
