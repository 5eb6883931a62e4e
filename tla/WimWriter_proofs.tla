--------------------------- MODULE WimWriter_proofs ---------------------------
(***************************************************************************)
(* Proofs about BlobPipeline, for any number of blobs and any set of       *)
(* workers, and about WimWriter: the writer drives that pipeline, whose    *)
(* theorems carry over to it, and grows bt.Entries only after every        *)
(* goroutine that reads it is done.  The header names what is in the file, *)
(* and the integrity table has the digests of its chunks.                  *)
(***************************************************************************)
EXTENDS WimWriter, SequenceTheorems, WellFoundedInduction, TLAPS

(* The pipeline by itself.                                                 *)

\* The variables keep their types: in particular a worker never holds, and the
\* dispatcher never sends, an index past the end of bt.Entries.
LEMMA TypeInit == PipelineInit => PipelineTypeOK
<1> SUFFICES ASSUME PipelineInit PROVE PipelineTypeOK
  OBVIOUS
<1> USE PipelineAssumption DEF PipelineAssumption, PipelineInit
<1>1. jobs \in Seq(Blob)
  BY EmptySeq
<1>2. fault \in [Blob -> Faults] /\ closed \in BOOLEAN
  OBVIOUS
<1>3. sent \in 0 .. NumBlobs /\ taken \in 0 .. NumBlobs /\ failedAt \in 0 .. NumBlobs
  OBVIOUS
<1>4. pc \in [Workers -> WorkerPC] /\ job \in [Workers -> 0 .. NumBlobs]
  BY DEF WorkerPC
<1>5. result \in [Blob -> Outcomes \cup {"empty"}]
  BY DEF Outcomes
<1>6. QED
  BY <1>1, <1>2, <1>3, <1>4, <1>5 DEF PipelineTypeOK

LEMMA TypeStep == PipelineTypeOK /\ [PipelineNext]_pipelineVars => PipelineTypeOK'
<1> SUFFICES ASSUME PipelineTypeOK, [PipelineNext]_pipelineVars
             PROVE  PipelineTypeOK'
  OBVIOUS
<1> USE PipelineAssumption DEF PipelineAssumption, PipelineTypeOK, Faults, Outcomes, WorkerPC, Blob
<1>1. CASE Dispatch
  BY <1>1 DEF Dispatch
<1>2. CASE CloseJobs
  BY <1>2 DEF CloseJobs
<1>3. ASSUME NEW w \in Workers, Receive(w) PROVE PipelineTypeOK'
  BY <1>3 DEF Receive
<1>4. ASSUME NEW w \in Workers, Fetch(w) PROVE PipelineTypeOK'
  BY <1>4 DEF Fetch
<1>5. ASSUME NEW w \in Workers, NEW o \in Outcomes, Send(w, o) PROVE PipelineTypeOK'
  <2>1. result' \in [Blob -> Outcomes \cup {"empty"}]
    BY <1>5 DEF Send
  <2>2. QED
    BY <1>5, <2>1 DEF Send
<1>6. ASSUME NEW w \in Workers, Exit(w) PROVE PipelineTypeOK'
  BY <1>6 DEF Exit
<1>7. CASE Take
  BY <1>7 DEF Take, Draining
<1>8. CASE GiveUp
  BY <1>8 DEF GiveUp, Draining
<1>9. CASE UNCHANGED pipelineVars
  BY <1>9 DEF pipelineVars
<1>10. QED
  BY <1>1, <1>2, <1>3, <1>4, <1>5, <1>6, <1>7, <1>8, <1>9
     DEF PipelineNext, Goroutines, Work, FetchFails, Encode, EncodeFails

THEOREM TypeCorrect == PipelineSpec => []PipelineTypeOK
BY TypeInit, TypeStep, PTL DEF PipelineSpec
-----------------------------------------------------------------------------
(* The inductive invariant.  A step moves one blob one place along: from    *)
(* the dispatcher to the channel, to a worker, to its result channel, to    *)
(* WriteTo.                                                                 *)

LEMMA InvInit == PipelineInit => PipelineInv
<1> SUFFICES ASSUME PipelineInit PROVE PipelineInv
  OBVIOUS
<1>1. PipelineTypeOK
  BY TypeInit
<1>2. jobs = <<>> /\ Len(jobs) = 0 /\ sent = 0 /\ taken = 0 /\ failedAt = 0 /\ closed = FALSE
  BY DEF PipelineInit
<1>3. \A w \in Workers : pc[w] = "receive" /\ job[w] = 0
  BY DEF PipelineInit
<1>4. \A i \in Blob : result[i] = "empty"
  BY DEF PipelineInit
<1>5. ChannelInOrder /\ StopsWhereItFailed
  BY <1>2 DEF ChannelInOrder, StopsWhereItFailed
<1>6. OneWorkerPerBlob
  BY <1>3 DEF OneWorkerPerBlob
<1>7. EveryBlobAccounted
  BY <1>2, <1>3, <1>4, PipelineAssumption
     DEF EveryBlobAccounted, Accounted, Received, Held, Consumed, Blob, PipelineAssumption
<1>8. OutcomeIsOwn
  BY <1>3, <1>4 DEF OutcomeIsOwn
<1>9. QED
  BY <1>1, <1>2, <1>5, <1>6, <1>7, <1>8 DEF PipelineInv

\* The dispatcher's steps.
LEMMA DispatchKeepsInv == PipelineInv /\ Dispatch => PipelineInv'
<1> SUFFICES ASSUME PipelineInv, Dispatch PROVE PipelineInv'
  OBVIOUS
<1> USE DEF PipelineInv
<1>1. PipelineTypeOK'
  BY TypeStep DEF PipelineNext, Goroutines
<1>2. /\ jobs \in Seq(Blob) /\ sent \in Nat /\ NumBlobs \in Nat
      /\ sent < NumBlobs /\ sent' = sent + 1 /\ jobs' = Append(jobs, sent + 1)
      /\ Len(jobs') = Len(jobs) + 1 /\ Received' = Received
      /\ UNCHANGED <<fault, closed, pc, job, result, taken, failedAt>>
  BY PipelineAssumption DEF Dispatch, PipelineTypeOK, PipelineAssumption, Blob, Received
<1>3. ChannelInOrder'
  <2> SUFFICES ASSUME NEW k \in 1 .. Len(jobs') PROVE jobs'[k] = Received' + k
    BY DEF ChannelInOrder
  <2>1. CASE k \in 1 .. Len(jobs)
    BY <1>2, <2>1 DEF ChannelInOrder
  <2>2. CASE k = Len(jobs) + 1
    BY <1>2, <2>2 DEF Received
  <2>3. QED
    BY <1>2, <2>1, <2>2
<1>4. EveryBlobAccounted'
  BY <1>2 DEF EveryBlobAccounted, Accounted, Held, Consumed
<1>5. OneWorkerPerBlob' /\ OutcomeIsOwn' /\ StopsWhereItFailed'
  BY <1>2 DEF OneWorkerPerBlob, OutcomeIsOwn, StopsWhereItFailed
<1>6. QED
  BY <1>1, <1>2, <1>3, <1>4, <1>5

LEMMA CloseKeepsInv == PipelineInv /\ CloseJobs => PipelineInv'
<1> SUFFICES ASSUME PipelineInv, CloseJobs PROVE PipelineInv'
  OBVIOUS
<1> USE DEF PipelineInv, CloseJobs
<1>1. PipelineTypeOK'
  BY TypeStep DEF PipelineNext, Goroutines
<1>2. QED
  BY <1>1 DEF ChannelInOrder, OneWorkerPerBlob, EveryBlobAccounted, Accounted, OutcomeIsOwn,
              StopsWhereItFailed, Received, Held, Consumed

\* A worker takes the head of the channel: the lowest index nobody received.
LEMMA ReceiveKeepsInv ==
  ASSUME PipelineInv, NEW w \in Workers, Receive(w)
  PROVE  PipelineInv'
<1> USE DEF PipelineInv
<1>1. PipelineTypeOK'
  BY TypeStep DEF PipelineNext, Goroutines, Work
<1>0. PICK i \in Blob : i = Head(jobs)
  <2>1. jobs \in Seq(Blob) /\ jobs # <<>>
    BY DEF Receive, PipelineTypeOK
  <2>2. Head(jobs) \in Blob
    BY <2>1
  <2>3. QED
    BY <2>2
<1>2. /\ jobs \in Seq(Blob) /\ sent \in Nat /\ NumBlobs \in Nat
      /\ jobs # <<>> /\ Len(jobs) >= 1 /\ i = jobs[1]
      /\ jobs' = Tail(jobs) /\ Len(jobs') = Len(jobs) - 1
      /\ \A k \in 1 .. Len(jobs) - 1 : jobs'[k] = jobs[k + 1]
      /\ UNCHANGED <<fault, sent, closed, result, taken, failedAt>>
  BY <1>0, PipelineAssumption DEF Receive, PipelineTypeOK, PipelineAssumption, Blob
<1>3. i = Received + 1 /\ Received' = Received + 1
  BY <1>2 DEF ChannelInOrder, Received
<1>4. /\ pc[w] = "receive" /\ pc'[w] = "fetch" /\ job'[w] = i
      /\ \A v \in Workers \ {w} : pc'[v] = pc[v] /\ job'[v] = job[v]
  BY <1>0 DEF Receive, PipelineTypeOK
<1>5. ~Held(i) /\ result[i] = "empty" /\ ~Consumed(i)
  BY <1>2, <1>3 DEF EveryBlobAccounted, Accounted, Received
<1>6. ChannelInOrder'
  BY <1>2, <1>3 DEF ChannelInOrder, Received
<1>7. i # 0
  BY <1>2 DEF Blob
<1>8. OneWorkerPerBlob'
  BY <1>4, <1>5, <1>7 DEF OneWorkerPerBlob, Held
<1>9. EveryBlobAccounted'
  <2> SUFFICES ASSUME NEW j \in Blob
               PROVE  Accounted(j)'
    BY <1>2 DEF EveryBlobAccounted
  <2>1. Consumed(j)' = Consumed(j) /\ result'[j] = result[j]
    BY <1>2 DEF Consumed
  <2>2. j # i => (Held(j)' <=> Held(j))
    BY <1>4, <1>5, <1>7 DEF Held, OneWorkerPerBlob, Blob
  <2>3. Held(i)'
    BY <1>4 DEF Held
  <2>4. Received \in Int /\ j \in Int
    BY <1>2 DEF Received, Blob
  <2>5. QED
    BY <1>3, <1>5, <2>1, <2>2, <2>3, <2>4 DEF EveryBlobAccounted, Accounted
<1>10. OutcomeIsOwn' /\ StopsWhereItFailed'
  BY <1>2, <1>4 DEF OutcomeIsOwn, StopsWhereItFailed
<1>11. QED
  BY <1>1, <1>2, <1>6, <1>8, <1>9, <1>10

LEMMA FetchKeepsInv ==
  ASSUME PipelineInv, NEW w \in Workers, Fetch(w)
  PROVE  PipelineInv'
<1> USE DEF PipelineInv
<1>1. PipelineTypeOK'
  BY TypeStep DEF PipelineNext, Goroutines, Work
<1>2. /\ pc[w] = "fetch" /\ fault[job[w]] # "fetch" /\ pc'[w] = "encode"
      /\ \A v \in Workers \ {w} : pc'[v] = pc[v]
      /\ UNCHANGED <<fault, sent, jobs, closed, job, result, taken, failedAt>>
  BY DEF Fetch, PipelineTypeOK
<1>3. OneWorkerPerBlob' /\ OutcomeIsOwn'
  BY <1>2 DEF OneWorkerPerBlob, OutcomeIsOwn
<1>4. ChannelInOrder' /\ EveryBlobAccounted' /\ StopsWhereItFailed'
  BY <1>2 DEF ChannelInOrder, EveryBlobAccounted, Accounted, StopsWhereItFailed, Received,
              Held, Consumed
<1>5. QED
  BY <1>1, <1>2, <1>3, <1>4

LEMMA ExitKeepsInv ==
  ASSUME PipelineInv, NEW w \in Workers, Exit(w)
  PROVE  PipelineInv'
<1> USE DEF PipelineInv
<1>1. PipelineTypeOK'
  BY TypeStep DEF PipelineNext, Goroutines, Work
<1>2. /\ pc[w] = "receive" /\ pc'[w] = "exited"
      /\ \A v \in Workers \ {w} : pc'[v] = pc[v]
      /\ UNCHANGED <<fault, sent, jobs, closed, job, result, taken, failedAt>>
  BY DEF Exit, PipelineTypeOK
<1>3. OneWorkerPerBlob' /\ OutcomeIsOwn'
  BY <1>2 DEF OneWorkerPerBlob, OutcomeIsOwn
<1>4. ChannelInOrder' /\ EveryBlobAccounted' /\ StopsWhereItFailed'
  BY <1>2 DEF ChannelInOrder, EveryBlobAccounted, Accounted, StopsWhereItFailed, Received,
              Held, Consumed
<1>5. QED
  BY <1>1, <1>2, <1>3, <1>4

\* A worker sends the outcome of its blob and is free for the next index.
LEMMA SendKeepsInv ==
  ASSUME PipelineInv, NEW w \in Workers, pc[w] \in {"fetch", "encode"},
         NEW o \in Outcomes, o = (IF fault[job[w]] = "none" THEN "ok" ELSE fault[job[w]]),
         Send(w, o), PipelineTypeOK'
  PROVE  PipelineInv'
<1> USE DEF PipelineInv
<1>0. PICK i \in Blob : i = job[w]
  BY PipelineAssumption DEF PipelineTypeOK, OneWorkerPerBlob, Blob, PipelineAssumption
<1>1. /\ job'[w] = 0 /\ pc'[w] = "receive"
      /\ \A v \in Workers \ {w} : pc'[v] = pc[v] /\ job'[v] = job[v]
      /\ result'[i] = o
      /\ \A j \in Blob \ {i} : result'[j] = result[j]
      /\ UNCHANGED <<fault, sent, jobs, closed, taken, failedAt>>
  BY <1>0 DEF Send, PipelineTypeOK
<1>2. i # 0 /\ o # "empty"
  BY DEF Blob, Outcomes
<1>3. OneWorkerPerBlob'
  BY <1>1 DEF OneWorkerPerBlob
<1>4. Held(i) /\ ~Held(i)'
  BY <1>0, <1>1, <1>2 DEF Held, OneWorkerPerBlob
<1>5. ASSUME NEW j \in Blob, j # i PROVE Held(j)' <=> Held(j)
  BY <1>0, <1>1, <1>5 DEF Held, Blob
<1>6. \A j \in Blob : (j > Received)' = (j > Received) /\ Consumed(j)' = Consumed(j)
  BY <1>1 DEF Received, Consumed
<1>7. EveryBlobAccounted'
  <2> SUFFICES ASSUME NEW j \in Blob PROVE Accounted(j)'
    BY DEF EveryBlobAccounted
  <2>1. Accounted(j)
    BY DEF EveryBlobAccounted
  <2>2. CASE j = i
    BY <1>1, <1>2, <1>4, <1>6, <2>1, <2>2 DEF Accounted
  <2>3. CASE j # i
    BY <1>1, <1>5, <1>6, <2>1, <2>3 DEF Accounted
  <2>4. QED
    BY <2>2, <2>3
<1>8. OutcomeIsOwn'
  BY <1>0, <1>1 DEF OutcomeIsOwn
<1>9. ChannelInOrder' /\ StopsWhereItFailed'
  BY <1>1 DEF ChannelInOrder, StopsWhereItFailed, Received
<1>10. QED
  BY <1>1, <1>3, <1>7, <1>8, <1>9

LEMMA WorkKeepsInv ==
  ASSUME PipelineInv, NEW w \in Workers, Work(w)
  PROVE  PipelineInv'
<1>1. PipelineTypeOK'
  BY TypeStep DEF PipelineNext, Goroutines, PipelineInv
<1>2. CASE FetchFails(w)
  BY <1>1, <1>2, SendKeepsInv DEF FetchFails, Outcomes
<1>3. CASE Encode(w)
  <2>1. pc[w] = "encode" /\ fault[job[w]] \notin {"fetch", "encode"} /\ job[w] \in Blob
    BY <1>3, PipelineAssumption
       DEF Encode, PipelineInv, PipelineTypeOK, OutcomeIsOwn, OneWorkerPerBlob, Blob, PipelineAssumption
  <2>2. fault[job[w]] = "none"
    BY <2>1 DEF PipelineInv, PipelineTypeOK, Faults
  <2>3. QED
    BY <1>1, <1>3, <2>2, SendKeepsInv DEF Encode, Outcomes
<1>4. CASE EncodeFails(w)
  BY <1>1, <1>4, SendKeepsInv DEF EncodeFails, Outcomes
<1>5. QED
  BY <1>2, <1>3, <1>4, ReceiveKeepsInv, FetchKeepsInv, ExitKeepsInv DEF Work

\* WriteTo empties the next result channel, whether it writes or gives up.
LEMMA DrainKeepsInv == PipelineInv /\ (Take \/ GiveUp) => PipelineInv'
<1> SUFFICES ASSUME PipelineInv, Take \/ GiveUp PROVE PipelineInv'
  OBVIOUS
<1> USE DEF PipelineInv
<1>0. PICK i \in Blob : i = taken + 1
  BY PipelineAssumption DEF Take, GiveUp, Draining, PipelineTypeOK, Blob, PipelineAssumption
<1>1. PipelineTypeOK'
  BY TypeStep DEF PipelineNext
<1>2. /\ result[i] # "empty" /\ result'[i] = "empty"
      /\ \A j \in Blob \ {i} : result'[j] = result[j]
      /\ UNCHANGED <<fault, sent, jobs, closed, pc, job>>
  BY <1>0 DEF Take, GiveUp, PipelineTypeOK
<1>3. /\ taken \in Nat /\ failedAt = 0
      /\ \/ taken' = i /\ failedAt' = 0
         \/ taken' = taken /\ failedAt' = i
  BY <1>0, PipelineAssumption DEF Take, GiveUp, Draining, PipelineTypeOK, PipelineAssumption
<1>4. Consumed(i)' /\ \A j \in Blob \ {i} : Consumed(j)' <=> Consumed(j)
  BY <1>0, <1>3 DEF Consumed, Blob
<1>5. EveryBlobAccounted'
  <2> SUFFICES ASSUME NEW j \in Blob PROVE Accounted(j)'
    BY DEF EveryBlobAccounted
  <2>1. Accounted(j) /\ (Held(j)' <=> Held(j)) /\ (j > Received)' = (j > Received)
    BY <1>2 DEF EveryBlobAccounted, Held, Received
  <2>2. CASE j = i
    BY <1>2, <1>4, <2>1, <2>2 DEF Accounted
  <2>3. CASE j # i
    BY <1>2, <1>4, <2>1, <2>3 DEF Accounted
  <2>4. QED
    BY <2>2, <2>3
<1>6. OutcomeIsOwn'
  BY <1>2 DEF OutcomeIsOwn
<1>7. ChannelInOrder' /\ OneWorkerPerBlob'
  BY <1>2 DEF ChannelInOrder, OneWorkerPerBlob, Received
<1>8. StopsWhereItFailed'
  BY <1>0, <1>3 DEF StopsWhereItFailed
<1>9. QED
  BY <1>1, <1>2, <1>5, <1>6, <1>7, <1>8

LEMMA InvStep == PipelineInv /\ [PipelineNext]_pipelineVars => PipelineInv'
<1> SUFFICES ASSUME PipelineInv, [PipelineNext]_pipelineVars PROVE PipelineInv'
  OBVIOUS
<1>1. CASE PipelineNext
  BY <1>1, DispatchKeepsInv, CloseKeepsInv, WorkKeepsInv, DrainKeepsInv
     DEF PipelineNext, Goroutines
<1>2. CASE UNCHANGED pipelineVars
  <2>1. PipelineTypeOK'
    BY TypeStep DEF PipelineInv
  <2>2. QED
    BY <1>2, <2>1 DEF pipelineVars, PipelineInv, ChannelInOrder, OneWorkerPerBlob, OutcomeIsOwn,
         EveryBlobAccounted, Accounted, StopsWhereItFailed, Received, Held, Consumed
<1>3. QED
  BY <1>1, <1>2

LEMMA InvHolds == PipelineSpec => []PipelineInv
BY InvInit, InvStep, PTL DEF PipelineSpec
-----------------------------------------------------------------------------
(* The theorems.                                                           *)

\* Of every blob whose index left the channel exactly one of these is true: a
\* worker has it, its outcome waits, WriteTo has consumed it.  No blob is lost
\* and none is encoded twice.
THEOREM BlobsAccounted == PipelineSpec => []EveryBlobAccounted
<1>1. PipelineInv => EveryBlobAccounted
  BY DEF PipelineInv
<1>2. QED
  BY <1>1, InvHolds, PTL

\* When the drain loop has finished, the dispatcher has sent everything, the
\* channel is empty and no worker holds an index: nobody reads bt.Entries.
LEMMA DrainedQuiescent == PipelineInv => DrainedMeansQuiescent
<1> SUFFICES ASSUME PipelineInv, taken = NumBlobs PROVE Quiescent
  BY DEF DrainedMeansQuiescent
<1> USE DEF PipelineInv
<1>1. /\ NumBlobs \in Nat /\ sent \in 0 .. NumBlobs /\ jobs \in Seq(Blob)
      /\ Len(jobs) \in Nat /\ Len(jobs) <= sent
  BY PipelineAssumption DEF PipelineTypeOK, PipelineAssumption
<1>2. \A i \in Blob : Consumed(i)
  BY <1>1 DEF Consumed, Blob
<1>3. \A i \in Blob : i <= Received /\ ~Held(i)
  BY <1>1, <1>2 DEF EveryBlobAccounted, Accounted, Received, Blob
<1>4. Received = NumBlobs
  <2>1. CASE NumBlobs = 0
    BY <1>1, <2>1 DEF Received
  <2>2. CASE NumBlobs > 0
    BY <1>1, <1>3, <2>2 DEF Received, Blob
  <2>3. QED
    BY <1>1, <2>1, <2>2
<1>5. sent = NumBlobs /\ Len(jobs) = 0
  BY <1>1, <1>4 DEF Received
<1>6. jobs = <<>>
  BY <1>1, <1>5
<1>7. \A w \in Workers : job[w] = 0
  BY <1>1, <1>3 DEF Held, Blob, PipelineTypeOK
<1>8. QED
  BY <1>5, <1>6, <1>7 DEF Quiescent

THEOREM DrainedIsQuiescent == PipelineSpec => []DrainedMeansQuiescent
BY InvHolds, DrainedQuiescent, PTL

\* The goroutines are invisible: WriteTo writes the prefix, and blames the blob,
\* that the serial loop over bt.Entries would.
THEOREM Refinement == PipelineSpec => ImplementsSerialLoop
<1>1. PipelineInit => Serial!Init
  BY DEF PipelineInit, Serial!Init, Serial!Blob, Serial!Faults, Blob, Faults
<1>2. PipelineInv /\ [PipelineNext]_pipelineVars => [Serial!Next]_(Serial!serialVars)
  <2> SUFFICES ASSUME PipelineInv, [PipelineNext]_pipelineVars
               PROVE  [Serial!Next]_(Serial!serialVars)
    OBVIOUS
  <2>1. CASE Take
    <3>1. Draining /\ result[taken + 1] = "ok" /\ taken + 1 \in Blob
      BY <2>1, PipelineAssumption
         DEF Take, Draining, PipelineInv, PipelineTypeOK, Blob, PipelineAssumption
    <3>2. fault[taken + 1] = "none"
      BY <3>1 DEF PipelineInv, OutcomeIsOwn, PipelineTypeOK, Faults
    <3>3. Serial!WriteNext
      BY <2>1, <3>1, <3>2 DEF Take, Draining, Serial!WriteNext
    <3>4. QED
      BY <3>3 DEF Serial!Next
  <2>2. CASE GiveUp
    BY <2>2 DEF GiveUp, Draining, Serial!FailNext, Serial!Next
  <2>3. CASE Goroutines \/ UNCHANGED pipelineVars
    BY <2>3 DEF Goroutines, Work, Dispatch, CloseJobs, Receive, Fetch, FetchFails, Encode,
                EncodeFails, Send, Exit, pipelineVars, Serial!serialVars
  <2>4. QED
    BY <2>1, <2>2, <2>3 DEF PipelineNext
<1>3. QED
  BY <1>1, <1>2, InvHolds, PTL DEF PipelineSpec, ImplementsSerialLoop, Serial!Spec

-----------------------------------------------------------------------------
(* The writer.                                                             *)

LEMMA PayloadLengths ==
  /\ \A i \in Blob : Len(BlobPayload(i)) = BlobLen[i] /\ BlobLen[i] \in Nat
  /\ \A j \in Image : Len(MetaPayload(j)) = MetaLen[j] /\ MetaLen[j] \in Nat
<1>1. ASSUME NEW r, NEW n \in Nat PROVE Len(Units(r, n)) = n
  <2>1. [k \in 1 .. n |-> <<r, k>>] \in Seq({r} \X Nat)
    OBVIOUS
  <2>2. QED
    BY <2>1 DEF Units
<1>2. /\ \A i \in Blob : BlobLen[i] \in Nat
      /\ \A j \in Image : MetaLen[j] \in Nat
  BY WriterAssumption DEF WriterAssumption, Image
<1>3. QED
  BY <1>1, <1>2 DEF BlobPayload, MetaPayload

\* What every step of the writer does to the goroutines is a step of the
\* pipeline, or nothing.
LEMMA StepOfPipeline == [Next]_vars => [PipelineNext]_pipelineVars
<1> SUFFICES ASSUME [Next]_vars PROVE [PipelineNext]_pipelineVars
  OBVIOUS
<1>1. CASE Feed
  BY <1>1 DEF Feed, PipelineNext, Goroutines
<1>2. ASSUME NEW w \in Workers, Labour(w) PROVE [PipelineNext]_pipelineVars
  BY <1>2 DEF Labour, PipelineNext, Goroutines
<1>3. CASE WriteBlob \/ BlobFails
  BY <1>3 DEF WriteBlob, BlobFails, PipelineNext
<1>4. CASE WriterStep /\ ~(WriteBlob \/ BlobFails)
  BY <1>4 DEF WriterStep, RejectArguments, WritePlaceholder, PlaceholderFails, BlobsDone,
              WriteImage, ImageFails, ImagesDone, WriteTable, WriteXML, WriteIntegrity,
              SkipIntegrity, TailFails, PatchHeader, PatchFails, SeekEnd
<1>5. CASE UNCHANGED vars
  BY <1>5 DEF vars
<1>6. QED
  BY <1>1, <1>2, <1>3, <1>4, <1>5 DEF Next

LEMMA WriterRunsPipeline == Spec => PipelineSpec
<1>1. Init => PipelineInit
  BY DEF Init
<1>2. QED
  BY <1>1, StepOfPipeline, PTL DEF Spec, PipelineSpec

\* In the whole writer, too, no blob is lost and none is encoded twice.
THEOREM WriterBlobsAccounted == Spec => []EveryBlobAccounted
BY WriterRunsPipeline, BlobsAccounted, PTL

\* The content blobs of the file, and the blob an error blames, are those of
\* the serial loop over bt.Entries.
THEOREM WriterIsSerial == Spec => ImplementsSerialLoop
BY WriterRunsPipeline, Refinement, PTL
-----------------------------------------------------------------------------
(* Types, and the drain loop's place in WriteTo.                           *)

WriterInv == TypeOK /\ DrainsFirst

LEMMA WriterInvInit == Init => WriterInv
<1> SUFFICES ASSUME Init PROVE WriterInv
  OBVIOUS
<1>0. NumImages \in Nat /\ NumBlobs \in Nat /\ NoRes \in Extents
  BY WriterAssumption, PipelineAssumption DEF WriterAssumption, PipelineAssumption, NoRes, Extents
<1>1. PipelineTypeOK
  BY TypeInit DEF Init
<1>2. entries \in Seq(Entries) /\ Len(entries) = NumBlobs
  <2>1. entries \in [1 .. NumBlobs -> Entries]
    BY <1>0 DEF Init, Blob, Entries
  <2>2. QED
    BY <1>0, <2>1
<1>3. NoDraft \in Drafts
  BY <1>0 DEF NoDraft, Drafts
<1>4. header \in Headers /\ draft \in Drafts
  BY <1>0, <1>3 DEF Init, Headers, HeaderStates
<1>5. stage = "start" /\ imageIdx = 0 /\ offset = 0
  BY DEF Init
<1>6. bootIndex \in 0 .. NumImages + 1 /\ wantTable \in BOOLEAN /\ launched \in BOOLEAN
  BY DEF Init
<1>7. DrainsFirst
  BY <1>2, <1>5 DEF DrainsFirst, PastDrain
<1>8. stage \in Stages /\ imageIdx \in 0 .. NumImages /\ offset \in Nat
  BY <1>0, <1>5 DEF Stages
<1>9. QED
  BY <1>1, <1>2, <1>4, <1>6, <1>7, <1>8 DEF WriterInv, TypeOK
-----------------------------------------------------------------------------
\* A resource header for n units at the running offset.
LEMMA ResInExtents ==
  ASSUME offset \in Nat, NEW n \in Nat PROVE Res(n) \in Extents
BY DEF Res, Extents

\* Overwriting one entry's resource header changes neither the type nor the length.
LEMMA PatchEntry ==
  ASSUME entries \in Seq(Entries), NEW i \in 1 .. Len(entries), NEW r \in Extents
  PROVE  /\ [entries EXCEPT ![i].res = r] \in Seq(Entries)
         /\ Len([entries EXCEPT ![i].res = r]) = Len(entries)
<1> DEFINE e == [entries[i] EXCEPT !.res = r]
<1>1. entries[i] \in Entries
  OBVIOUS
<1>2. e \in Entries
  BY <1>1 DEF Entries
<1>3. [entries EXCEPT ![i].res = r] = [entries EXCEPT ![i] = e]
  OBVIOUS
<1>4. QED
  BY <1>2, <1>3, ExceptSeq

\* Nothing but WriteImage changes the length of bt.Entries.
LEMMA WriterInvStep == WriterInv /\ [Next]_vars => WriterInv'
<1> SUFFICES ASSUME WriterInv, [Next]_vars PROVE WriterInv'
  OBVIOUS
<1> USE DEF WriterInv
<1>0. PipelineTypeOK'
  BY StepOfPipeline, TypeStep DEF TypeOK
<1>1. NumImages \in Nat /\ NumBlobs \in Nat
  BY WriterAssumption, PipelineAssumption DEF WriterAssumption, PipelineAssumption
<1>2. CASE Feed \/ \E w \in Workers : Labour(w)
  <2>1. UNCHANGED <<writerVars, taken>>
    BY <1>2 DEF Feed, Labour, Dispatch, CloseJobs, Work, Receive, Fetch, FetchFails, Encode,
                EncodeFails, Exit, Send
  <2>2. QED
    BY <1>0, <2>1 DEF TypeOK, DrainsFirst, writerVars, inputVars
<1>3. CASE WriteBlob
  <2>1. PICK i \in Blob : i = taken + 1
    BY <1>1, <1>3 DEF WriteBlob, Take, Draining, TypeOK, PipelineTypeOK, Blob
  <2>2. /\ stage = "blobs" /\ stage' = "blobs"
        /\ offset' = offset + BlobLen[i] /\ BlobLen[i] \in Nat
        /\ entries' = [entries EXCEPT ![i].res = Res(BlobLen[i])]
        /\ UNCHANGED <<inputVars, launched, imageIdx, header, draft>>
    BY <1>3, <2>1, PayloadLengths DEF WriteBlob, WriteAll
  <2>3. entries' \in Seq(Entries) /\ Len(entries') = NumBlobs
    BY <2>2, PatchEntry, ResInExtents DEF TypeOK, DrainsFirst, Blob
  <2>4. QED
    BY <1>0, <2>2, <2>3 DEF TypeOK, DrainsFirst, PastDrain, inputVars
<1>4. CASE WriteImage
  <2>1. PICK j \in Image : j = imageIdx + 1
    BY <1>1, <1>4 DEF WriteImage, TypeOK, Image
  <2> DEFINE e == [hash |-> <<"meta", j>>, meta |-> TRUE, res |-> Res(MetaLen[j])]
  <2>2. /\ stage = "images" /\ stage' = "images" /\ imageIdx' = j
        /\ offset' = offset + MetaLen[j] /\ MetaLen[j] \in Nat
        /\ entries' = Append(entries, e)
        /\ draft' \in {draft, [draft EXCEPT !.boot = Res(MetaLen[j])]}
        /\ UNCHANGED <<inputVars, launched, header, pipelineVars>>
    BY <1>4, <2>1, PayloadLengths DEF WriteImage, WriteAll
  <2>3. Res(MetaLen[j]) \in Extents
    BY <2>2, ResInExtents DEF TypeOK
  <2>4. entries' \in Seq(Entries)
    <3>1. e \in Entries
      BY <2>3 DEF Entries, Image
    <3>2. QED
      BY <2>2, <3>1 DEF TypeOK
  <2>5. draft' \in Drafts
    BY <2>2, <2>3 DEF TypeOK, Drafts
  <2>6. QED
    BY <1>0, <1>1, <2>2, <2>4, <2>5
       DEF TypeOK, DrainsFirst, PastDrain, inputVars, pipelineVars, Image
<1>5. CASE WriteTable \/ WriteXML \/ WriteIntegrity
  <2>1. Res(1) \in Extents
    BY ResInExtents DEF TypeOK
  <2>2. /\ stage \in PastDrain /\ stage' \in PastDrain
        /\ UNCHANGED <<inputVars, launched, imageIdx, header, entries, pipelineVars>>
    BY <1>5 DEF WriteTable, WriteXML, WriteIntegrity, PastDrain
  <2>3. offset' = offset + 1
    BY <1>5 DEF WriteTable, WriteXML, WriteIntegrity, WriteAll, TablePayload, XMLPayload,
                IntegrityPayload
  <2>4. draft' \in Drafts
    BY <1>5, <2>1 DEF WriteTable, WriteXML, WriteIntegrity, TypeOK, Drafts
  <2>5. QED
    BY <1>0, <2>2, <2>3, <2>4
       DEF TypeOK, DrainsFirst, PastDrain, Stages, inputVars, pipelineVars
<1>6. CASE WritePlaceholder \/ PlaceholderFails \/ PatchHeader \/ PatchFails
  <2>1. /\ stage' \in {"blobs", "failed", "seekEnd"}
        /\ stage' = "blobs" => stage = "start"
        /\ stage' = "seekEnd" => stage = "header"
        /\ launched' \in BOOLEAN
        /\ UNCHANGED <<inputVars, imageIdx, entries, offset, draft, pipelineVars>>
    BY <1>6 DEF WritePlaceholder, PlaceholderFails, PatchHeader, PatchFails, TypeOK
  <2>2. header' \in Headers
    BY <1>1, <1>6 DEF WritePlaceholder, PlaceholderFails, PatchHeader, PatchFails, TypeOK,
                      Headers, HeaderStates
  <2>3. QED
    BY <1>0, <2>1, <2>2 DEF TypeOK, DrainsFirst, PastDrain, Stages, inputVars, pipelineVars
<1>7. CASE RejectArguments \/ BlobFails \/ ImageFails \/ TailFails
  <2>1. /\ stage' = "failed"
        /\ UNCHANGED <<inputVars, launched, imageIdx, entries, header, offset, draft>>
    BY <1>7 DEF RejectArguments, BlobFails, ImageFails, TailFails, Return, WriteFails
  <2>2. QED
    BY <1>0, <2>1 DEF TypeOK, DrainsFirst, PastDrain, Stages, inputVars
<1>8. CASE BlobsDone \/ ImagesDone \/ SkipIntegrity \/ SeekEnd
  <2>1. /\ stage' \in Stages /\ stage' \notin {"start", "blobs"}
        /\ stage \in PastDrain \/ taken = NumBlobs
        /\ UNCHANGED <<pipelineVars, inputVars, launched, imageIdx, entries, header, offset,
                       draft>>
    BY <1>8 DEF BlobsDone, ImagesDone, SkipIntegrity, SeekEnd, PastDrain, Stages
  <2>2. QED
    BY <1>0, <2>1 DEF TypeOK, DrainsFirst, PastDrain, inputVars, pipelineVars
<1>9. CASE UNCHANGED vars
  BY <1>0, <1>9 DEF vars, writerVars, inputVars, pipelineVars, TypeOK, DrainsFirst
<1>10. QED
  BY <1>2, <1>3, <1>4, <1>5, <1>6, <1>7, <1>8, <1>9 DEF Next, WriterStep

LEMMA WriterInvHolds == Spec => []WriterInv
BY WriterInvInit, WriterInvStep, PTL DEF Spec

\* Every variable of the writer keeps its type.
THEOREM WriterTypeCorrect == Spec => []TypeOK
<1>1. WriterInv => TypeOK
  BY DEF WriterInv
<1>2. QED
  BY <1>1, WriterInvHolds, PTL

\* bt.Entries grows only while no goroutine of the pipeline can read it.
THEOREM NoReaderWhenGrowing == Spec => GrowsOnlyWhenQuiescent
<1>1. WriterInv /\ DrainedMeansQuiescent /\ [Next]_vars
        => [Len(entries') # Len(entries) => Quiescent]_vars
  <2> SUFFICES ASSUME WriterInv, DrainedMeansQuiescent, Next, Len(entries') # Len(entries)
               PROVE  Quiescent
    OBVIOUS
  <2>1. CASE WriteImage
    BY <2>1 DEF WriteImage, WriterInv, DrainsFirst, PastDrain, DrainedMeansQuiescent
  <2>2. CASE WriteBlob
    <3>1. stage = "blobs" /\ Len(entries) = NumBlobs
      BY <2>2 DEF WriteBlob, WriterInv, DrainsFirst
    <3>2. stage' = "blobs" /\ WriterInv'
      BY <2>2, WriterInvStep DEF WriteBlob
    <3>3. QED
      BY <3>1, <3>2 DEF WriterInv, DrainsFirst
  <2>3. CASE Feed \/ \E w \in Workers : Labour(w)
    BY <2>3 DEF Feed, Labour, writerVars
  <2>4. CASE WriterStep /\ ~WriteImage /\ ~WriteBlob
    BY <2>4 DEF WriterStep, RejectArguments, WritePlaceholder, PlaceholderFails, BlobFails,
                BlobsDone, ImageFails, ImagesDone, WriteTable, WriteXML, WriteIntegrity,
                SkipIntegrity, TailFails, PatchHeader, PatchFails, SeekEnd, Return, WriteFails
  <2>5. QED
    BY <2>1, <2>2, <2>3, <2>4 DEF Next
<1>2. PipelineSpec => []DrainedMeansQuiescent
  BY DrainedIsQuiescent
<1>3. QED
  BY <1>1, <1>2, WriterRunsPipeline, WriterInvHolds, PTL DEF Spec, GrowsOnlyWhenQuiescent
-----------------------------------------------------------------------------
(* The header goes in last.  A payload lies at a place of the file from the *)
(* step that writes it on, because the file only grows.                     *)

IsSequence(s) == \E S : s \in Seq(S)

LiesAt(file, res, p) ==
  /\ res.off \in Nat /\ res.len = Len(p) /\ res.off + Len(p) <= Len(file)
  /\ \A k \in 1 .. Len(p) : file[res.off + k] = p[k]

LEMMA JoinedSequence ==
  ASSUME NEW f, NEW p, IsSequence(f), IsSequence(p)
  PROVE  /\ IsSequence(f \o p) /\ Len(f) \in Nat /\ Len(p) \in Nat
         /\ Len(f \o p) = Len(f) + Len(p)
         /\ \A k \in 1 .. Len(f) : (f \o p)[k] = f[k]
         /\ \A k \in 1 .. Len(p) : (f \o p)[Len(f) + k] = p[k]
<1>1. PICK S : f \in Seq(S)
  BY DEF IsSequence
<1>2. PICK T : p \in Seq(T)
  BY DEF IsSequence
<1>3. f \in Seq(S \cup T) /\ p \in Seq(S \cup T)
  BY <1>1, <1>2
<1>4. f \o p \in Seq(S \cup T)
  BY <1>3
<1>5. QED
  BY <1>3, <1>4 DEF IsSequence

LEMMA LiesAtGrows ==
  ASSUME NEW f, NEW p, NEW res, NEW q, IsSequence(f), IsSequence(p), IsSequence(q),
         LiesAt(f, res, q)
  PROVE  LiesAt(f \o p, res, q)
<1>1. Len(q) \in Nat
  BY DEF IsSequence
<1>2. QED
  BY <1>1, JoinedSequence DEF LiesAt

LEMMA LiesAtEnd ==
  ASSUME NEW f, NEW p, IsSequence(f), IsSequence(p)
  PROVE  LiesAt(f \o p, [off |-> Len(f), len |-> Len(p)], p)
BY JoinedSequence DEF LiesAt

LEMMA ReadBack ==
  ASSUME NEW res, NEW p, IsSequence(body), IsSequence(p), LiesAt(body, res, p)
  PROVE  Extent(res) = p
<1>1. PICK S : body \in Seq(S)
  BY DEF IsSequence
<1>2. PICK T : p \in Seq(T)
  BY DEF IsSequence
<1>3. p \in Seq(S)
  <2>1. ASSUME NEW k \in 1 .. Len(p) PROVE p[k] \in S
    BY <1>1, <1>2 DEF LiesAt
  <2>2. QED
    BY <1>2, <2>1
<1>4. /\ Extent(res) \in Seq(S) /\ Len(Extent(res)) = Len(p)
      /\ \A k \in 1 .. Len(p) : Extent(res)[k] = body[res.off + k]
  <2> DEFINE m == res.off + 1
             n == res.off + Len(p)
  <2>1. /\ m \in 1 .. Len(body) + 1 /\ n \in m - 1 .. Len(body) /\ n - m + 1 = Len(p)
        /\ res.off \in Nat /\ Len(p) \in Nat /\ Extent(res) = SubSeq(body, m, n)
    BY <1>1, <1>2 DEF Extent, LiesAt
  <2>2. /\ SubSeq(body, m, n) \in Seq(S) /\ Len(SubSeq(body, m, n)) = n - m + 1
        /\ \A k \in 1 .. n - m + 1 : SubSeq(body, m, n)[k] = body[m + k - 1]
    <3> HIDE DEF m, n
    <3>1. QED
      BY <1>1, <2>1, SubSeqProperties
  <2>3. \A k \in 1 .. Len(p) : m + k - 1 = res.off + k
    BY <2>1
  <2>4. QED
    BY <2>1, <2>2, <2>3
<1>5. QED
  BY <1>3, <1>4, SeqEqual DEF LiesAt

LEMMA PayloadSequences ==
  /\ \A i \in Blob : IsSequence(BlobPayload(i))
  /\ \A j \in Image : IsSequence(MetaPayload(j))
  /\ \A ents : IsSequence(TablePayload(ents)) /\ Len(TablePayload(ents)) = 1
  /\ IsSequence(XMLPayload) /\ Len(XMLPayload) = 1
  /\ \A h : IsSequence(IntegrityPayload(h)) /\ Len(IntegrityPayload(h)) = 1
<1>1. ASSUME NEW r, NEW n \in Nat PROVE IsSequence(Units(r, n))
  <2>1. Units(r, n) \in Seq({r} \X Nat)
    BY DEF Units
  <2>2. QED
    BY <2>1 DEF IsSequence
<1>2. ASSUME NEW u PROVE IsSequence(<<u>>) /\ Len(<<u>>) = 1
  <2>1. <<u>> \in Seq({u})
    OBVIOUS
  <2>2. QED
    BY <2>1 DEF IsSequence
<1>3. QED
  BY <1>1, <1>2, PayloadLengths
     DEF BlobPayload, MetaPayload, TablePayload, XMLPayload, IntegrityPayload
-----------------------------------------------------------------------------
(* The inductive invariant: while WriteTo has not failed, its offset is the *)
(* end of the file, everything recorded so far lies where it was recorded,  *)
(* and the header is still the placeholder.                                 *)

EntriesDone ==
  /\ Len(entries) = NumBlobs + imageIdx
  /\ \A i \in Blob :
       /\ entries[i].hash = <<"blob", i>> /\ ~entries[i].meta
       /\ i <= taken => LiesAt(body, entries[i].res, BlobPayload(i))
  /\ \A j \in 1 .. imageIdx :
       /\ entries[NumBlobs + j].meta
       /\ LiesAt(body, entries[NumBlobs + j].res, MetaPayload(j))

DraftDone ==
  /\ bootIndex \in 1 .. imageIdx => LiesAt(body, draft.boot, MetaPayload(bootIndex))
  /\ stage \in {"table", "xml", "integrity", "header"} => imageIdx = NumImages
  /\ stage \in {"xml", "integrity", "header"} => LiesAt(body, draft.table, TablePayload(entries))
  /\ stage \in {"integrity", "header"} => LiesAt(body, draft.xml, XMLPayload)

Laying == {"start", "blobs", "images", "table", "xml", "integrity", "header"}

FileInv ==
  /\ IsSequence(body)
  /\ stage \in Laying => offset = Len(body) /\ EntriesDone /\ DraftDone /\ ~Patched
  /\ stage \in Laying \ {"start"} => bootIndex <= NumImages
  /\ stage = "start" \/ stage = "blobs" => imageIdx = 0
  /\ stage = "start" => taken = 0
  /\ HeaderMeansComplete

HeaderInv == WriterInv /\ FileInv

LEMMA HeaderInvInit == Init => HeaderInv
<1> SUFFICES ASSUME Init PROVE HeaderInv
  OBVIOUS
<1> USE DEF Init
<1>1. WriterInv /\ NumBlobs \in Nat
  BY WriterInvInit, PipelineAssumption DEF PipelineAssumption
<1>2. IsSequence(body) /\ Len(body) = 0
  <2>1. <<>> \in Seq({})
    BY EmptySeq
  <2>2. QED
    BY <2>1 DEF IsSequence
<1>3. EntriesDone
  <2>1. Len(entries) = NumBlobs + imageIdx
    BY <1>1 DEF WriterInv, DrainsFirst
  <2>2. \A i \in Blob : entries[i].hash = <<"blob", i>> /\ ~entries[i].meta
    OBVIOUS
  <2>3. \A i \in Blob : ~(i <= taken)
    BY <1>1 DEF PipelineInit, Blob
  <2>4. QED
    BY <2>1, <2>2, <2>3 DEF EntriesDone
<1>4. DraftDone
  BY DEF DraftDone
<1>5. ~Patched
  BY DEF Patched
<1>6. QED
  BY <1>1, <1>2, <1>3, <1>4, <1>5 DEF HeaderInv, FileInv, HeaderMeansComplete, PipelineInit

\* What lies in the file still does after a write of p, and p itself lies where
\* the offset pointed.
LEMMA WriteKeepsFile ==
  ASSUME HeaderInv, NEW p, IsSequence(p), WriteAll(p), stage \in Laying
  PROVE  /\ IsSequence(body') /\ offset' = Len(body')
         /\ \A res, q : IsSequence(q) /\ LiesAt(body, res, q) => LiesAt(body', res, q)
         /\ LiesAt(body', Res(Len(p)), p)
<1>1. body' = body \o p /\ offset' = offset + Len(p) /\ offset = Len(body) /\ IsSequence(body)
  BY DEF WriteAll, HeaderInv, FileInv
<1>2. IsSequence(body') /\ offset' = Len(body')
  BY <1>1, JoinedSequence
<1>3. \A res, q : IsSequence(q) /\ LiesAt(body, res, q) => LiesAt(body', res, q)
  BY <1>1, LiesAtGrows
<1>4. LiesAt(body', Res(Len(p)), p)
  BY <1>1, LiesAtEnd DEF Res
<1>5. QED
  BY <1>2, <1>3, <1>4

LEMMA WriteBlobKeepsFile == HeaderInv /\ WriteBlob => FileInv'
<1> SUFFICES ASSUME HeaderInv, WriteBlob PROVE FileInv'
  OBVIOUS
<1>1. PICK i \in Blob : i = taken + 1
  BY PipelineAssumption
     DEF WriteBlob, Take, Draining, HeaderInv, WriterInv, TypeOK, PipelineTypeOK, Blob,
         PipelineAssumption
<1>2. /\ stage = "blobs" /\ stage' = "blobs" /\ taken' = i
      /\ WriteAll(BlobPayload(i)) /\ Len(BlobPayload(i)) = BlobLen[i]
      /\ entries' = [entries EXCEPT ![i].res = Res(BlobLen[i])]
      /\ UNCHANGED <<inputVars, imageIdx, header, draft>>
  BY <1>1, PayloadLengths DEF WriteBlob, Take
<1>3. /\ EntriesDone /\ imageIdx = 0 /\ ~Patched /\ bootIndex <= NumImages
      /\ entries \in Seq(Entries) /\ Len(entries) = NumBlobs /\ NumBlobs \in Nat /\ taken \in Nat
  BY <1>2, PipelineAssumption
     DEF HeaderInv, FileInv, WriterInv, TypeOK, PipelineTypeOK, DrainsFirst, Laying,
         PipelineAssumption
<1>4. /\ IsSequence(body') /\ offset' = Len(body')
      /\ \A res, q : IsSequence(q) /\ LiesAt(body, res, q) => LiesAt(body', res, q)
      /\ LiesAt(body', Res(BlobLen[i]), BlobPayload(i))
  BY <1>2, WriteKeepsFile, PayloadSequences DEF Laying
<1>5. /\ Len(entries') = Len(entries)
      /\ entries'[i].res = Res(BlobLen[i])
      /\ entries'[i].hash = entries[i].hash /\ entries'[i].meta = entries[i].meta
      /\ \A j \in Blob \ {i} : entries'[j] = entries[j]
  <2>1. Res(BlobLen[i]) \in Extents
    BY ResInExtents, PayloadLengths DEF HeaderInv, WriterInv, TypeOK
  <2>2. i \in 1 .. Len(entries)
    BY <1>3 DEF Blob
  <2>3. Len(entries') = Len(entries)
    BY <1>2, <1>3, <2>1, <2>2, PatchEntry
  <2>4. entries[i] \in Entries
    BY <1>3, <2>2
  <2>5. QED
    BY <1>2, <1>3, <2>2, <2>3, <2>4 DEF Entries, Blob
<1>6. EntriesDone'
  <2>1. ASSUME NEW j \in Blob
        PROVE  /\ entries'[j].hash = <<"blob", j>> /\ ~entries'[j].meta
               /\ j <= taken' => LiesAt(body', entries'[j].res, BlobPayload(j))
    <3>1. CASE j = i
      BY <1>2, <1>3, <1>4, <1>5, <3>1 DEF EntriesDone
    <3>2. CASE j # i
      <4>1. j <= taken' => j <= taken
        BY <1>1, <1>2, <1>3, <3>2 DEF Blob
      <4>2. QED
        BY <1>3, <1>4, <1>5, <3>2, <4>1, PayloadSequences DEF EntriesDone
    <3>3. QED
      BY <3>1, <3>2
  <2>2. QED
    BY <1>2, <1>3, <1>5, <2>1 DEF EntriesDone
<1>7. DraftDone' /\ HeaderMeansComplete' /\ ~Patched'
  BY <1>2, <1>3 DEF DraftDone, HeaderMeansComplete, Patched, inputVars
<1>8. QED
  BY <1>2, <1>3, <1>4, <1>6, <1>7 DEF FileInv, inputVars

LEMMA WriteImageKeepsFile == HeaderInv /\ WriteImage => FileInv'
<1> SUFFICES ASSUME HeaderInv, WriteImage PROVE FileInv'
  OBVIOUS
<1>1. PICK j \in Image : j = imageIdx + 1
  BY WriterAssumption DEF WriteImage, HeaderInv, WriterInv, TypeOK, Image, WriterAssumption
<1> DEFINE e == [hash |-> <<"meta", j>>, meta |-> TRUE, res |-> Res(MetaLen[j])]
<1>2. /\ stage = "images" /\ stage' = "images" /\ imageIdx' = j
      /\ WriteAll(MetaPayload(j)) /\ Len(MetaPayload(j)) = MetaLen[j]
      /\ entries' = Append(entries, e)
      /\ draft' = IF bootIndex = j THEN [draft EXCEPT !.boot = Res(MetaLen[j])] ELSE draft
      /\ UNCHANGED <<inputVars, header, pipelineVars>>
  BY <1>1, PayloadLengths DEF WriteImage
<1>3. /\ EntriesDone /\ DraftDone /\ ~Patched /\ bootIndex <= NumImages
      /\ entries \in Seq(Entries) /\ NumBlobs \in Nat /\ imageIdx \in Nat
      /\ bootIndex \in Nat /\ draft \in Drafts
  BY <1>2, PipelineAssumption
     DEF HeaderInv, FileInv, WriterInv, TypeOK, Laying, PipelineAssumption
<1>4. /\ IsSequence(body') /\ offset' = Len(body')
      /\ \A res, q : IsSequence(q) /\ LiesAt(body, res, q) => LiesAt(body', res, q)
      /\ LiesAt(body', Res(MetaLen[j]), MetaPayload(j))
  BY <1>2, WriteKeepsFile, PayloadSequences DEF Laying
<1>5. /\ Len(entries) = NumBlobs + imageIdx /\ Len(entries') = NumBlobs + j
      /\ entries'[NumBlobs + j] = e
      /\ \A k \in 1 .. Len(entries) : entries'[k] = entries[k]
  <2>1. Len(entries) = NumBlobs + imageIdx
    BY <1>3 DEF EntriesDone
  <2> HIDE DEF e
  <2>2. /\ Len(entries') = Len(entries) + 1 /\ entries'[Len(entries) + 1] = e
        /\ \A k \in 1 .. Len(entries) : entries'[k] = entries[k]
    BY <1>2, <1>3
  <2>3. QED
    BY <1>1, <1>3, <2>1, <2>2
<1>6. EntriesDone'
  <2>1. ASSUME NEW i \in Blob
        PROVE  /\ entries'[i].hash = <<"blob", i>> /\ ~entries'[i].meta
               /\ i <= taken' => LiesAt(body', entries'[i].res, BlobPayload(i))
    <3>1. entries'[i] = entries[i] /\ taken' = taken
      BY <1>2, <1>3, <1>5 DEF Blob, pipelineVars
    <3>2. QED
      BY <1>3, <1>4, <3>1, PayloadSequences DEF EntriesDone
  <2>2. ASSUME NEW k \in 1 .. j
        PROVE  /\ entries'[NumBlobs + k].meta
               /\ LiesAt(body', entries'[NumBlobs + k].res, MetaPayload(k))
    <3>1. CASE k = j
      BY <1>4, <1>5, <3>1
    <3>2. CASE k \in 1 .. imageIdx
      <4>0. NumBlobs + k \in 1 .. Len(entries) /\ k \in Image
        BY <1>1, <1>3, <1>5, <3>2, WriterAssumption DEF Image, WriterAssumption
      <4>1. entries'[NumBlobs + k] = entries[NumBlobs + k]
        <5> HIDE DEF e
        <5>1. QED
          BY <1>5, <4>0
      <4>2. QED
        BY <1>3, <1>4, <3>2, <4>0, <4>1, PayloadSequences DEF EntriesDone
    <3>3. QED
      BY <1>1, <1>3, <3>1, <3>2
  <2>3. QED
    BY <1>2, <1>5, <2>1, <2>2 DEF EntriesDone
<1>7. DraftDone'
  <2>1. ASSUME bootIndex' \in 1 .. imageIdx'
        PROVE  LiesAt(body', draft'.boot, MetaPayload(bootIndex'))
    <3>1. bootIndex' = bootIndex /\ bootIndex \in 1 .. j
      BY <1>2, <2>1 DEF inputVars
    <3>2. CASE bootIndex = j
      <4>1. draft'.boot = Res(MetaLen[j])
        BY <1>2, <1>3, <3>2 DEF Drafts
      <4>2. QED
        BY <1>4, <3>1, <3>2, <4>1
    <3>3. CASE bootIndex # j
      <4>1. bootIndex \in 1 .. imageIdx /\ bootIndex \in Image
        BY <1>1, <1>3, <3>1, <3>3 DEF Image
      <4>2. draft' = draft
        BY <1>2, <3>3
      <4>3. QED
        BY <1>3, <1>4, <3>1, <4>1, <4>2, PayloadSequences DEF DraftDone
    <3>4. QED
      BY <3>2, <3>3
  <2>2. QED
    BY <1>2, <2>1 DEF DraftDone
<1>8. HeaderMeansComplete' /\ ~Patched'
  BY <1>2, <1>3 DEF HeaderMeansComplete, Patched
<1>9. QED
  BY <1>2, <1>3, <1>4, <1>6, <1>7, <1>8 DEF FileInv, inputVars

\* The blob table, the XML data and the integrity table.
LEMMA WriteTailKeepsFile ==
  HeaderInv /\ (WriteTable \/ WriteXML \/ WriteIntegrity) => FileInv'
<1> SUFFICES ASSUME HeaderInv, WriteTable \/ WriteXML \/ WriteIntegrity PROVE FileInv'
  OBVIOUS
<1>1. /\ stage \in {"table", "xml", "integrity"} /\ stage' \in {"xml", "integrity", "header"}
      /\ UNCHANGED <<pipelineVars, inputVars, imageIdx, entries, header>>
  BY DEF WriteTable, WriteXML, WriteIntegrity
<1>2. PICK p : IsSequence(p) /\ WriteAll(p) /\ Len(p) = 1
  BY PayloadSequences DEF WriteTable, WriteXML, WriteIntegrity
<1>3. /\ EntriesDone /\ DraftDone /\ ~Patched /\ bootIndex <= NumImages /\ draft \in Drafts
      /\ imageIdx = NumImages /\ NumImages \in Nat /\ NumBlobs \in Nat /\ bootIndex \in Nat
  BY <1>1, WriterAssumption, PipelineAssumption
     DEF HeaderInv, FileInv, WriterInv, TypeOK, Laying, DraftDone, WriterAssumption,
         PipelineAssumption
<1>4. /\ IsSequence(body') /\ offset' = Len(body')
      /\ \A res, q : IsSequence(q) /\ LiesAt(body, res, q) => LiesAt(body', res, q)
  BY <1>1, <1>2, WriteKeepsFile DEF Laying
<1>5. EntriesDone'
  <2>1. \A i \in Blob : IsSequence(BlobPayload(i))
    BY PayloadSequences
  <2>2. \A j \in 1 .. imageIdx : IsSequence(MetaPayload(j))
    BY <1>3, PayloadSequences DEF Image
  <2>3. QED
    BY <1>1, <1>3, <1>4, <2>1, <2>2 DEF EntriesDone, pipelineVars
<1>6. bootIndex \in 1 .. imageIdx => LiesAt(body', draft.boot, MetaPayload(bootIndex))
  BY <1>3, <1>4, PayloadSequences DEF DraftDone, Image
<1>7. DraftDone'
  <2>1. CASE WriteTable
    <3>1. stage' = "xml" /\ draft' = [draft EXCEPT !.table = Res(1)]
          /\ WriteAll(TablePayload(entries)) /\ stage \in Laying
      BY <2>1 DEF WriteTable, Laying
    <3>2. LiesAt(body', Res(1), TablePayload(entries))
      BY <3>1, WriteKeepsFile, PayloadSequences
    <3>3. draft'.table = Res(1) /\ draft'.boot = draft.boot
      BY <1>3, <3>1 DEF Drafts
    <3>4. QED
      BY <1>1, <1>3, <1>6, <3>1, <3>2, <3>3 DEF DraftDone, inputVars
  <2>2. CASE WriteXML
    <3>1. stage = "xml" /\ stage' = "integrity" /\ draft' = [draft EXCEPT !.xml = Res(1)]
          /\ WriteAll(XMLPayload) /\ stage \in Laying
      BY <2>2 DEF WriteXML, Laying
    <3>2. LiesAt(body', Res(1), XMLPayload)
      BY <3>1, WriteKeepsFile, PayloadSequences
    <3>3. LiesAt(body', draft.table, TablePayload(entries))
      BY <1>3, <1>4, <3>1, PayloadSequences DEF DraftDone
    <3>4. draft'.xml = Res(1) /\ draft'.boot = draft.boot /\ draft'.table = draft.table
      BY <1>3, <3>1 DEF Drafts
    <3>5. QED
      BY <1>1, <1>3, <1>6, <3>1, <3>2, <3>3, <3>4 DEF DraftDone, inputVars
  <2>3. CASE WriteIntegrity
    <3>1. stage = "integrity" /\ stage' = "header" /\ draft' = [draft EXCEPT !.integrity = Res(1)]
      BY <2>3 DEF WriteIntegrity
    <3>2. LiesAt(body', draft.table, TablePayload(entries)) /\ LiesAt(body', draft.xml, XMLPayload)
      BY <1>3, <1>4, <3>1, PayloadSequences DEF DraftDone
    <3>3. draft'.xml = draft.xml /\ draft'.boot = draft.boot /\ draft'.table = draft.table
      BY <1>3, <3>1 DEF Drafts
    <3>4. QED
      BY <1>1, <1>3, <1>6, <3>1, <3>2, <3>3 DEF DraftDone, inputVars
  <2>4. QED
    BY <2>1, <2>2, <2>3
<1>8. HeaderMeansComplete' /\ ~Patched'
  BY <1>1, <1>3 DEF HeaderMeansComplete, Patched
<1>9. QED
  BY <1>1, <1>3, <1>4, <1>5, <1>7, <1>8 DEF FileInv, inputVars

\* When the real header goes in, everything it names is in the file.
LEMMA PatchKeepsFile == HeaderInv /\ PatchHeader => FileInv'
<1> SUFFICES ASSUME HeaderInv, PatchHeader PROVE FileInv'
  OBVIOUS
<1>1. /\ stage = "header" /\ stage' = "seekEnd"
      /\ header' = [state |-> "patched", images |-> NumImages, bootIndex |-> bootIndex, res |-> draft]
      /\ UNCHANGED <<pipelineVars, inputVars, imageIdx, entries, body, offset, draft>>
  BY DEF PatchHeader
<1>2. /\ EntriesDone /\ DraftDone /\ imageIdx = NumImages /\ taken = NumBlobs
      /\ IsSequence(body) /\ bootIndex \in 0 .. NumImages
      /\ NumImages \in Nat /\ NumBlobs \in Nat
  BY <1>1, WriterAssumption, PipelineAssumption
     DEF HeaderInv, FileInv, WriterInv, TypeOK, DrainsFirst, PastDrain, Laying, DraftDone,
         WriterAssumption, PipelineAssumption
<1>3. Extent(draft.table) = TablePayload(entries) /\ Extent(draft.xml) = XMLPayload
  BY <1>1, <1>2, ReadBack, PayloadSequences DEF DraftDone
<1>4. TablePayload(entries)[1][2] = entries
  BY DEF TablePayload
<1>5. ReadTable' = entries
  BY <1>1, <1>3, <1>4 DEF ReadTable, Extent
<1>6. \A i \in Blob : /\ entries[i].hash = <<"blob", i>> /\ ~entries[i].meta
                      /\ Extent(entries[i].res) = BlobPayload(i)
  <2>1. \A i \in Blob : i <= taken
    BY <1>2 DEF Blob
  <2>2. QED
    BY <1>2, <2>1, ReadBack, PayloadSequences DEF EntriesDone
<1>7. \A j \in Image : /\ entries[NumBlobs + j].meta
                       /\ Extent(entries[NumBlobs + j].res) = MetaPayload(j)
  BY <1>2, ReadBack, PayloadSequences DEF EntriesDone, Image
<1>8. bootIndex # 0 => Extent(draft.boot) = MetaPayload(bootIndex)
  BY <1>2, ReadBack, PayloadSequences DEF DraftDone, Image
<1>9. \A r : Extent(r)' = SubSeq(body, r.off + 1, r.off + r.len)
  BY <1>1 DEF Extent
<1>10. HeaderMeansComplete'
  <2>1. Len(entries) = NumBlobs + NumImages
    BY <1>2 DEF EntriesDone
  <2>2. /\ header'.images = NumImages /\ header'.bootIndex = bootIndex
        /\ header'.res.boot = draft.boot /\ header'.res.xml = draft.xml
    BY <1>1
  <2>3. QED
    BY <1>1, <1>3, <1>5, <1>6, <1>7, <1>8, <2>1, <2>2 DEF HeaderMeansComplete, Extent
<1>11. QED
  BY <1>1, <1>2, <1>10 DEF FileInv, Laying

\* Steps that leave the file, the table and the header's fields alone.
LEMMA MovesKeepFile ==
  ASSUME HeaderInv,
         UNCHANGED <<taken, inputVars, imageIdx, entries, header, body, offset, draft>>,
         \/ stage' = stage
         \/ stage = "blobs" /\ stage' = "images"
         \/ stage = "images" /\ stage' = "table" /\ imageIdx = NumImages
         \/ stage = "integrity" /\ stage' = "header"
         \/ stage' \notin Laying
  PROVE  FileInv'
<1>1. EntriesDone' <=> EntriesDone
  BY DEF EntriesDone
<1>2. HeaderMeansComplete' <=> HeaderMeansComplete
  BY DEF HeaderMeansComplete, Patched, ReadTable, Extent
<1>3. Patched' <=> Patched
  BY DEF Patched
<1>4. stage \in Laying /\ stage' \in Laying => (DraftDone => DraftDone')
  BY DEF DraftDone, inputVars, Laying
<1>5. QED
  BY <1>1, <1>2, <1>3, <1>4 DEF HeaderInv, FileInv, Laying, inputVars

\* The placeholder goes in, or the header is left unpatched by a failed write.
LEMMA PlaceholderKeepsFile ==
  HeaderInv /\ (WritePlaceholder \/ PlaceholderFails \/ PatchFails) => FileInv'
<1> SUFFICES ASSUME HeaderInv, WritePlaceholder \/ PlaceholderFails \/ PatchFails
             PROVE  FileInv'
  OBVIOUS
<1>1. /\ \/ stage' = "blobs" /\ stage = "start" /\ bootIndex <= NumImages
         \/ stage' = "failed"
      /\ stage \in Laying
      /\ UNCHANGED <<pipelineVars, inputVars, imageIdx, entries, body, offset, draft>>
  BY DEF WritePlaceholder, PlaceholderFails, PatchFails, Laying
<1>2. ~Patched'
  <2>1. header \in Headers
    BY DEF HeaderInv, WriterInv, TypeOK
  <2>2. \E s \in {"zero", "absent", "torn"} : header' = [header EXCEPT !.state = s]
    BY DEF WritePlaceholder, PlaceholderFails, PatchFails
  <2>3. QED
    BY <2>1, <2>2 DEF Headers, Patched
<1>3. EntriesDone => EntriesDone'
  BY <1>1 DEF EntriesDone, pipelineVars
<1>4. stage' = "blobs" => (DraftDone => DraftDone')
  BY <1>1 DEF DraftDone, inputVars
<1>5. HeaderMeansComplete'
  BY <1>2 DEF HeaderMeansComplete
<1>6. QED
  BY <1>1, <1>2, <1>3, <1>4, <1>5 DEF HeaderInv, FileInv, Laying, inputVars

\* A failed write leaves part of a payload behind, and no header over it.
LEMMA FailKeepsFile ==
  HeaderInv /\ (RejectArguments \/ BlobFails \/ ImageFails \/ TailFails) => FileInv'
<1> SUFFICES ASSUME HeaderInv, RejectArguments \/ BlobFails \/ ImageFails \/ TailFails
             PROVE  FileInv'
  OBVIOUS
<1>1. /\ stage \in Laying /\ stage' = "failed" /\ UNCHANGED header
      /\ \/ UNCHANGED body
         \/ \E p : IsSequence(p) /\ \E k \in 0 .. Len(p) - 1 : body' = body \o SubSeq(p, 1, k)
  <2>1. ASSUME NEW p, IsSequence(p), WriteFails(p)
        PROVE  \E q : IsSequence(q) /\ \E k \in 0 .. Len(q) - 1 : body' = body \o SubSeq(q, 1, k)
    BY <2>1 DEF WriteFails
  <2>2. CASE RejectArguments
    BY <2>2 DEF RejectArguments, Return, Laying
  <2>3. CASE BlobFails
    <3>1. taken + 1 \in Blob
      BY <2>3, PipelineAssumption
         DEF BlobFails, GiveUp, Draining, HeaderInv, WriterInv, TypeOK, PipelineTypeOK, Blob,
             PipelineAssumption
    <3>2. /\ stage = "blobs" /\ stage' = "failed" /\ UNCHANGED header
          /\ WriteFails(BlobPayload(taken + 1)) \/ UNCHANGED body
      BY <2>3 DEF BlobFails, Return, WriteFails
    <3>3. QED
      BY <2>1, <3>1, <3>2, PayloadSequences DEF Laying
  <2>4. CASE ImageFails
    <3>1. imageIdx + 1 \in Image
      BY <2>4, WriterAssumption
         DEF ImageFails, HeaderInv, WriterInv, TypeOK, Image, WriterAssumption
    <3>2. /\ stage = "images" /\ stage' = "failed" /\ UNCHANGED header
          /\ WriteFails(MetaPayload(imageIdx + 1)) \/ UNCHANGED body
      BY <2>4 DEF ImageFails, Return, WriteFails
    <3>3. QED
      BY <2>1, <3>1, <3>2, PayloadSequences DEF Laying
  <2>5. CASE TailFails
    <3>1. /\ stage \in {"table", "xml", "integrity"} /\ stage' = "failed" /\ UNCHANGED header
          /\ \E p : IsSequence(p) /\ WriteFails(p)
      BY <2>5, PayloadSequences DEF TailFails, WriteFails
    <3>2. QED
      BY <2>1, <3>1 DEF Laying
  <2>6. QED
    BY <2>2, <2>3, <2>4, <2>5
<1>2. ~Patched /\ IsSequence(body)
  BY <1>1 DEF HeaderInv, FileInv
<1>3. IsSequence(body')
  <2>1. CASE UNCHANGED body
    BY <1>2, <2>1
  <2>2. ASSUME NEW p, IsSequence(p), NEW k \in 0 .. Len(p) - 1, body' = body \o SubSeq(p, 1, k)
        PROVE  IsSequence(body')
    <3>1. PICK S : p \in Seq(S)
      BY <2>2 DEF IsSequence
    <3>2. SubSeq(p, 1, k) \in Seq(S)
      BY <3>1
    <3>3. QED
      BY <1>2, <2>2, <3>2, JoinedSequence DEF IsSequence
  <2>3. QED
    BY <1>1, <2>1, <2>2
<1>4. ~Patched' /\ HeaderMeansComplete'
  BY <1>1, <1>2 DEF Patched, HeaderMeansComplete
<1>5. QED
  BY <1>1, <1>3, <1>4 DEF FileInv, Laying

LEMMA HeaderInvStep == HeaderInv /\ [Next]_vars => HeaderInv'
<1> SUFFICES ASSUME HeaderInv, [Next]_vars PROVE FileInv'
  BY WriterInvStep DEF HeaderInv
<1>1. CASE Feed \/ \E w \in Workers : Labour(w)
  <2>1. UNCHANGED <<writerVars, taken>>
    BY <1>1 DEF Feed, Labour, Dispatch, CloseJobs, Work, Receive, Fetch, FetchFails, Encode,
                EncodeFails, Exit, Send
  <2>2. QED
    BY <2>1, MovesKeepFile DEF writerVars
<1>2. CASE BlobsDone \/ ImagesDone \/ SkipIntegrity \/ SeekEnd
  BY <1>2, MovesKeepFile
     DEF BlobsDone, ImagesDone, SkipIntegrity, SeekEnd, Laying, pipelineVars
<1>3. CASE UNCHANGED vars
  BY <1>3, MovesKeepFile DEF vars, writerVars, pipelineVars
<1>4. QED
  BY <1>1, <1>2, <1>3, WriteBlobKeepsFile, WriteImageKeepsFile, WriteTailKeepsFile,
     PatchKeepsFile, PlaceholderKeepsFile, FailKeepsFile DEF Next, WriterStep

\* At every moment of every run, and so after a crash at any moment: a file with
\* a patched header is complete -- table, blobs, image metadata and XML data are
\* where the header and the table say.
THEOREM HeaderLast == Spec => []HeaderMeansComplete
<1>1. HeaderInv => HeaderMeansComplete
  BY DEF HeaderInv, FileInv
<1>2. QED
  BY <1>1, HeaderInvInit, HeaderInvStep, PTL DEF Spec
-----------------------------------------------------------------------------
(* The integrity table.  Whatever the pieces in which a file was written,   *)
(* the accumulator has what the whole of it gives.                          *)

LEMMA DivBounds ==
  ASSUME NEW n \in Nat, NEW c \in Nat \ {0}
  PROVE  n \div c \in Nat /\ c * (n \div c) <= n /\ n < c * (n \div c) + c
OBVIOUS

LEMMA DivIs ==
  ASSUME NEW n \in Nat, NEW c \in Nat \ {0}, NEW q \in Nat, c * q <= n, n < c * q + c
  PROVE  n \div c = q
OBVIOUS

Below == {p \in Nat \X Nat : p[1] < p[2]}

LEMMA LeastExists ==
  ASSUME NEW S \in SUBSET Nat, S # {}
  PROVE  \E x \in S : \A y \in S : x <= y
<1>1. IsWellFoundedOn(Below, Nat)
  <2>1. OpToRel(<, Nat) = Below
    BY DEF OpToRel, Below
  <2> QED
    BY <2>1, NatLessThanWellFounded
<1>2. PICK x \in S : \A y \in S : ~(<<y, x>> \in Below)
  BY <1>1, WFMin
<1>3. ASSUME NEW y \in S PROVE x <= y
  <2>1. x \in Nat /\ y \in Nat
    OBVIOUS
  <2>2. ~(y < x)
    BY <1>2, <2>1 DEF Below
  <2> QED
    BY <2>1, <2>2
<1> QED
  BY <1>3

\* The k-th full chunk of a file, and what an accumulator has of it: the full
\* chunks' digests, and the units behind them.
FullChunk(file, k) == SubSeq(file, (k - 1) * ChunkLen + 1, k * ChunkLen)
FullChunks(file) == Len(file) \div ChunkLen
AccOf(file) ==
  [cur    |-> SubSeq(file, FullChunks(file) * ChunkLen + 1, Len(file)),
   hashes |-> [k \in 1 .. FullChunks(file) |-> FullChunk(file, k)]]

LEMMA ChunksLie ==
  ASSUME NEW n \in Nat, NEW k \in 1 .. n \div ChunkLen
  PROVE  /\ (k - 1) * ChunkLen \in Nat /\ k * ChunkLen \in Nat
         /\ k * ChunkLen = (k - 1) * ChunkLen + ChunkLen /\ k * ChunkLen <= n
<1> DEFINE q == n \div ChunkLen
<1>1. ChunkLen \in Nat \ {0}
  BY WriterAssumption DEF WriterAssumption
<1>2. q \in Nat /\ ChunkLen * q <= n
  BY <1>1, DivBounds
<1>3. k \in Nat /\ 1 <= k /\ k <= q
  BY <1>2
<1> HIDE DEF q
<1>4. PICK d \in Nat : q = k + d
  <2>1. q - k \in Nat /\ q = k + (q - k)
    BY <1>2, <1>3
  <2> QED
    BY <2>1
<1>5. PICK j \in Nat : k = j + 1
  <2>1. k - 1 \in Nat /\ k = (k - 1) + 1
    BY <1>3
  <2> QED
    BY <2>1
<1>6. ChunkLen * q = ChunkLen * k + ChunkLen * d /\ ChunkLen * d \in Nat /\ ChunkLen * k \in Nat
  BY <1>1, <1>3, <1>4
<1>7. k * ChunkLen = j * ChunkLen + ChunkLen /\ j * ChunkLen \in Nat /\ k - 1 = j
  BY <1>1, <1>5
<1> QED
  BY <1>1, <1>2, <1>3, <1>6, <1>7

\* What has been written stays as it is when more is written.
LEMMA SubSeqOfPrefix ==
  ASSUME NEW f, NEW p, IsSequence(f), IsSequence(p),
         NEW m \in Nat, NEW n \in Nat, 1 <= m, m <= n + 1, n <= Len(f)
  PROVE  SubSeq(f \o p, m, n) = SubSeq(f, m, n)
<1>1. PICK S : f \in Seq(S)
  BY DEF IsSequence
<1>2. PICK T : p \in Seq(T)
  BY DEF IsSequence
<1> DEFINE U == S \cup T
           g == f \o p
<1>3. /\ f \in Seq(U) /\ g \in Seq(U) /\ Len(f) \in Nat /\ Len(f) <= Len(g)
      /\ \A k \in 1 .. Len(f) : g[k] = f[k]
  <2>1. f \in Seq(U) /\ p \in Seq(U)
    BY <1>1, <1>2
  <2> HIDE DEF U
  <2> QED
    BY <2>1
<1> HIDE DEF U, g
<1>4. m \in 1 .. Len(f) + 1 /\ n \in m - 1 .. Len(f) /\ m \in 1 .. Len(g) + 1 /\ n \in m - 1 .. Len(g)
  BY <1>3
<1>5. /\ SubSeq(f, m, n) \in Seq(U) /\ Len(SubSeq(f, m, n)) = n - m + 1
      /\ \A k \in 1 .. n - m + 1 : SubSeq(f, m, n)[k] = f[m + k - 1]
  BY <1>3, <1>4, SubSeqProperties
<1>6. /\ SubSeq(g, m, n) \in Seq(U) /\ Len(SubSeq(g, m, n)) = n - m + 1
      /\ \A k \in 1 .. n - m + 1 : SubSeq(g, m, n)[k] = g[m + k - 1]
  BY <1>3, <1>4, SubSeqProperties
<1>7. \A k \in 1 .. n - m + 1 : m + k - 1 \in 1 .. Len(f)
  BY <1>3, <1>4
<1>8. \A k \in 1 .. n - m + 1 : SubSeq(f, m, n)[k] = SubSeq(g, m, n)[k]
  BY <1>3, <1>5, <1>6, <1>7
<1> QED
  BY <1>5, <1>6, <1>8, SeqEqual DEF g

LEMMA FullChunkOfPrefix ==
  ASSUME NEW f, NEW p, IsSequence(f), IsSequence(p), NEW k \in 1 .. FullChunks(f)
  PROVE  FullChunk(f \o p, k) = FullChunk(f, k)
<1>1. Len(f) \in Nat
  BY JoinedSequence
<1>2. ChunkLen \in Nat \ {0}
  BY WriterAssumption DEF WriterAssumption
<1>3. /\ (k - 1) * ChunkLen \in Nat /\ k * ChunkLen \in Nat
      /\ k * ChunkLen = (k - 1) * ChunkLen + ChunkLen /\ k * ChunkLen <= Len(f)
  BY <1>1, ChunksLie DEF FullChunks
<1> DEFINE m == (k - 1) * ChunkLen + 1
           n == k * ChunkLen
<1>4. m \in Nat /\ n \in Nat /\ 1 <= m /\ m <= n + 1 /\ n <= Len(f)
  BY <1>2, <1>3
<1> HIDE DEF m, n
<1>5. SubSeq(f \o p, m, n) = SubSeq(f, m, n)
  BY <1>4, SubSeqOfPrefix
<1> QED
  BY <1>5 DEF FullChunk, m, n

\* One unit more.
LEMMA AccOneUnit ==
  ASSUME NEW f, NEW u, IsSequence(f)
  PROVE  AccUnit(AccOf(f), u) = AccOf(f \o <<u>>)
<1> DEFINE C == ChunkLen
           L == Len(f)
           q == FullChunks(f)
           g == f \o <<u>>
           low == q * C + 1
           cur == SubSeq(f, low, L)
           next == Append(cur, u)
           old == [k \in 1 .. q |-> FullChunk(f, k)]
<1>1. C \in Nat \ {0} /\ L \in Nat
  BY JoinedSequence, WriterAssumption DEF WriterAssumption
<1>2. q \in Nat /\ q * C \in Nat /\ q * C <= L /\ L < q * C + C
  <2>1. L \div C \in Nat /\ C * (L \div C) <= L /\ L < C * (L \div C) + C
    BY <1>1, DivBounds
  <2>2. q = L \div C
    BY DEF FullChunks
  <2> HIDE DEF q, L, C
  <2> QED
    BY <1>1, <2>1, <2>2
<1>3. IsSequence(<<u>>) /\ Len(<<u>>) = 1
  <2>1. <<u>> \in Seq({u})
    OBVIOUS
  <2> QED
    BY <2>1 DEF IsSequence
<1>4. /\ IsSequence(g) /\ Len(g) = L + 1 /\ g[L + 1] = u
      /\ \A k \in 1 .. L : g[k] = f[k]
  <2>1. /\ IsSequence(g) /\ Len(g) = L + 1
        /\ \A k \in 1 .. L : g[k] = f[k]
        /\ \A k \in 1 .. 1 : g[L + k] = <<u>>[k]
    BY <1>3, JoinedSequence
  <2> HIDE DEF g
  <2> QED
    BY <2>1
<1>5. PICK S : f \in Seq(S) /\ g \in Seq(S) /\ u \in S
  <2>1. PICK T : g \in Seq(T)
    BY <1>4 DEF IsSequence
  <2>2. u \in T
    <3> HIDE DEF g
    <3> QED
      BY <1>1, <1>4, <2>1
  <2>3. \A k \in 1 .. L : f[k] \in T
    <3> HIDE DEF g
    <3> QED
      BY <1>1, <1>4, <2>1
  <2>4. f \in Seq(T)
    <3>1. PICK R : f \in Seq(R)
      BY DEF IsSequence
    <3> QED
      BY <2>3, <3>1
  <2> QED
    BY <2>1, <2>2, <2>4
<1> HIDE DEF g, C, L, q
<1>6. low \in 1 .. L + 1 /\ L \in low - 1 .. L /\ low \in 1 .. (L + 1) + 1 /\ L + 1 \in low - 1 .. L + 1
  BY <1>1, <1>2
<1>7. /\ cur \in Seq(S) /\ Len(cur) = L - low + 1
      /\ \A k \in 1 .. L - low + 1 : cur[k] = f[low + k - 1]
  <2> HIDE DEF low
  <2> QED
    BY <1>5, <1>6, SubSeqProperties DEF L
<1>8. /\ SubSeq(g, low, L + 1) \in Seq(S) /\ Len(SubSeq(g, low, L + 1)) = (L + 1) - low + 1
      /\ \A k \in 1 .. (L + 1) - low + 1 : SubSeq(g, low, L + 1)[k] = g[low + k - 1]
  <2> HIDE DEF low
  <2> QED
    BY <1>4, <1>5, <1>6, SubSeqProperties
<1> HIDE DEF low, cur
<1>9. next = SubSeq(g, low, L + 1) /\ Len(next) = (L - low + 1) + 1
  <2>1. /\ next \in Seq(S) /\ Len(next) = Len(cur) + 1
        /\ next[Len(cur) + 1] = u /\ \A k \in 1 .. Len(cur) : next[k] = cur[k]
    BY <1>5, <1>7
  <2> HIDE DEF next
  <2>2. Len(next) = (L - low + 1) + 1 /\ Len(next) = Len(SubSeq(g, low, L + 1))
    BY <1>1, <1>6, <1>7, <1>8, <2>1
  <2>3. ASSUME NEW k \in 1 .. Len(next) PROVE next[k] = SubSeq(g, low, L + 1)[k]
    <3>1. CASE k <= Len(cur)
      <4>1. k \in 1 .. L - low + 1 /\ low + k - 1 \in 1 .. L /\ k \in 1 .. (L + 1) - low + 1
        BY <1>1, <1>6, <1>7, <2>2, <3>1
      <4> QED
        BY <1>4, <1>7, <1>8, <2>1, <4>1
    <3>2. CASE k = Len(cur) + 1
      <4>1. low + k - 1 = L + 1 /\ k \in 1 .. (L + 1) - low + 1
        BY <1>1, <1>6, <1>7, <2>2, <3>2
      <4> QED
        BY <1>4, <1>8, <2>1, <3>2, <4>1
    <3> QED
      BY <1>1, <1>6, <1>7, <2>1, <2>3, <3>1, <3>2
  <2>4. next = SubSeq(g, low, L + 1)
    BY <1>8, <2>1, <2>2, <2>3, SeqEqual
  <2> QED
    BY <2>2, <2>4
<1>10. \A k \in 1 .. q : FullChunk(g, k) = FullChunk(f, k)
  BY <1>3, FullChunkOfPrefix DEF g, q
<1>11. AccUnit(AccOf(f), u) = IF Len(next) = C THEN [cur |-> <<>>, hashes |-> Append(old, next)]
                              ELSE [cur |-> next, hashes |-> old]
  <2>1. AccOf(f) = [cur |-> cur, hashes |-> old]
    BY DEF AccOf, cur, low, L, q, C
  <2> DEFINE acc == AccOf(f)
  <2>2. acc.cur = cur /\ acc.hashes = old
    BY <2>1
  <2> HIDE DEF old
  <2>3. [acc EXCEPT !.cur = next] = [cur |-> next, hashes |-> old]
    BY <2>1
  <2> HIDE DEF acc
  <2>4. AccUnit(acc, u) = IF Len(next) = C THEN [cur |-> <<>>, hashes |-> Append(old, next)]
                          ELSE [acc EXCEPT !.cur = next]
    BY <2>2, Zenon DEF AccUnit, C
  <2> QED
    BY <2>3, <2>4 DEF acc
<1> HIDE DEF next
<1>12. CASE Len(next) = C
  <2>1. L + 1 = (q + 1) * C /\ (q + 1) * C = q * C + C /\ low = q * C + 1
    BY <1>1, <1>2, <1>6, <1>9, <1>12 DEF low
  <2>2. FullChunks(g) = q + 1
    <3>1. (L + 1) \div C = q + 1
      <4>1. C * (q + 1) <= L + 1 /\ L + 1 < C * (q + 1) + C /\ q + 1 \in Nat /\ L + 1 \in Nat
        BY <1>1, <1>2, <2>1
      <4> QED
        BY <1>1, <4>1, DivIs
    <3> QED
      BY <1>4, <3>1 DEF FullChunks, C
  <2>3. SubSeq(g, FullChunks(g) * C + 1, Len(g)) = <<>>
    <3>1. FullChunks(g) * C + 1 = L + 2 /\ Len(g) = L + 1
      BY <1>1, <1>4, <2>1, <2>2
    <3>2. SubSeq(g, L + 2, L + 1) = <<>>
      BY <1>1, <1>5
    <3> QED
      BY <3>1, <3>2
  <2>4. FullChunk(g, q + 1) = next
    <3> DEFINE k == q + 1
    <3>1. (k - 1) * C + 1 = low /\ k * C = L + 1
      BY <1>1, <1>2, <2>1
    <3> HIDE DEF k
    <3>2. FullChunk(g, k) = SubSeq(g, (k - 1) * C + 1, k * C)
      BY DEF FullChunk, C
    <3> QED
      BY <1>9, <3>1, <3>2 DEF k
  <2>5. Append(old, next) = [k \in 1 .. q + 1 |-> FullChunk(g, k)]
    <3> DEFINE R == {FullChunk(f, k) : k \in 1 .. q} \cup {next}
               all == [k \in 1 .. q + 1 |-> FullChunk(g, k)]
    <3>1. old \in Seq(R) /\ Len(old) = q /\ \A k \in 1 .. q : old[k] = FullChunk(f, k)
      BY <1>2
    <3>2. next \in R
      OBVIOUS
    <3>3. \A k \in 1 .. q + 1 : FullChunk(g, k) \in R
      BY <1>2, <1>10, <2>4
    <3>4. all \in Seq(R) /\ Len(all) = q + 1 /\ \A k \in 1 .. q + 1 : all[k] = FullChunk(g, k)
      <4> HIDE DEF R
      <4> QED
        BY <1>2, <3>3
    <3> HIDE DEF R, old, all
    <3>5. /\ Append(old, next) \in Seq(R) /\ Len(Append(old, next)) = q + 1
          /\ Append(old, next)[q + 1] = next /\ \A k \in 1 .. q : Append(old, next)[k] = old[k]
      BY <1>2, <3>1, <3>2
    <3>6. \A k \in 1 .. q + 1 : Append(old, next)[k] = all[k]
      BY <1>2, <1>10, <2>4, <3>1, <3>4, <3>5
    <3>7. Append(old, next) = all
      BY <3>4, <3>5, <3>6, SeqEqual
    <3> QED
      BY <3>7 DEF all
  <2> QED
    BY <1>11, <1>12, <2>2, <2>3, <2>5 DEF AccOf, g, C
<1>13. CASE Len(next) # C
  <2>1. L + 1 < q * C + C
    BY <1>1, <1>2, <1>6, <1>9, <1>13 DEF low
  <2>2. FullChunks(g) = q
    <3>1. C * q <= L + 1 /\ L + 1 < C * q + C /\ L + 1 \in Nat
      BY <1>1, <1>2, <2>1
    <3>2. (L + 1) \div C = q
      BY <1>1, <1>2, <3>1, DivIs
    <3> QED
      BY <1>4, <3>2 DEF FullChunks, C
  <2>3. [k \in 1 .. q |-> FullChunk(g, k)] = old
    BY <1>10
  <2> QED
    <3>1. AccOf(g) = [cur |-> SubSeq(g, low, L + 1), hashes |-> old]
      BY <1>4, <2>2, <2>3 DEF AccOf, low, C
    <3>2. AccUnit(AccOf(f), u) = [cur |-> next, hashes |-> old]
      BY <1>11, <1>13
    <3> QED
      BY <1>9, <3>1, <3>2 DEF g
<1> QED
  BY <1>12, <1>13 DEF g

LEMMA AccAfterDef ==
  ASSUME NEW acc, NEW p, NEW g,
         g = [k \in 0 .. Len(p) |-> IF k = 0 THEN acc ELSE AccUnit(g[k - 1], p[k])]
  PROVE  AccAfter(acc, p) =
           [k \in 0 .. Len(p) |-> IF k = 0 THEN acc ELSE AccUnit(AccAfter(acc, p)[k - 1], p[k])]
BY DEF AccAfter

\* What an accumulator has after a write of p is what all of the file gives: by the
\* least number of units of p after which it would not be.
LEMMA AccWrites ==
  ASSUME wantTable, NEW f, NEW p, IsSequence(f), IsSequence(p)
  PROVE  AccWrite(AccOf(f), p) = AccOf(f \o p)
<1> DEFINE n == Len(p)
           acc == AccOf(f)
           upTo(k) == f \o SubSeq(p, 1, k)
           g == [k \in 0 .. n |-> AccOf(upTo(k))]
           a == AccAfter(acc, p)
<1>1. PICK S : p \in Seq(S)
  BY DEF IsSequence
<1>2. PICK R : f \in Seq(R)
  BY DEF IsSequence
<1>3. n \in Nat /\ upTo(0) = f /\ upTo(n) = f \o p
  <2>1. SubSeq(p, 1, 0) = <<>> /\ SubSeq(p, 1, n) = p /\ n \in Nat
    BY <1>1
  <2>2. f \o <<>> = f
    BY <1>2
  <2> QED
    BY <2>1, <2>2
<1>4. ASSUME NEW k \in 1 .. n PROVE upTo(k) = upTo(k - 1) \o <<p[k]>> /\ IsSequence(upTo(k - 1))
  <2> DEFINE T == S \cup R
             b == SubSeq(p, 1, k - 1)
  <2>1. b \in Seq(T) /\ p[k] \in T /\ f \in Seq(T)
    BY <1>1, <1>2, <1>3
  <2>2. SubSeq(p, 1, k) = Append(b, p[k])
    BY <1>1, <1>3
  <2> HIDE DEF b, T
  <2>3. f \o Append(b, p[k]) = (f \o b) \o <<p[k]>>
    BY <2>1
  <2>4. f \o b \in Seq(T)
    BY <2>1
  <2> QED
    BY <2>2, <2>3, <2>4 DEF b, IsSequence
<1>5. ASSUME NEW k \in 1 .. n PROVE AccOf(upTo(k)) = AccUnit(AccOf(upTo(k - 1)), p[k])
  <2> DEFINE x == upTo(k - 1)
             u == p[k]
  <2>1. IsSequence(x) /\ upTo(k) = x \o <<u>>
    BY <1>4
  <2> HIDE DEF x, u, upTo
  <2>2. AccUnit(AccOf(x), u) = AccOf(x \o <<u>>)
    BY <2>1, AccOneUnit
  <2> QED
    BY <2>1, <2>2 DEF x, u
<1> HIDE DEF n, acc, upTo
<1>6. g = [k \in 0 .. n |-> IF k = 0 THEN acc ELSE AccUnit(g[k - 1], p[k])]
  <2>1. ASSUME NEW k \in 0 .. n
        PROVE  AccOf(upTo(k)) = IF k = 0 THEN acc ELSE AccUnit(g[k - 1], p[k])
    <3>1. CASE k = 0
      BY <1>3, <3>1 DEF acc
    <3>2. CASE k # 0
      <4>1. k \in 1 .. n /\ k - 1 \in 0 .. n
        BY <1>3, <3>2
      <4>2. g[k - 1] = AccOf(upTo(k - 1))
        BY <4>1
      <4> QED
        BY <1>5, <3>2, <4>1, <4>2
    <3> QED
      BY <3>1, <3>2
  <2> QED
    BY <2>1
<1> HIDE DEF g
<1>7. a = [k \in 0 .. n |-> IF k = 0 THEN acc ELSE AccUnit(a[k - 1], p[k])]
  BY <1>6, AccAfterDef DEF n
<1>8. \A k \in 0 .. n : a[k] = IF k = 0 THEN acc ELSE AccUnit(a[k - 1], p[k])
  <2> HIDE DEF a
  <2> QED
    BY <1>7
<1>9. \A k \in 0 .. n : g[k] = IF k = 0 THEN acc ELSE AccUnit(g[k - 1], p[k])
  BY <1>6
<1> HIDE DEF a
<1>10. \A k \in 0 .. n : a[k] = g[k]
  <2> DEFINE bad == {k \in 0 .. n : a[k] # g[k]}
  <2> SUFFICES ASSUME bad # {} PROVE FALSE
    OBVIOUS
  <2>1. bad \in SUBSET Nat
    BY <1>3
  <2> HIDE DEF bad
  <2>2. PICK k \in bad : \A j \in bad : k <= j
    BY <2>1, LeastExists
  <2> USE DEF bad
  <2>3. k # 0
    BY <1>3, <1>8, <1>9
  <2>4. k - 1 \in 0 .. n /\ k - 1 \notin bad
    BY <1>3, <2>1, <2>2, <2>3
  <2>5. a[k - 1] = g[k - 1]
    BY <2>4
  <2> QED
    BY <1>8, <1>9, <2>3, <2>5
<1>11. a[n] = AccOf(f \o p)
  <2>1. n \in 0 .. n
    BY <1>3
  <2>2. g[n] = AccOf(upTo(n))
    BY <2>1 DEF g
  <2> QED
    BY <1>3, <1>10, <2>1, <2>2
<1> QED
  BY <1>11 DEF AccWrite, a, n, acc

\* The digests h of the first end units of a file.
Digests(h, file, end) ==
  /\ end \in Nat /\ end <= Len(file)
  /\ Len(h) = (end + ChunkLen - 1) \div ChunkLen
  /\ \A k \in 1 .. Len(h) :
       h[k] = SubSeq(file, (k - 1) * ChunkLen + 1, IF k * ChunkLen < end THEN k * ChunkLen ELSE end)

LEMMA DigestsGrow ==
  ASSUME NEW h, NEW f, NEW p, NEW end, IsSequence(f), IsSequence(p), Digests(h, f, end)
  PROVE  Digests(h, f \o p, end)
<1> DEFINE C == ChunkLen
           n == (end + C - 1) \div C
<1>1. C \in Nat \ {0} /\ Len(f) \in Nat /\ Len(p) \in Nat /\ Len(f \o p) = Len(f) + Len(p)
  BY JoinedSequence, WriterAssumption DEF WriterAssumption
<1>2. end \in Nat /\ end <= Len(f) /\ Len(h) = n /\ end <= Len(f \o p)
  BY <1>1 DEF Digests
<1>3. ASSUME NEW k \in 1 .. Len(h)
      PROVE  h[k] = SubSeq(f \o p, (k - 1) * C + 1, IF k * C < end THEN k * C ELSE end)
  <2> DEFINE m == (k - 1) * C + 1
             last == IF k * C < end THEN k * C ELSE end
  <2>1. h[k] = SubSeq(f, m, last)
    BY DEF Digests
  <2>2. m \in Nat /\ last \in Nat /\ 1 <= m /\ m <= last + 1 /\ last <= Len(f)
    <3>1. end + C - 1 \in Nat
      BY <1>1, <1>2
    <3>2. n \in Nat /\ C * n <= end + C - 1
      BY <1>1, <3>1, DivBounds
    <3>3. k \in 1 .. n
      BY <1>2
    <3> HIDE DEF n, C
    <3>4. PICK d \in Nat : n = k + d
      <4>1. n - k \in Nat /\ n = k + (n - k)
        BY <3>2, <3>3
      <4> QED
        BY <4>1
    <3>5. PICK j \in Nat : k = j + 1
      <4>1. k - 1 \in Nat /\ k = (k - 1) + 1
        BY <3>2, <3>3
      <4> QED
        BY <4>1
    <3>6. C * n = C * k + C * d /\ C * d \in Nat /\ C * k \in Nat
      BY <1>1, <3>4, <3>5
    <3>7. k * C = j * C + C /\ j * C \in Nat /\ k - 1 = j /\ C * k = k * C
      BY <1>1, <3>5
    <3>8. j * C + 1 <= end
      BY <1>1, <1>2, <3>2, <3>6, <3>7
    <3>9. m = j * C + 1 /\ k * C \in Nat
      BY <3>6, <3>7
    <3> HIDE DEF m
    <3>10. m <= last + 1 /\ last \in Nat /\ last <= Len(f)
      BY <1>1, <1>2, <3>7, <3>8, <3>9
    <3> QED
      BY <3>7, <3>9, <3>10
  <2> HIDE DEF m, last
  <2>3. SubSeq(f \o p, m, last) = SubSeq(f, m, last)
    BY <2>2, SubSeqOfPrefix
  <2> QED
    BY <2>1, <2>3 DEF m, last
<1> QED
  BY <1>2, <1>3 DEF Digests

\* Finishing the accumulator gives the digests of all of the file.
LEMMA AccFinishes ==
  ASSUME NEW f, IsSequence(f)
  PROVE  Digests(AccFinish(AccOf(f)).hashes, f, Len(f))
<1> DEFINE C == ChunkLen
           L == Len(f)
           q == FullChunks(f)
           low == q * C + 1
           cur == SubSeq(f, low, L)
           old == [k \in 1 .. q |-> FullChunk(f, k)]
           h == AccFinish(AccOf(f)).hashes
           chunk(k) == SubSeq(f, (k - 1) * C + 1, IF k * C < L THEN k * C ELSE L)
<1>1. C \in Nat \ {0} /\ L \in Nat
  BY JoinedSequence, WriterAssumption DEF WriterAssumption
<1>2. q \in Nat /\ q * C \in Nat /\ q * C <= L /\ L < q * C + C
  <2>1. L \div C \in Nat /\ C * (L \div C) <= L /\ L < C * (L \div C) + C
    BY <1>1, DivBounds
  <2>2. q = L \div C
    BY DEF FullChunks
  <2> HIDE DEF q, L, C
  <2> QED
    BY <1>1, <2>1, <2>2
<1>3. PICK S : f \in Seq(S)
  BY DEF IsSequence
<1>4. ASSUME NEW k \in 1 .. q PROVE FullChunk(f, k) = chunk(k)
  <2>1. k * C <= L /\ k * C \in Nat
    BY <1>1, ChunksLie DEF FullChunks
  <2> HIDE DEF C, L, q
  <2>2. (IF k * C < L THEN k * C ELSE L) = k * C
    BY <1>1, <2>1
  <2>3. FullChunk(f, k) = SubSeq(f, (k - 1) * C + 1, k * C)
    BY DEF FullChunk, C
  <2> QED
    BY <2>2, <2>3
<1>5. cur \in Seq(S) /\ Len(cur) = L - q * C
  <2> HIDE DEF C, L, q
  <2>1. low \in 1 .. L + 1 /\ L \in low - 1 .. L /\ L - low + 1 = L - q * C
    BY <1>1, <1>2
  <2> HIDE DEF low
  <2> QED
    BY <1>3, <2>1, SubSeqProperties DEF L
<1>6. AccOf(f) = [cur |-> cur, hashes |-> old]
  BY DEF AccOf
<1>7. h = IF cur = <<>> THEN old ELSE Append(old, cur)
  <2> HIDE DEF cur, old
  <2>1. AccOf(f).cur = cur /\ AccOf(f).hashes = old
    BY <1>6
  <2> QED
    BY <2>1, Zenon DEF AccFinish
<1> HIDE DEF h, cur
<1>10. ASSUME NEW n \in Nat, n = (L + C - 1) \div C, Len(h) = n, \A k \in 1 .. n : h[k] = chunk(k)
      PROVE  Digests(h, f, L)
  <2>1. L \in Nat /\ L <= L
    BY <1>1
  <2>2. Len(h) = (L + C - 1) \div C /\ \A k \in 1 .. Len(h) : h[k] = chunk(k)
    BY <1>10
  <2> QED
    BY <2>1, <2>2, Zenon DEF Digests
<1>8. CASE cur = <<>>
  <2>1. L = q * C
    BY <1>1, <1>2, <1>5, <1>8
  <2>2. (L + C - 1) \div C = q
    <3> HIDE DEF C, L, q
    <3>1. C * q <= L + C - 1 /\ L + C - 1 < C * q + C /\ L + C - 1 \in Nat
      BY <1>1, <1>2, <2>1
    <3> QED
      BY <1>1, <1>2, <3>1, DivIs
  <2>3. h = old /\ Len(old) = q /\ \A k \in 1 .. q : old[k] = chunk(k)
    <3> HIDE DEF q, chunk
    <3> QED
      BY <1>2, <1>4, <1>7, <1>8
  <2> QED
    <3> HIDE DEF L, C, q, chunk, old
    <3>1. Digests(h, f, L)
      BY <1>2, <1>10, <2>2, <2>3
    <3> QED
      BY <3>1 DEF h, L
<1>9. CASE cur # <<>>
  <2>1. q * C + 1 <= L
    <3>1. Len(cur) # 0
      BY <1>5, <1>9
    <3> HIDE DEF C, L, q
    <3> QED
      BY <1>1, <1>2, <1>5, <3>1
  <2>2. (L + C - 1) \div C = q + 1
    <3> HIDE DEF C, L, q
    <3>1. C * (q + 1) <= L + C - 1 /\ L + C - 1 < C * (q + 1) + C /\ L + C - 1 \in Nat /\ q + 1 \in Nat
      BY <1>1, <1>2, <2>1
    <3> QED
      BY <1>1, <3>1, DivIs
  <2>3. chunk(q + 1) = cur
    <3> DEFINE k == q + 1
    <3> HIDE DEF C, L, q
    <3>1. (k - 1) * C + 1 = low /\ k * C = q * C + C /\ k * C \in Nat
      BY <1>1, <1>2
    <3> HIDE DEF k
    <3>2. (IF k * C < L THEN k * C ELSE L) = L
      BY <1>1, <1>2, <3>1
    <3>3. chunk(k) = cur
      BY <3>1, <3>2 DEF cur
    <3> QED
      BY <3>3 DEF k
  <2>4. /\ Len(Append(old, cur)) = q + 1 /\ Append(old, cur)[q + 1] = cur
        /\ \A k \in 1 .. q : Append(old, cur)[k] = old[k]
    <3> DEFINE R == {FullChunk(f, k) : k \in 1 .. q} \cup {cur}
    <3>1. old \in Seq(R) /\ Len(old) = q /\ cur \in R
      BY <1>2
    <3> HIDE DEF R, old, q
    <3> QED
      BY <1>2, <3>1
  <2>5. Len(h) = q + 1 /\ \A k \in 1 .. q + 1 : h[k] = chunk(k)
    <3>1. \A k \in 1 .. q : old[k] = chunk(k)
      <4> HIDE DEF q, chunk
      <4> QED
        BY <1>4
    <3> HIDE DEF q, chunk, old
    <3>2. h = Append(old, cur)
      BY <1>7, <1>9
    <3> QED
      BY <1>2, <2>3, <2>4, <3>1, <3>2
  <2> QED
    <3> HIDE DEF L, C, q, chunk
    <3>1. q + 1 \in Nat
      BY <1>2
    <3>2. Digests(h, f, L)
      BY <1>10, <2>2, <2>5, <3>1
    <3> QED
      BY <3>2 DEF h, L
<1> QED
  BY <1>8, <1>9
-----------------------------------------------------------------------------
TableEnd == draft.table.off + draft.table.len

\* Up to the blob table the accumulator has all of the file; from then on it has
\* the digests up to the table's end, which the integrity table repeats.
IntegrityInv ==
  /\ wantTable /\ stage \in {"start", "blobs", "images", "table"} => integ = AccOf(body)
  /\ stage \in Laying \ {"header"} => draft.integrity = NoRes
  /\ wantTable /\ stage \in {"xml", "integrity"} => Digests(integ.hashes, body, TableEnd)
  /\ stage = "header" /\ draft.integrity # NoRes =>
       /\ LiesAt(body, draft.integrity, IntegrityPayload(integ.hashes))
       /\ Digests(integ.hashes, body, TableEnd)
  /\ IntegrityVerifies

LEMMA IntegrityInvInit == Init => IntegrityInv
<1> SUFFICES ASSUME Init PROVE IntegrityInv
  OBVIOUS
<1>1. /\ body = <<>> /\ stage = "start" /\ draft = NoDraft /\ ~Patched
      /\ integ = [cur |-> <<>>, hashes |-> <<>>]
  BY DEF Init, Patched
<1>2. AccOf(<<>>) = [cur |-> <<>>, hashes |-> <<>>]
  <2>1. ChunkLen \in Nat \ {0}
    BY WriterAssumption DEF WriterAssumption
  <2>2. FullChunks(<<>>) = 0
    <3>1. ChunkLen * 0 <= 0 /\ 0 < ChunkLen * 0 + ChunkLen
      BY <2>1
    <3>2. 0 \div ChunkLen = 0
      BY <2>1, <3>1, DivIs
    <3>3. Len(<<>>) = 0
      OBVIOUS
    <3> QED
      BY <3>2, <3>3 DEF FullChunks
  <2>3. FullChunks(<<>>) * ChunkLen + 1 = 1
    BY <2>1, <2>2
  <2>4. SubSeq(<<>>, 1, 0) = <<>> /\ Len(<<>>) = 0
    OBVIOUS
  <2>5. [k \in 1 .. 0 |-> FullChunk(<<>>, k)] = <<>>
    OBVIOUS
  <2> QED
    BY <2>2, <2>3, <2>4, <2>5 DEF AccOf
<1>3. draft.integrity = NoRes
  BY <1>1 DEF NoDraft
<1> QED
  BY <1>1, <1>2, <1>3 DEF IntegrityInv, IntegrityVerifies

\* A payload that belongs to the range of the integrity table.
LEMMA AccKeepsUp ==
  ASSUME HeaderInv, IntegrityInv, NEW p, IsSequence(p), WriteAll(p), wantTable,
         stage \in {"blobs", "images", "table"}
  PROVE  AccWrite(integ, p) = AccOf(body')
<1>1. body' = body \o p /\ IsSequence(body) /\ integ = AccOf(body)
  BY DEF WriteAll, HeaderInv, FileInv, IntegrityInv
<1>2. AccWrite(AccOf(body), p) = AccOf(body \o p)
  BY <1>1, AccWrites
<1> QED
  BY <1>1, <1>2

LEMMA PayloadKeepsIntegrity ==
  HeaderInv /\ IntegrityInv /\ (WriteBlob \/ WriteImage) => IntegrityInv'
<1> SUFFICES ASSUME HeaderInv, IntegrityInv, WriteBlob \/ WriteImage PROVE IntegrityInv'
  OBVIOUS
<1>1. PICK p : /\ IsSequence(p) /\ WriteAll(p) /\ integ' = AccWrite(integ, p)
               /\ stage \in {"blobs", "images"} /\ stage' = stage
               /\ UNCHANGED <<wantTable, header>>
  <2>1. CASE WriteBlob
    <3>1. taken + 1 \in Blob
      BY <2>1, PipelineAssumption
         DEF WriteBlob, Take, Draining, HeaderInv, WriterInv, TypeOK, PipelineTypeOK, Blob,
             PipelineAssumption
    <3> QED
      BY <2>1, <3>1, PayloadSequences DEF WriteBlob, inputVars
  <2>2. CASE WriteImage
    <3>1. imageIdx + 1 \in Image
      BY <2>2, WriterAssumption
         DEF WriteImage, HeaderInv, WriterInv, TypeOK, Image, WriterAssumption
    <3> QED
      BY <2>2, <3>1, PayloadSequences DEF WriteImage, inputVars
  <2> QED
    BY <2>1, <2>2
<1>2. draft'.integrity = draft.integrity /\ draft.integrity = NoRes
  <2>1. draft \in Drafts
    BY DEF HeaderInv, WriterInv, TypeOK
  <2>2. draft' = draft \/ \E r : draft' = [draft EXCEPT !.boot = r]
    BY DEF WriteBlob, WriteImage
  <2>3. draft.integrity = NoRes
    BY <1>1 DEF IntegrityInv, Laying
  <2> QED
    BY <2>1, <2>2, <2>3 DEF Drafts
<1>3. wantTable' => integ' = AccOf(body')
  BY <1>1, AccKeepsUp
<1>4. ~Patched'
  BY <1>1 DEF HeaderInv, FileInv, Patched, Laying
<1> QED
  BY <1>1, <1>2, <1>3, <1>4 DEF IntegrityInv, IntegrityVerifies

LEMMA TailKeepsIntegrity ==
  HeaderInv /\ IntegrityInv /\ (WriteTable \/ WriteXML \/ WriteIntegrity) => IntegrityInv'
<1> SUFFICES ASSUME HeaderInv, IntegrityInv, WriteTable \/ WriteXML \/ WriteIntegrity
             PROVE  IntegrityInv'
  OBVIOUS
<1>1. /\ IsSequence(body) /\ draft \in Drafts /\ Len(body) \in Nat
      /\ stage \in Laying => offset = Len(body) /\ ~Patched
  BY JoinedSequence DEF HeaderInv, FileInv, WriterInv, TypeOK
<1>2. CASE WriteTable
  <2> DEFINE p == TablePayload(entries)
  <2>1. /\ stage = "table" /\ stage' = "xml" /\ WriteAll(p) /\ UNCHANGED <<wantTable, header>>
        /\ integ' = AccFinish(AccWrite(integ, p)) /\ draft' = [draft EXCEPT !.table = Res(1)]
    BY <1>2 DEF WriteTable, inputVars
  <2>2. IsSequence(p) /\ Len(p) = 1
    BY PayloadSequences
  <2> HIDE DEF p
  <2>3. IsSequence(body') /\ Len(body') = Len(body) + 1
    <3>1. IsSequence(body \o p) /\ Len(body \o p) = Len(body) + Len(p)
      BY <1>1, <2>2, JoinedSequence
    <3>2. body' = body \o p
      BY <2>1 DEF WriteAll
    <3> QED
      BY <2>2, <3>1, <3>2
  <2>4. draft'.table = [off |-> Len(body), len |-> 1] /\ draft'.integrity = NoRes
    BY <1>1, <2>1 DEF Drafts, Res, Laying, IntegrityInv
  <2>5. TableEnd' = Len(body')
    BY <1>1, <2>3, <2>4 DEF TableEnd
  <2>6. wantTable => Digests(integ'.hashes, body', TableEnd')
    BY <2>1, <2>2, <2>3, <2>5, AccKeepsUp, AccFinishes
  <2>7. ~Patched'
    BY <1>1, <2>1 DEF Patched, Laying
  <2> QED
    BY <2>1, <2>4, <2>6, <2>7 DEF IntegrityInv, IntegrityVerifies
<1>3. CASE WriteXML
  <2>1. /\ stage = "xml" /\ stage' = "integrity" /\ WriteAll(XMLPayload)
        /\ UNCHANGED <<wantTable, header, integ>> /\ draft' = [draft EXCEPT !.xml = Res(1)]
    BY <1>3 DEF WriteXML, inputVars
  <2>2. body' = body \o XMLPayload /\ IsSequence(XMLPayload)
    BY <2>1, PayloadSequences DEF WriteAll
  <2>3. draft'.table = draft.table /\ draft'.integrity = draft.integrity /\ TableEnd' = TableEnd
    BY <1>1, <2>1 DEF Drafts, TableEnd
  <2>4. wantTable => Digests(integ.hashes, body', TableEnd)
    BY <1>1, <2>1, <2>2, DigestsGrow DEF IntegrityInv
  <2>5. ~Patched' /\ draft.integrity = NoRes
    BY <1>1, <2>1 DEF Patched, Laying, IntegrityInv
  <2> QED
    BY <2>1, <2>3, <2>4, <2>5 DEF IntegrityInv, IntegrityVerifies
<1>4. CASE WriteIntegrity
  <2> DEFINE p == IntegrityPayload(integ.hashes)
  <2>1. /\ stage = "integrity" /\ stage' = "header" /\ WriteAll(p) /\ wantTable
        /\ UNCHANGED <<wantTable, header, integ>> /\ draft' = [draft EXCEPT !.integrity = Res(1)]
    BY <1>4 DEF WriteIntegrity, inputVars
  <2>2. IsSequence(p) /\ Len(p) = 1
    BY PayloadSequences
  <2>3. LiesAt(body', Res(1), p)
    <3> HIDE DEF p
    <3> QED
      BY <2>1, <2>2, WriteKeepsFile DEF Laying
  <2>4. draft'.table = draft.table /\ draft'.integrity = Res(1) /\ TableEnd' = TableEnd
    BY <1>1, <2>1 DEF Drafts, TableEnd
  <2>5. body' = body \o p
    BY <2>1 DEF WriteAll
  <2> HIDE DEF p
  <2>6. Digests(integ.hashes, body', TableEnd)
    BY <1>1, <2>1, <2>2, <2>5, DigestsGrow DEF IntegrityInv
  <2>7. ~Patched'
    BY <1>1, <2>1 DEF Patched, Laying
  <2> QED
    BY <2>1, <2>3, <2>4, <2>6, <2>7 DEF IntegrityInv, IntegrityVerifies, p, Laying
<1> QED
  BY <1>2, <1>3, <1>4

VerifiedBy(file, res) ==
  LET end    == res.table.off + res.table.len
      hashes == SubSeq(file, res.integrity.off + 1, res.integrity.off + res.integrity.len)[1][2]
  IN  /\ Len(hashes) = (end + ChunkLen - 1) \div ChunkLen
      /\ \A k \in 1 .. Len(hashes) :
           hashes[k] = SubSeq(file, (k - 1) * ChunkLen + 1,
                              IF k * ChunkLen < end THEN k * ChunkLen ELSE end)

\* What the header names is what VerifyIntegrity reads.
LEMMA PatchKeepsIntegrity ==
  HeaderInv /\ IntegrityInv /\ PatchHeader => IntegrityInv'
<1> SUFFICES ASSUME HeaderInv, IntegrityInv, PatchHeader PROVE IntegrityInv'
  OBVIOUS
<1>1. /\ stage = "header" /\ stage' = "seekEnd" /\ UNCHANGED body /\ IsSequence(body)
      /\ header' = [state |-> "patched", images |-> NumImages, bootIndex |-> bootIndex, res |-> draft]
  BY DEF PatchHeader, HeaderInv, FileInv
<1>2. header'.res = draft
  BY <1>1
<1>3. ASSUME draft.integrity # NoRes
      PROVE  /\ Extent(draft.integrity)[1][2] = integ.hashes
             /\ Digests(integ.hashes, body, TableEnd)
  <2>1. LiesAt(body, draft.integrity, IntegrityPayload(integ.hashes))
    BY <1>1, <1>3 DEF IntegrityInv
  <2>2. Extent(draft.integrity) = IntegrityPayload(integ.hashes)
    BY <1>1, <2>1, ReadBack, PayloadSequences
  <2>3. IntegrityPayload(integ.hashes)[1][2] = integ.hashes
    BY DEF IntegrityPayload
  <2> QED
    BY <1>1, <1>3, <2>2, <2>3 DEF IntegrityInv
<1>4. IntegrityVerifies'
  <2>1. body' = body
    BY <1>1
  <2>2. Patched' /\ draft.integrity # NoRes => VerifiedBy(body', header'.res)
    BY <1>2, <1>3, <2>1 DEF VerifiedBy, Digests, TableEnd, Extent
  <2> QED
    BY <1>2, <2>2 DEF IntegrityVerifies, VerifiedBy, Extent, ChunkAt
<1> QED
  BY <1>1, <1>4 DEF IntegrityInv, Laying

\* A header that is not patched names no integrity table.
LEMMA FailKeepsIntegrity ==
  HeaderInv /\ IntegrityInv /\ (RejectArguments \/ PlaceholderFails \/ BlobFails \/ ImageFails
                                \/ TailFails \/ PatchFails) => IntegrityInv'
<1> SUFFICES ASSUME HeaderInv, IntegrityInv,
                    RejectArguments \/ PlaceholderFails \/ BlobFails \/ ImageFails
                      \/ TailFails \/ PatchFails
             PROVE  IntegrityInv'
  OBVIOUS
<1>1. stage \in Laying /\ stage' = "failed" /\ header \in Headers /\ ~Patched
  BY DEF RejectArguments, PlaceholderFails, BlobFails, ImageFails, TailFails, PatchFails, Return,
         WriteFails, HeaderInv, FileInv, WriterInv, TypeOK, Laying
<1>2. header' = header \/ \E s \in {"zero", "absent", "torn"} : header' = [header EXCEPT !.state = s]
  BY DEF RejectArguments, PlaceholderFails, BlobFails, ImageFails, TailFails, PatchFails, Return,
         WriteFails
<1>3. ~Patched'
  BY <1>1, <1>2 DEF Patched, Headers
<1> QED
  BY <1>1, <1>3 DEF IntegrityInv, IntegrityVerifies, Laying

LEMMA MovesKeepIntegrity ==
  ASSUME HeaderInv, IntegrityInv, UNCHANGED <<wantTable, body, integ, draft>>,
         \/ stage' = stage /\ UNCHANGED header
         \/ stage = "start" /\ stage' = "blobs" /\ ~Patched'
         \/ stage = "blobs" /\ stage' = "images" /\ UNCHANGED header
         \/ stage = "images" /\ stage' = "table" /\ UNCHANGED header
         \/ stage = "integrity" /\ stage' = "header" /\ UNCHANGED header
         \/ stage' \notin Laying /\ UNCHANGED header
  PROVE  IntegrityInv'
<1>1. IntegrityVerifies'
  <2>1. CASE UNCHANGED header
    BY <2>1 DEF IntegrityInv, IntegrityVerifies, Patched, Extent, ChunkAt
  <2>2. CASE ~Patched'
    BY <2>2 DEF IntegrityVerifies
  <2> QED
    BY <2>1, <2>2
<1>2. TableEnd' = TableEnd
  BY DEF TableEnd
<1> QED
  BY <1>1, <1>2 DEF IntegrityInv, Laying

LEMMA IntegrityInvStep == HeaderInv /\ IntegrityInv /\ [Next]_vars => IntegrityInv'
<1> SUFFICES ASSUME HeaderInv, IntegrityInv, [Next]_vars PROVE IntegrityInv'
  OBVIOUS
<1>1. CASE Feed \/ \E w \in Workers : Labour(w)
  BY <1>1, MovesKeepIntegrity DEF Feed, Labour, writerVars, inputVars
<1>2. CASE BlobsDone \/ ImagesDone \/ SkipIntegrity \/ SeekEnd
  BY <1>2, MovesKeepIntegrity DEF BlobsDone, ImagesDone, SkipIntegrity, SeekEnd, Laying, inputVars
<1>3. CASE WritePlaceholder
  <2>1. ~Patched'
    BY <1>3 DEF WritePlaceholder, Patched, HeaderInv, WriterInv, TypeOK, Headers
  <2> QED
    BY <1>3, <2>1, MovesKeepIntegrity DEF WritePlaceholder, inputVars
<1>4. CASE UNCHANGED vars
  BY <1>4, MovesKeepIntegrity DEF vars, writerVars, inputVars
<1> QED
  BY <1>1, <1>2, <1>3, <1>4, PayloadKeepsIntegrity, TailKeepsIntegrity, PatchKeepsIntegrity,
     FailKeepsIntegrity DEF Next, WriterStep

\* Reader.VerifyIntegrity accepts every file WriteTo completes: the digests of the
\* integrity table are those of the file's chunks, for any payload sizes and any
\* chunk size.
THEOREM IntegrityHolds == Spec => []IntegrityVerifies
<1>1. IntegrityInv => IntegrityVerifies
  BY DEF IntegrityInv
<1> QED
  BY <1>1, HeaderInvInit, HeaderInvStep, IntegrityInvInit, IntegrityInvStep, PTL DEF Spec
=============================================================================
