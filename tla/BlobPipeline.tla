---------------------------- MODULE BlobPipeline ----------------------------
(***************************************************************************)
(* wim.encodeBlobsPipeline and the loop of wim.WriteTo that drains it.     *)
(*                                                                         *)
(* One dispatcher goroutine sends the blob indices, in order, on a bounded *)
(* channel and closes it; a pool of workers receives an index, fetches and *)
(* encodes that blob, and sends the outcome on the blob's own channel of   *)
(* capacity one; WriteTo receives from those channels in table order and   *)
(* returns at the first error.  Nothing stops the goroutines when WriteTo  *)
(* returns early: they go on until the job channel is closed and empty.    *)
(*                                                                         *)
(* Blob indices are 1-based here and 0-based in the code.                  *)
(***************************************************************************)
EXTENDS Naturals, Sequences, FiniteSets

CONSTANTS
  NumBlobs,   \* len(bt.Entries) when encodeBlobsPipeline is called
  Workers     \* the worker goroutines, min(GOMAXPROCS, NumBlobs) of them

ASSUME PipelineAssumption ==
  /\ NumBlobs \in Nat
  /\ IsFiniteSet(Workers)
  /\ Cardinality(Workers) <= NumBlobs
  /\ NumBlobs > 0 => Workers # {}

Blob == 1 .. NumBlobs

\* make(chan int, workers*2)
JobCap == 2 * Cardinality(Workers)

Faults == {"none", "fetch", "encode"}
Outcomes == {"ok", "fetch", "encode"}

VARIABLES
  fault,      \* fault[i]: which step of blob i fails (the BlobSource and the
              \* encoder are deterministic), or "none"
  sent,       \* the indices the dispatcher has sent: 1 .. sent
  jobs,       \* contents of the jobs channel
  closed,     \* close(jobs) has run
  pc,         \* what each worker is doing
  job,        \* the index each worker holds (0: none)
  result,     \* contents of each blob's result channel
  taken,      \* WriteTo has received and written blobs 1 .. taken
  failedAt    \* the blob WriteTo returned an error for, or 0

poolVars == <<sent, jobs, closed, pc, job, result>>
pipelineVars == <<fault, sent, jobs, closed, pc, job, result, taken, failedAt>>

WorkerPC == {"receive", "fetch", "encode", "exited"}

PipelineTypeOK ==
  /\ fault \in [Blob -> Faults]
  /\ sent \in 0 .. NumBlobs
  /\ jobs \in Seq(Blob)
  /\ closed \in BOOLEAN
  /\ pc \in [Workers -> WorkerPC]
  /\ job \in [Workers -> 0 .. NumBlobs]
  /\ result \in [Blob -> Outcomes \cup {"empty"}]
  /\ taken \in 0 .. NumBlobs
  /\ failedAt \in 0 .. NumBlobs

PipelineInit ==
  /\ fault \in [Blob -> Faults]
  /\ sent = 0
  /\ jobs = <<>>
  /\ closed = FALSE
  /\ pc = [w \in Workers |-> "receive"]
  /\ job = [w \in Workers |-> 0]
  /\ result = [i \in Blob |-> "empty"]
  /\ taken = 0
  /\ failedAt = 0
-----------------------------------------------------------------------------
(* The dispatcher goroutine.                                               *)

\* jobs <- i: blocks while the channel is full.
Dispatch ==
  /\ sent < NumBlobs
  /\ Len(jobs) < JobCap
  /\ sent' = sent + 1
  /\ jobs' = Append(jobs, sent + 1)
  /\ UNCHANGED <<fault, closed, pc, job, result, taken, failedAt>>

\* defer close(jobs)
CloseJobs ==
  /\ sent = NumBlobs
  /\ ~closed
  /\ closed' = TRUE
  /\ UNCHANGED <<fault, sent, jobs, pc, job, result, taken, failedAt>>
-----------------------------------------------------------------------------
(* A worker goroutine.                                                     *)

\* Mutant: the index is read but not claimed, so another worker takes it too.
ReceiveWithoutClaim(w) ==
  /\ pc[w] = "receive"
  /\ jobs # <<>>
  /\ job' = [job EXCEPT ![w] = Head(jobs)]
  /\ pc' = [pc EXCEPT ![w] = "fetch"]
  /\ UNCHANGED <<fault, sent, jobs, closed, result, taken, failedAt>>

\* for i := range jobs: take the next index ...
Receive(w) ==
  /\ pc[w] = "receive"
  /\ jobs # <<>>
  /\ job' = [job EXCEPT ![w] = Head(jobs)]
  /\ jobs' = Tail(jobs)
  /\ pc' = [pc EXCEPT ![w] = "fetch"]
  /\ UNCHANGED <<fault, sent, closed, result, taken, failedAt>>

\* ... or leave the loop once the channel is closed and drained.
Exit(w) ==
  /\ pc[w] = "receive"
  /\ jobs = <<>>
  /\ closed
  /\ pc' = [pc EXCEPT ![w] = "exited"]
  /\ UNCHANGED <<fault, sent, jobs, closed, job, result, taken, failedAt>>

\* Mutant: unbuffered result channels, so a send waits for WriteTo.
SendUnbuffered(w, outcome) ==
  /\ failedAt = 0 /\ job[w] = taken + 1
  /\ result[job[w]] = "empty"
  /\ result' = [result EXCEPT ![job[w]] = outcome]
  /\ job' = [job EXCEPT ![w] = 0]
  /\ pc' = [pc EXCEPT ![w] = "receive"]
  /\ UNCHANGED <<fault, sent, jobs, closed, taken, failedAt>>

\* results[i] <- eb: the channel has one slot and only this send, so the slot
\* is free; the guard is the channel's capacity.
Send(w, outcome) ==
  /\ result[job[w]] = "empty"
  /\ result' = [result EXCEPT ![job[w]] = outcome]
  /\ job' = [job EXCEPT ![w] = 0]
  /\ pc' = [pc EXCEPT ![w] = "receive"]
  /\ UNCHANGED <<fault, sent, jobs, closed, taken, failedAt>>

\* blobs.Blob(hash) returns the content.
Fetch(w) ==
  /\ pc[w] = "fetch"
  /\ fault[job[w]] # "fetch"
  /\ pc' = [pc EXCEPT ![w] = "encode"]
  /\ UNCHANGED <<fault, sent, jobs, closed, job, result, taken, failedAt>>

\* blobs.Blob(hash) fails; the worker reports it and continues.
FetchFails(w) ==
  /\ pc[w] = "fetch"
  /\ fault[job[w]] = "fetch"
  /\ Send(w, "fetch")

\* EncodeResourceDataWith returns a payload.
Encode(w) ==
  /\ pc[w] = "encode"
  /\ fault[job[w]] # "encode"
  /\ Send(w, "ok")

\* Mutant: the encoder's error is dropped and an empty payload is sent.
EncodeErrorDropped(w) ==
  /\ pc[w] = "encode"
  /\ fault[job[w]] = "encode"
  /\ Send(w, "ok")

\* EncodeResourceDataWith fails; the worker reports it and continues.
EncodeFails(w) ==
  /\ pc[w] = "encode"
  /\ fault[job[w]] = "encode"
  /\ Send(w, "encode")
-----------------------------------------------------------------------------
(* WriteTo's loop over the entries.                                        *)

Draining == failedAt = 0 /\ taken < NumBlobs

\* eb := <-blobResults[i] carries a payload, which is written.
Take ==
  /\ Draining
  /\ result[taken + 1] = "ok"
  /\ result' = [result EXCEPT ![taken + 1] = "empty"]
  /\ taken' = taken + 1
  /\ UNCHANGED <<fault, sent, jobs, closed, pc, job, failedAt>>

\* eb.err # nil, or the payload's write fails: WriteTo returns the error.
GiveUp ==
  /\ Draining
  /\ result[taken + 1] # "empty"
  /\ result' = [result EXCEPT ![taken + 1] = "empty"]
  /\ failedAt' = taken + 1
  /\ UNCHANGED <<fault, sent, jobs, closed, pc, job, taken>>
-----------------------------------------------------------------------------
Work(w) == Receive(w) \/ Fetch(w) \/ FetchFails(w) \/ Encode(w) \/ EncodeFails(w) \/ Exit(w)

Goroutines == Dispatch \/ CloseJobs \/ \E w \in Workers : Work(w)

PipelineNext == Goroutines \/ Take \/ GiveUp

\* The Go scheduler runs every runnable goroutine eventually.
PoolFairness ==
  /\ WF_pipelineVars(Dispatch \/ CloseJobs)
  /\ \A w \in Workers : WF_pipelineVars(Work(w))

PipelineSpec == PipelineInit /\ [][PipelineNext]_pipelineVars

PipelineFairSpec == PipelineSpec /\ PoolFairness /\ WF_pipelineVars(Take \/ GiveUp)
-----------------------------------------------------------------------------
(* Where each blob's work is.  The channel hands indices out in order, so  *)
(* the blobs split into those already received from it, those in it and    *)
(* those not sent yet.                                                     *)

Received == sent - Len(jobs)

Held(i) == \E w \in Workers : job[w] = i

\* Every index leaves the dispatcher once: the channel holds the indices
\* Received + 1 .. sent in order.
ChannelInOrder == \A k \in 1 .. Len(jobs) : jobs[k] = Received + k

\* A worker holds an index exactly while it fetches or encodes it, and it is
\* the only worker that does: two workers never encode one blob.
OneWorkerPerBlob ==
  /\ \A w \in Workers : job[w] # 0 <=> pc[w] \in {"fetch", "encode"}
  /\ \A v, w \in Workers : job[v] # 0 /\ job[v] = job[w] => v = w

\* A blob that was received is being worked on, or its outcome waits in its
\* channel, or WriteTo has consumed it -- exactly one of the three.
Consumed(i) == i <= taken \/ i = failedAt

Accounted(i) ==
  IF i > Received
    THEN ~Held(i) /\ result[i] = "empty" /\ ~Consumed(i)
    ELSE /\ Held(i) => result[i] = "empty" /\ ~Consumed(i)
         /\ result[i] # "empty" => ~Consumed(i)
         /\ Held(i) \/ result[i] # "empty" \/ Consumed(i)

EveryBlobAccounted == \A i \in Blob : Accounted(i)

\* What waits in a blob's channel is the outcome of that very blob.
OutcomeIsOwn ==
  /\ \A i \in Blob :
       result[i] \in {"empty", IF fault[i] = "none" THEN "ok" ELSE fault[i]}
  /\ \A w \in Workers : pc[w] = "encode" => fault[job[w]] # "fetch"

\* WriteTo stops at the blob it failed on.
StopsWhereItFailed == failedAt # 0 => failedAt = taken + 1

\* The inductive strengthening: the channel's contents tie the indices received
\* to the indices sent, and the outcomes tie what is drained to the faults.
PipelineInv ==
  /\ PipelineTypeOK
  /\ Len(jobs) <= sent
  /\ closed => sent = NumBlobs
  /\ ChannelInOrder
  /\ OneWorkerPerBlob
  /\ EveryBlobAccounted
  /\ OutcomeIsOwn
  /\ StopsWhereItFailed

\* Once every blob has been drained no goroutine of the pipeline reads
\* bt.Entries again: only then may WriteTo append the metadata entries to it.
Quiescent == jobs = <<>> /\ sent = NumBlobs /\ \A w \in Workers : job[w] = 0

DrainedMeansQuiescent == taken = NumBlobs => Quiescent

\* The pipelined encoder is indistinguishable from the serial loop: same
\* prefix written, same blob blamed.
Serial == INSTANCE SerialEncode WITH
  NumBlobs <- NumBlobs, fault <- fault, taken <- taken, failedAt <- failedAt
ImplementsSerialLoop == Serial!Spec

\* Whatever WriteTo does, every goroutine it started ends.
PoolDone == closed /\ \A w \in Workers : pc[w] = "exited"
GoroutinesEnd == <>PoolDone
=============================================================================
