------------------------------ MODULE ChunkPool ------------------------------
(***************************************************************************)
(* The three worker pools of package wim that share out the chunks of one  *)
(* resource through an atomic counter:                                     *)
(*                                                                         *)
(*   "compress"  compressChunksParallel: chunks[i] is filled by the worker *)
(*               that claimed i; a worker whose chunk fails returns.       *)
(*   "decode"    DecodeResourceData: the same pool over out's sub-slices,  *)
(*               but a plain loop below minParallelDecodeChunks chunks.    *)
(*   "verify"    verifyIntegrityChunksParallel: a worker whose chunk is    *)
(*               bad records the lowest bad index, raises the stop flag    *)
(*               and goes on.                                              *)
(*                                                                         *)
(* Chunk indices are 0-based, as in the code.  NoErr, one past the last    *)
(* chunk, is the code's "no error yet" (verify's sentinel firstIdx).       *)
(***************************************************************************)
EXTENDS Integers, FiniteSets

CONSTANTS
  MaxChunks,   \* the largest number of chunks considered
  Procs        \* GOMAXPROCS

ASSUME PoolAssumption ==
  /\ MaxChunks \in Nat \ {0}
  /\ Procs \in Nat \ {0}

minParallelDecodeChunks == 4

Kinds == {"compress", "decode", "verify"}
Worker == 1 .. Procs

VARIABLES
  kind,        \* which of the three functions was called
  numChunks,   \* its number of chunks
  bad,         \* the chunks that fail to encode, to decode or to verify
  next,        \* the atomic counter (the loop index of the serial path)
  stopped,     \* the stop flag (verify only)
  pc,          \* what each worker is doing
  claimed,     \* the chunk each worker has claimed
  filled,      \* the chunks finished without error
  firstErr,    \* the chunk the recorded error blames, or NoErr
  returned     \* the function has returned firstErr

inputs == <<kind, numChunks, bad>>
vars == <<inputs, next, stopped, pc, claimed, filled, firstErr, returned>>

Chunk == 0 .. numChunks - 1
NoErr == numChunks

\* DecodeResourceData decodes a few chunks in a plain loop.
IsSerial == kind = "decode" /\ numChunks < minParallelDecodeChunks

\* Where a worker's loop begins.
LoopStart == IF kind = "verify" THEN "check" ELSE "claim"

PoolPC == {"check", "claim", "work", "record", "stop", "exited"}

TypeOK ==
  /\ kind \in Kinds
  /\ numChunks \in 1 .. MaxChunks
  /\ bad \in SUBSET Chunk
  /\ next \in Nat
  /\ stopped \in BOOLEAN
  /\ pc \in [Worker -> PoolPC]
  /\ claimed \in [Worker -> 0 .. numChunks]
  /\ filled \in SUBSET Chunk
  /\ firstErr \in 0 .. numChunks
  /\ returned \in BOOLEAN

\* min(GOMAXPROCS, numChunks) workers are started, none on the serial path.
Started(w) == ~IsSerial /\ w <= numChunks

Init ==
  /\ kind \in Kinds
  /\ numChunks \in 1 .. MaxChunks
  /\ bad \in SUBSET Chunk
  /\ next = 0
  /\ stopped = FALSE
  /\ pc = [w \in Worker |-> IF Started(w) THEN LoopStart ELSE "exited"]
  /\ claimed = [w \in Worker |-> NoErr]
  /\ filled = {}
  /\ firstErr = NoErr
  /\ returned = FALSE
-----------------------------------------------------------------------------
(* The steps of a worker.                                                  *)

\* if stopped.Load() { return }
Check(w) ==
  /\ pc[w] = "check"
  /\ pc' = [pc EXCEPT ![w] = IF stopped THEN "exited" ELSE "claim"]
  /\ UNCHANGED <<inputs, next, stopped, claimed, filled, firstErr, returned>>

\* Mutant: the counter is loaded and stored in two steps, so the second of two
\* workers that load it together claims a chunk again.
ClaimNotAtomic(w) ==
  /\ pc[w] = "claim"
  /\ next' \in {next, next + 1}
  /\ IF next < numChunks
       THEN /\ claimed' = [claimed EXCEPT ![w] = next]
            /\ pc' = [pc EXCEPT ![w] = "work"]
       ELSE /\ pc' = [pc EXCEPT ![w] = "exited"]
            /\ UNCHANGED claimed
  /\ UNCHANGED <<inputs, stopped, filled, firstErr, returned>>

\* i := atomic.AddUint64(&next, 1) - 1; if i >= numChunks { return }
Claim(w) ==
  /\ pc[w] = "claim"
  /\ next' = next + 1
  /\ IF next < numChunks
       THEN /\ claimed' = [claimed EXCEPT ![w] = next]
            /\ pc' = [pc EXCEPT ![w] = "work"]
       ELSE /\ pc' = [pc EXCEPT ![w] = "exited"]
            /\ UNCHANGED claimed
  /\ UNCHANGED <<inputs, stopped, filled, firstErr, returned>>

\* The chunk is encoded, decoded or hashed with success ...
WorkOK(w) ==
  /\ pc[w] = "work"
  /\ claimed[w] \notin bad
  /\ filled' = filled \cup {claimed[w]}
  /\ pc' = [pc EXCEPT ![w] = LoopStart]
  /\ UNCHANGED <<inputs, next, stopped, claimed, firstErr, returned>>

\* ... or it is not, or cannot be read, or does not match its digest.
WorkFails(w) ==
  /\ pc[w] = "work"
  /\ claimed[w] \in bad
  /\ pc' = [pc EXCEPT ![w] = "record"]
  /\ UNCHANGED <<inputs, next, stopped, claimed, filled, firstErr, returned>>

\* Mutant: verify, too, keeps the first error to arrive.
RecordFirst(w) ==
  /\ pc[w] = "record"
  /\ firstErr' = IF firstErr = NoErr THEN claimed[w] ELSE firstErr
  /\ pc' = [pc EXCEPT ![w] = IF kind = "verify" THEN "stop" ELSE "exited"]
  /\ UNCHANGED <<inputs, next, stopped, claimed, filled, returned>>

\* The error is recorded under the mutex: verify keeps the lowest index, the
\* others the first to arrive.
Record(w) ==
  /\ pc[w] = "record"
  /\ IF kind = "verify"
       THEN /\ firstErr' = IF claimed[w] < firstErr THEN claimed[w] ELSE firstErr
            /\ pc' = [pc EXCEPT ![w] = "stop"]
       ELSE /\ firstErr' = IF firstErr = NoErr THEN claimed[w] ELSE firstErr
            /\ pc' = [pc EXCEPT ![w] = "exited"]
  /\ UNCHANGED <<inputs, next, stopped, claimed, filled, returned>>

\* stopped.Store(true), then round the loop again.
RaiseStop(w) ==
  /\ pc[w] = "stop"
  /\ stopped' = TRUE
  /\ pc' = [pc EXCEPT ![w] = "check"]
  /\ UNCHANGED <<inputs, next, claimed, filled, firstErr, returned>>

Step(w) ==
  Check(w) \/ Claim(w) \/ WorkOK(w) \/ WorkFails(w) \/ Record(w) \/ RaiseStop(w)
-----------------------------------------------------------------------------
(* The calling goroutine.                                                  *)

\* One turn of the serial decode loop, which returns at the first error.
SerialStep ==
  /\ IsSerial
  /\ ~returned
  /\ next < numChunks
  /\ IF next \in bad
       THEN firstErr' = next /\ returned' = TRUE /\ UNCHANGED <<next, filled>>
       ELSE next' = next + 1 /\ filled' = filled \cup {next} /\ UNCHANGED <<firstErr, returned>>
  /\ UNCHANGED <<inputs, stopped, pc, claimed>>

AllExited == \A w \in Worker : pc[w] = "exited"

\* Mutant: the workers are not waited for.
ReturnWithoutWait ==
  /\ ~returned
  /\ next >= numChunks
  /\ returned' = TRUE
  /\ UNCHANGED <<inputs, next, stopped, pc, claimed, filled, firstErr>>

\* wg.Wait() returns once every worker has exited.
Return ==
  /\ ~returned
  /\ AllExited
  /\ IsSerial => next = numChunks
  /\ returned' = TRUE
  /\ UNCHANGED <<inputs, next, stopped, pc, claimed, filled, firstErr>>

Next == SerialStep \/ Return \/ \E w \in Worker : Step(w)

Spec == Init /\ [][Next]_vars
-----------------------------------------------------------------------------
\* A worker holds a chunk from its claim until it is done with it.
Holds(w, i) == pc[w] \in {"work", "record"} /\ claimed[w] = i

\* A chunk's slot is written by one worker only, and once: the reason chunks[i]
\* and out[lo:hi] need no lock.
OneWriterPerChunk ==
  /\ \A v, w \in Worker : \A i \in Chunk : Holds(v, i) /\ Holds(w, i) => v = w
  /\ \A w \in Worker : \A i \in Chunk : Holds(w, i) => i \notin filled

\* A nil error means every chunk was processed; an error blames a bad chunk.
ErrorIsTruthful ==
  returned => IF firstErr = NoErr THEN bad = {} /\ filled = Chunk ELSE firstErr \in bad

\* "This always reports the lowest chunk index, which matches what the serial
\* loop would have reported", though workers finish in any order.
ReportsLowest ==
  returned /\ kind = "verify" => \A i \in bad : firstErr <= i

\* The call returns.
Terminates == <>returned

-----------------------------------------------------------------------------
(* The inductive strengthening: where each claimed chunk is, and why a      *)
(* worker may have exited.                                                  *)

Processed(i) == i \in filled \/ (\E w \in Worker : Holds(w, i)) \/ (i \in bad /\ firstErr # NoErr)

FilledAreGood == \A i \in filled : i < next /\ i \notin bad

ErrorIsClaimed == firstErr # NoErr => firstErr \in bad /\ (IsSerial \/ firstErr < next)

HeldIsClaimed ==
  \A w \in Worker : pc[w] \in {"work", "record"} =>
    claimed[w] \in Chunk /\ claimed[w] < next /\ (pc[w] = "record" => claimed[w] \in bad)

ClaimedIsProcessed == \A i \in Chunk : i < next => Processed(i)

LowestSoFar ==
  kind = "verify" =>
    \A i \in bad : i < next => firstErr <= i \/ \E w \in Worker : Holds(w, i)

StopMeansError == stopped \/ (\E w \in Worker : pc[w] = "stop") => firstErr # NoErr

ExitIsJustified ==
  \A w \in Worker : pc[w] = "exited" /\ Started(w) => next >= numChunks \/ firstErr # NoErr

ReturnIsJustified ==
  /\ IsSerial \/ returned => AllExited
  /\ IsSerial /\ returned => next >= numChunks \/ firstErr # NoErr

PoolInv ==
  /\ TypeOK /\ OneWriterPerChunk /\ FilledAreGood /\ ErrorIsClaimed /\ HeldIsClaimed
  /\ ClaimedIsProcessed /\ LowestSoFar /\ StopMeansError /\ ExitIsJustified /\ ReturnIsJustified
=============================================================================
