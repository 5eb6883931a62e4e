--------------------------- MODULE ChunkPool_proofs ---------------------------
(***************************************************************************)
(* Proofs about ChunkPool for any number of chunks and any number of       *)
(* processors.                                                             *)
(***************************************************************************)
EXTENDS ChunkPool, TLAPS

LEMMA PoolInvInit == Init => PoolInv
<1> SUFFICES ASSUME Init PROVE PoolInv
  OBVIOUS
<1>1. numChunks \in 1 .. MaxChunks /\ kind \in Kinds /\ bad \in SUBSET Chunk
  BY DEF Init
<1>2. pc \in [Worker -> PoolPC]
  BY DEF Init, PoolPC, LoopStart
<1>3. claimed \in [Worker -> 0 .. numChunks]
  BY <1>1 DEF Init, NoErr
<1>4. /\ filled = {} /\ next = 0 /\ stopped = FALSE /\ returned = FALSE /\ firstErr = NoErr
      /\ numChunks \in Nat
  BY <1>1, PoolAssumption DEF Init, NoErr, PoolAssumption
<1>5. \A w \in Worker : pc[w] = IF Started(w) THEN LoopStart ELSE "exited"
  BY DEF Init
<1>6. TypeOK
  <2>1. firstErr \in 0 .. numChunks /\ next \in Nat
    BY <1>4 DEF NoErr
  <2>2. filled \in SUBSET Chunk
    BY <1>4
  <2>3. stopped \in BOOLEAN /\ returned \in BOOLEAN
    BY <1>4
  <2>4. QED
    BY <1>1, <1>2, <1>3, <2>1, <2>2, <2>3 DEF TypeOK
<1>7. \A w \in Worker : pc[w] \notin {"work", "record", "stop"}
  BY <1>5 DEF LoopStart
<1>8. \A w \in Worker : pc[w] = "exited" => ~Started(w)
  BY <1>5 DEF LoopStart
<1>9. IsSerial => AllExited
  BY <1>5 DEF AllExited, Started
<1>10. QED
  BY <1>1, <1>4, <1>6, <1>7, <1>8, <1>9
     DEF PoolInv, OneWriterPerChunk, FilledAreGood, ErrorIsClaimed, HeldIsClaimed,
         ClaimedIsProcessed, LowestSoFar, StopMeansError, ExitIsJustified, ReturnIsJustified,
         Holds, Chunk

LEMMA InputsStay == [Next]_vars => UNCHANGED inputs
BY DEF Next, SerialStep, Return, Step, Check, Claim, WorkOK, WorkFails, Record, RaiseStop, vars

\* What depends on the inputs only does not change.
LEMMA Fixed ==
  ASSUME TypeOK, UNCHANGED inputs
  PROVE  /\ Chunk' = Chunk /\ NoErr' = NoErr /\ IsSerial' = IsSerial /\ LoopStart' = LoopStart
         /\ \A w \in Worker : Started(w)' = Started(w)
         /\ numChunks \in Nat /\ Chunk = 0 .. numChunks - 1 /\ NoErr = numChunks
         /\ bad \in SUBSET Chunk
BY PoolAssumption DEF inputs, Chunk, NoErr, IsSerial, LoopStart, Started, TypeOK, PoolAssumption

LEMMA CheckKeepsInv ==
  ASSUME PoolInv, NEW w \in Worker, Check(w) PROVE PoolInv'
<1> USE DEF PoolInv
<1>1. UNCHANGED <<inputs, next, stopped, claimed, filled, firstErr, returned>>
  BY DEF Check
<1>2. /\ pc[w] = "check" /\ pc'[w] = (IF stopped THEN "exited" ELSE "claim")
      /\ \A v \in Worker \ {w} : pc'[v] = pc[v]
  BY DEF Check, TypeOK
<1>3. TypeOK'
  BY <1>1, Fixed DEF Check, TypeOK, PoolPC, inputs
<1>4. \A v \in Worker : \A i : Holds(v, i)' <=> Holds(v, i)
  BY <1>1, <1>2 DEF Holds
<1>5. ~IsSerial /\ ~returned
  BY <1>2 DEF ReturnIsJustified, AllExited
<1>6. OneWriterPerChunk' /\ FilledAreGood' /\ ErrorIsClaimed' /\ HeldIsClaimed'
  BY <1>1, <1>2, <1>4, Fixed
     DEF OneWriterPerChunk, FilledAreGood, ErrorIsClaimed, HeldIsClaimed, inputs
<1>7. ClaimedIsProcessed' /\ LowestSoFar'
  BY <1>1, <1>4, Fixed DEF ClaimedIsProcessed, LowestSoFar, Processed, inputs
<1>8. StopMeansError' /\ ExitIsJustified' /\ ReturnIsJustified'
  BY <1>1, <1>2, <1>5, Fixed
     DEF StopMeansError, ExitIsJustified, ReturnIsJustified, inputs
<1>9. QED
  BY <1>3, <1>6, <1>7, <1>8

LEMMA ClaimKeepsInv ==
  ASSUME PoolInv, NEW w \in Worker, Claim(w) PROVE PoolInv'
<1> USE DEF PoolInv
<1>1. /\ UNCHANGED <<inputs, stopped, filled, firstErr, returned>>
      /\ next' = next + 1 /\ next \in Nat
  BY DEF Claim, TypeOK
<1>2. /\ pc[w] = "claim"
      /\ \A v \in Worker \ {w} : pc'[v] = pc[v] /\ claimed'[v] = claimed[v]
      /\ \/ next < numChunks /\ pc'[w] = "work" /\ claimed'[w] = next
         \/ next >= numChunks /\ pc'[w] = "exited" /\ claimed'[w] = claimed[w]
  BY Fixed, <1>1 DEF Claim, TypeOK
<1>3. TypeOK'
  <2>1. claimed' \in [Worker -> 0 .. numChunks] /\ pc' \in [Worker -> PoolPC]
    BY <1>1, Fixed DEF Claim, TypeOK, PoolPC
  <2>2. QED
    BY <1>1, <2>1, Fixed DEF TypeOK, inputs
<1>4. ~IsSerial /\ ~returned
  BY <1>2 DEF ReturnIsJustified, AllExited
<1>5. \A v \in Worker \ {w} : \A i : Holds(v, i)' <=> Holds(v, i)
  BY <1>2 DEF Holds
<1>6. \A i : ~Holds(w, i)
  BY <1>2 DEF Holds
<1>7. \A i : Holds(w, i)' <=> (next < numChunks /\ i = next)
  BY <1>1, <1>2, Fixed DEF Holds
<1>8. next \notin filled /\ \A v \in Worker : ~Holds(v, next)
  BY <1>1 DEF FilledAreGood, HeldIsClaimed, Holds, TypeOK
<1>9. OneWriterPerChunk'
  BY <1>1, <1>5, <1>7, <1>8, Fixed DEF OneWriterPerChunk
<1>10. FilledAreGood' /\ ErrorIsClaimed'
  BY <1>1, Fixed DEF FilledAreGood, ErrorIsClaimed, TypeOK, inputs
<1>11. HeldIsClaimed'
  BY <1>1, <1>2, Fixed DEF HeldIsClaimed, inputs
<1>12. \A i \in Chunk : i < next' => i < next \/ (i = next /\ next < numChunks)
  BY <1>1, Fixed
<1>13. ClaimedIsProcessed'
  BY <1>1, <1>5, <1>6, <1>7, <1>12, Fixed DEF ClaimedIsProcessed, Processed, inputs
<1>14. LowestSoFar'
  BY <1>1, <1>5, <1>6, <1>7, <1>12, Fixed DEF LowestSoFar, inputs
<1>15. StopMeansError' /\ ExitIsJustified' /\ ReturnIsJustified'
  BY <1>1, <1>2, <1>4, Fixed DEF StopMeansError, ExitIsJustified, ReturnIsJustified, inputs
<1>16. QED
  BY <1>3, <1>9, <1>10, <1>11, <1>13, <1>14, <1>15

LEMMA WorkOKKeepsInv ==
  ASSUME PoolInv, NEW w \in Worker, WorkOK(w) PROVE PoolInv'
<1> USE DEF PoolInv
<1>0. PICK c \in Chunk : c = claimed[w]
  BY DEF WorkOK, HeldIsClaimed
<1>1. /\ UNCHANGED <<inputs, next, stopped, claimed, firstErr, returned>>
      /\ filled' = filled \cup {c} /\ c \notin bad /\ next \in Nat
  BY <1>0 DEF WorkOK, TypeOK
<1>2. /\ pc[w] = "work" /\ pc'[w] = LoopStart
      /\ \A v \in Worker \ {w} : pc'[v] = pc[v]
  BY DEF WorkOK, TypeOK
<1>3. TypeOK'
  BY <1>1, Fixed DEF WorkOK, TypeOK, PoolPC, inputs, LoopStart
<1>4. ~IsSerial /\ ~returned
  BY <1>2 DEF ReturnIsJustified, AllExited
<1>5. \A v \in Worker \ {w} : \A i : Holds(v, i)' <=> Holds(v, i)
  BY <1>1, <1>2 DEF Holds
<1>6. \A i : Holds(w, i) <=> i = c
  BY <1>0, <1>2 DEF Holds
<1>7. \A i : ~Holds(w, i)'
  BY <1>2 DEF Holds, LoopStart
<1>8. OneWriterPerChunk'
  BY <1>1, <1>5, <1>6, <1>7, Fixed DEF OneWriterPerChunk
<1>9. c < next
  BY <1>0, <1>2 DEF HeldIsClaimed
<1>10. FilledAreGood' /\ ErrorIsClaimed' /\ HeldIsClaimed'
  BY <1>1, <1>2, <1>9, Fixed DEF FilledAreGood, ErrorIsClaimed, HeldIsClaimed, inputs, LoopStart
<1>11. ClaimedIsProcessed'
  BY <1>1, <1>5, <1>6, Fixed DEF ClaimedIsProcessed, Processed, inputs
<1>12. LowestSoFar'
  BY <1>1, <1>5, <1>6, Fixed DEF LowestSoFar, inputs
<1>13. StopMeansError' /\ ExitIsJustified' /\ ReturnIsJustified'
  BY <1>1, <1>2, <1>4, Fixed
     DEF StopMeansError, ExitIsJustified, ReturnIsJustified, inputs, LoopStart
<1>14. QED
  BY <1>3, <1>8, <1>10, <1>11, <1>12, <1>13

LEMMA WorkFailsKeepsInv ==
  ASSUME PoolInv, NEW w \in Worker, WorkFails(w) PROVE PoolInv'
<1> USE DEF PoolInv
<1>1. UNCHANGED <<inputs, next, stopped, claimed, filled, firstErr, returned>>
  BY DEF WorkFails
<1>2. /\ pc[w] = "work" /\ pc'[w] = "record" /\ claimed[w] \in bad
      /\ \A v \in Worker \ {w} : pc'[v] = pc[v]
  BY DEF WorkFails, TypeOK
<1>3. TypeOK'
  BY <1>1, Fixed DEF WorkFails, TypeOK, PoolPC, inputs
<1>4. ~IsSerial /\ ~returned
  BY <1>2 DEF ReturnIsJustified, AllExited
<1>5. \A v \in Worker : \A i : Holds(v, i)' <=> Holds(v, i)
  BY <1>1, <1>2 DEF Holds
<1>6. OneWriterPerChunk' /\ FilledAreGood' /\ ErrorIsClaimed' /\ HeldIsClaimed'
  BY <1>1, <1>2, <1>5, Fixed
     DEF OneWriterPerChunk, FilledAreGood, ErrorIsClaimed, HeldIsClaimed, inputs
<1>7. ClaimedIsProcessed' /\ LowestSoFar'
  BY <1>1, <1>5, Fixed DEF ClaimedIsProcessed, LowestSoFar, Processed, inputs
<1>8. StopMeansError' /\ ExitIsJustified' /\ ReturnIsJustified'
  BY <1>1, <1>2, <1>4, Fixed DEF StopMeansError, ExitIsJustified, ReturnIsJustified, inputs
<1>9. QED
  BY <1>3, <1>6, <1>7, <1>8

\* After an error is recorded the lowest bad chunk claimed so far is the one
\* recorded, or still in a worker's hands.
LEMMA RecordKeepsInv ==
  ASSUME PoolInv, NEW w \in Worker, Record(w) PROVE PoolInv'
<1> USE DEF PoolInv
<1>0. PICK c \in Chunk : c = claimed[w] /\ c \in bad /\ c < next
  BY DEF Record, HeldIsClaimed
<1>1. /\ UNCHANGED <<inputs, next, stopped, claimed, filled, returned>>
      /\ firstErr \in 0 .. numChunks /\ next \in Nat
      /\ firstErr' \in {firstErr, c} /\ firstErr' # NoErr
      /\ kind = "verify" => firstErr' <= firstErr /\ firstErr' <= c
  BY <1>0, Fixed DEF Record, TypeOK
<1>2. /\ pc[w] = "record" /\ pc'[w] = (IF kind = "verify" THEN "stop" ELSE "exited")
      /\ \A v \in Worker \ {w} : pc'[v] = pc[v]
  BY DEF Record, TypeOK
<1>3. TypeOK'
  <2>1. firstErr' \in 0 .. numChunks /\ pc' \in [Worker -> PoolPC]
    BY <1>1, Fixed DEF Record, TypeOK, PoolPC
  <2>2. QED
    BY <1>1, <2>1, Fixed DEF TypeOK, inputs
<1>4. ~IsSerial /\ ~returned
  BY <1>2 DEF ReturnIsJustified, AllExited
<1>5. \A v \in Worker \ {w} : \A i : Holds(v, i)' <=> Holds(v, i)
  BY <1>1, <1>2 DEF Holds
<1>6. \A i : (Holds(w, i) <=> i = c) /\ ~Holds(w, i)'
  BY <1>0, <1>2 DEF Holds
<1>7. OneWriterPerChunk' /\ FilledAreGood'
  BY <1>1, <1>5, <1>6, Fixed DEF OneWriterPerChunk, FilledAreGood, inputs
<1>8. ErrorIsClaimed' /\ HeldIsClaimed'
  BY <1>0, <1>1, <1>2, Fixed DEF ErrorIsClaimed, HeldIsClaimed, inputs
<1>9. ClaimedIsProcessed'
  BY <1>0, <1>1, <1>5, <1>6, Fixed DEF ClaimedIsProcessed, Processed, inputs
<1>10. LowestSoFar'
  <2> SUFFICES ASSUME kind = "verify", NEW i \in bad, i < next
               PROVE  firstErr' <= i \/ (\E v \in Worker : Holds(v, i))'
    BY <1>1 DEF LowestSoFar, inputs
  <2>1. i \in Nat
    BY Fixed, <1>1
  <2>2. CASE i = c
    BY <1>1, <2>2
  <2>3. CASE firstErr <= i
    BY <1>1, <2>1, <2>3, Fixed
  <2>4. CASE i # c /\ \E v \in Worker : Holds(v, i)
    BY <1>5, <1>6, <2>4
  <2>5. QED
    BY <2>2, <2>3, <2>4 DEF LowestSoFar
<1>11. StopMeansError' /\ ExitIsJustified' /\ ReturnIsJustified'
  BY <1>1, <1>2, <1>4, Fixed DEF StopMeansError, ExitIsJustified, ReturnIsJustified, inputs
<1>12. QED
  BY <1>3, <1>7, <1>8, <1>9, <1>10, <1>11

LEMMA RaiseStopKeepsInv ==
  ASSUME PoolInv, NEW w \in Worker, RaiseStop(w) PROVE PoolInv'
<1> USE DEF PoolInv
<1>1. UNCHANGED <<inputs, next, claimed, filled, firstErr, returned>> /\ stopped' = TRUE
  BY DEF RaiseStop
<1>2. /\ pc[w] = "stop" /\ pc'[w] = "check"
      /\ \A v \in Worker \ {w} : pc'[v] = pc[v]
  BY DEF RaiseStop, TypeOK
<1>3. TypeOK'
  BY <1>1, Fixed DEF RaiseStop, TypeOK, PoolPC, inputs
<1>4. ~IsSerial /\ ~returned
  BY <1>2 DEF ReturnIsJustified, AllExited
<1>5. \A v \in Worker : \A i : Holds(v, i)' <=> Holds(v, i)
  BY <1>1, <1>2 DEF Holds
<1>6. OneWriterPerChunk' /\ FilledAreGood' /\ ErrorIsClaimed' /\ HeldIsClaimed'
  BY <1>1, <1>2, <1>5, Fixed
     DEF OneWriterPerChunk, FilledAreGood, ErrorIsClaimed, HeldIsClaimed, inputs
<1>7. ClaimedIsProcessed' /\ LowestSoFar'
  BY <1>1, <1>5, Fixed DEF ClaimedIsProcessed, LowestSoFar, Processed, inputs
<1>8. StopMeansError' /\ ExitIsJustified' /\ ReturnIsJustified'
  BY <1>1, <1>2, <1>4, Fixed DEF StopMeansError, ExitIsJustified, ReturnIsJustified, inputs
<1>9. QED
  BY <1>3, <1>6, <1>7, <1>8

LEMMA SerialKeepsInv == PoolInv /\ SerialStep => PoolInv'
<1> SUFFICES ASSUME PoolInv, SerialStep PROVE PoolInv'
  OBVIOUS
<1> USE DEF PoolInv
<1>1. UNCHANGED <<inputs, stopped, pc, claimed>> /\ IsSerial /\ next < numChunks
  BY DEF SerialStep
<1>2. next \in Nat /\ next \in Chunk /\ kind # "verify"
  BY <1>1, Fixed DEF TypeOK, IsSerial
<1>3. \/ next \in bad /\ firstErr' = next /\ next' = next /\ filled' = filled
      \/ /\ next \notin bad /\ next' = next + 1 /\ filled' = filled \cup {next}
         /\ firstErr' = firstErr
  BY DEF SerialStep
<1>4. TypeOK'
  <2>1. filled' \in SUBSET Chunk
    BY <1>2, <1>3 DEF TypeOK
  <2>2. firstErr' \in 0 .. numChunks /\ next' \in Nat
    BY <1>1, <1>2, <1>3, Fixed DEF TypeOK
  <2>3. returned' \in BOOLEAN
    BY DEF TypeOK, SerialStep
  <2>4. QED
    BY <1>1, <2>1, <2>2, <2>3, Fixed DEF TypeOK, inputs
<1>5. returned' => returned \/ next \in bad
  BY DEF SerialStep
<1>6. AllExited /\ AllExited'
  BY <1>1 DEF ReturnIsJustified, AllExited
<1>7. \A v \in Worker : \A i : ~Holds(v, i) /\ ~Holds(v, i)'
  BY <1>6 DEF AllExited, Holds
<1>8. OneWriterPerChunk' /\ HeldIsClaimed'
  BY <1>1, <1>6, <1>7, Fixed DEF OneWriterPerChunk, HeldIsClaimed, AllExited, inputs
<1>9. FilledAreGood'
  <2> SUFFICES ASSUME NEW i \in filled' PROVE i < next' /\ i \notin bad
    BY <1>1 DEF FilledAreGood, inputs
  <2>1. CASE i \in filled
    <3>1. i \in Nat
      <4>1. filled \subseteq Chunk
        BY DEF TypeOK
      <4>2. Chunk = 0 .. numChunks - 1
        BY DEF Chunk
      <4>3. QED
        BY <2>1, <4>1, <4>2
    <3>2. i < next /\ i \notin bad
      BY <2>1 DEF FilledAreGood
    <3>3. QED
      BY <1>2, <1>3, <3>1, <3>2
  <2>2. CASE i \notin filled
    BY <1>2, <1>3, <2>2
  <2>3. QED
    BY <2>1, <2>2
<1>10. ErrorIsClaimed'
  BY <1>1, <1>2, <1>3, Fixed DEF ErrorIsClaimed, inputs
<1>11. ClaimedIsProcessed'
  BY <1>1, <1>2, <1>3, <1>7, Fixed DEF ClaimedIsProcessed, Processed, inputs
<1>12. LowestSoFar' /\ StopMeansError' /\ ExitIsJustified' /\ ReturnIsJustified'
  BY <1>1, <1>2, <1>3, <1>6, <1>5, Fixed
     DEF LowestSoFar, StopMeansError, ExitIsJustified, ReturnIsJustified, Started, AllExited, inputs
<1>13. QED
  BY <1>4, <1>8, <1>9, <1>10, <1>11, <1>12

LEMMA ReturnKeepsInv == PoolInv /\ Return => PoolInv'
<1> SUFFICES ASSUME PoolInv, Return PROVE PoolInv'
  OBVIOUS
<1> USE DEF PoolInv
<1>1. UNCHANGED <<inputs, next, stopped, pc, claimed, filled, firstErr>>
  BY DEF Return
<1>2. AllExited /\ returned' = TRUE /\ (IsSerial => next = numChunks) /\ numChunks \in Nat
  BY <1>1, Fixed DEF Return
<1>3. TypeOK'
  BY <1>1, <1>2, Fixed DEF TypeOK, inputs
<1>4. \A v \in Worker : \A i : Holds(v, i)' <=> Holds(v, i)
  BY <1>1 DEF Holds
<1>5. OneWriterPerChunk' /\ FilledAreGood' /\ ErrorIsClaimed' /\ HeldIsClaimed'
  BY <1>1, <1>4, Fixed
     DEF OneWriterPerChunk, FilledAreGood, ErrorIsClaimed, HeldIsClaimed, inputs
<1>6. ClaimedIsProcessed' /\ LowestSoFar'
  BY <1>1, <1>4, Fixed DEF ClaimedIsProcessed, LowestSoFar, Processed, inputs
<1>7. StopMeansError' /\ ExitIsJustified' /\ ReturnIsJustified'
  BY <1>1, <1>2, Fixed
     DEF StopMeansError, ExitIsJustified, ReturnIsJustified, AllExited, inputs
<1>8. QED
  BY <1>3, <1>5, <1>6, <1>7

LEMMA StutterKeepsInv == PoolInv /\ UNCHANGED vars => PoolInv'
<1> SUFFICES ASSUME PoolInv, UNCHANGED vars PROVE PoolInv'
  OBVIOUS
<1>1. UNCHANGED inputs
  BY DEF vars
<1>2. QED
  BY <1>1, Fixed
     DEF PoolInv, vars, inputs, TypeOK, Holds, OneWriterPerChunk, FilledAreGood, ErrorIsClaimed,
         HeldIsClaimed, ClaimedIsProcessed, LowestSoFar, Processed, StopMeansError,
         ExitIsJustified, ReturnIsJustified, AllExited

LEMMA PoolInvStep == PoolInv /\ [Next]_vars => PoolInv'
<1> SUFFICES ASSUME PoolInv, [Next]_vars PROVE PoolInv'
  OBVIOUS
<1>1. ASSUME NEW w \in Worker, Step(w) PROVE PoolInv'
  BY <1>1, CheckKeepsInv, ClaimKeepsInv, WorkOKKeepsInv, WorkFailsKeepsInv, RecordKeepsInv,
     RaiseStopKeepsInv DEF Step
<1>2. QED
  BY <1>1, SerialKeepsInv, ReturnKeepsInv, StutterKeepsInv DEF Next

LEMMA PoolInvHolds == Spec => []PoolInv
BY PoolInvInit, PoolInvStep, PTL DEF Spec
-----------------------------------------------------------------------------
(* The theorems.                                                           *)

\* A claimed chunk is always inside the resource.
THEOREM PoolTypeCorrect == Spec => []TypeOK
<1>1. PoolInv => TypeOK
  BY DEF PoolInv
<1>2. QED
  BY <1>1, PoolInvHolds, PTL

\* No two workers ever have the same chunk, and none takes a finished one.
THEOREM NoSharedChunk == Spec => []OneWriterPerChunk
<1>1. PoolInv => OneWriterPerChunk
  BY DEF PoolInv
<1>2. QED
  BY <1>1, PoolInvHolds, PTL

\* A worker that has exited without an error being recorded saw the counter past
\* the end, and at least one worker was started.
LEMMA AllClaimed ==
  ASSUME PoolInv, returned, firstErr = NoErr
  PROVE  next >= numChunks /\ numChunks \in Nat /\ next \in Nat
<1>1. /\ numChunks \in Nat /\ numChunks >= 1 /\ next \in Nat /\ 1 \in Worker
  BY PoolAssumption DEF PoolInv, TypeOK, Worker, PoolAssumption
<1>2. CASE IsSerial
  BY <1>1, <1>2 DEF PoolInv, ReturnIsJustified
<1>3. CASE ~IsSerial
  <2>1. Started(1) /\ pc[1] = "exited"
    BY <1>1, <1>3 DEF Started, PoolInv, ReturnIsJustified, AllExited
  <2>2. QED
    BY <1>1, <2>1 DEF PoolInv, ExitIsJustified
<1>4. QED
  BY <1>1, <1>2, <1>3

\* A nil error means that every chunk was processed, and an error names a chunk
\* that really is bad.
THEOREM TruthfulError == Spec => []ErrorIsTruthful
<1>1. PoolInv => ErrorIsTruthful
  <2> SUFFICES ASSUME PoolInv, returned
               PROVE  IF firstErr = NoErr THEN bad = {} /\ filled = Chunk ELSE firstErr \in bad
    BY DEF ErrorIsTruthful
  <2>1. \A v \in Worker : \A i : ~Holds(v, i)
    BY DEF PoolInv, ReturnIsJustified, AllExited, Holds
  <2>2. CASE firstErr = NoErr
    <3>1. \A i \in Chunk : i < next
      BY <2>2, AllClaimed DEF Chunk
    <3>2. \A i \in Chunk : i \in filled
      BY <2>1, <2>2, <3>1 DEF PoolInv, ClaimedIsProcessed, Processed
    <3>3. QED
      BY <2>2, <3>2 DEF PoolInv, TypeOK, FilledAreGood
  <2>3. CASE firstErr # NoErr
    BY <2>3 DEF PoolInv, ErrorIsClaimed
  <2>4. QED
    BY <2>2, <2>3
<1>2. QED
  BY <1>1, PoolInvHolds, PTL

\* Whatever the order in which the workers finish, VerifyIntegrity blames the
\* lowest chunk that does not verify.
THEOREM LowestReported == Spec => []ReportsLowest
<1>1. PoolInv => ReportsLowest
  <2> SUFFICES ASSUME PoolInv, returned, kind = "verify", NEW i \in bad
               PROVE  firstErr <= i
    BY DEF ReportsLowest
  <2>1. \A v \in Worker : \A j : ~Holds(v, j)
    BY DEF PoolInv, ReturnIsJustified, AllExited, Holds
  <2>2. /\ i \in 0 .. numChunks - 1 /\ next \in Nat /\ firstErr \in 0 .. numChunks
        /\ numChunks \in Nat
    BY PoolAssumption DEF PoolInv, TypeOK, Chunk, PoolAssumption
  <2>3. CASE i < next
    BY <2>1, <2>3 DEF PoolInv, LowestSoFar
  <2>4. CASE i >= next
    <3>1. firstErr # NoErr
      BY <2>2, <2>4, AllClaimed
    <3>2. firstErr < next
      BY <3>1 DEF PoolInv, ErrorIsClaimed, IsSerial
    <3>3. QED
      BY <2>2, <2>4, <3>2
  <2>5. QED
    BY <2>2, <2>3, <2>4
<1>2. QED
  BY <1>1, PoolInvHolds, PTL
=============================================================================
