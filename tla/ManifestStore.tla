--------------------------- MODULE ManifestStore ---------------------------
(***************************************************************************)
(* component.BuildFromImage: every .mum and .manifest file of an image is    *)
(* read and parsed by a job of its own, the jobs are shared out among workers *)
(* (runJobsParallel), and a Store is built over the entries.  At the end, the  *)
(* call beside those of ChunkPool, with which it shares nothing but the        *)
(* scheduler.                                                                *)
(*                                                                          *)
(* A file is its name, the suffix of that name, and what reading and parsing  *)
(* it gives: an identity, or Failure.                                        *)
(***************************************************************************)
EXTENDS ChunkPool, SequencesExt

CONSTANTS
    StoreDirectories,   \* the two directories: sequences of files, or one missing
    Identities          \* the names of assemblies, up to case

VARIABLES
    view,       \* whether this call is made, or one of ChunkPool
    found,      \* both directories
    handedOut,  \* the jobs sent to the channel: 1 .. handedOut
    jobIdx,     \* contents of the channel
    jobsClosed, \* close(jobIdx) has run
    reading,    \* the job of each worker; 0: none, Left once it has left the loop
    results,    \* a slot for each job
    store       \* what the call returns, or Pending

manifestVars == <<found, handedOut, jobIdx, jobsClosed, reading, results, store>>
poolVars == <<view, vars, manifestVars>>

Failure == "failure"
Left == -1
Pending == [pending |-> TRUE]
Refusal == [refused |-> TRUE]

Entry(of, file) == [Kind |-> of, FileName |-> file.name, Identity |-> file.content]
NoEntry == [Kind |-> "none", FileName |-> "", Identity |-> Failure]

\* The jobs: what each will return.
JobsOf(files, of, suffix) ==
    LET eligible == SelectSeq(files, LAMBDA f : ~f.isDirectory /\ f.suffix = suffix)
    IN  [i \in DOMAIN eligible |-> Entry(of, eligible[i])]
Jobs == JobsOf(found.packages, "package", ".mum") \o JobsOf(found.manifests, "component", ".manifest")
Enumerated == ~found.missing

Readers == {w \in Worker : w <= Len(Jobs)}

ManifestInit ==
    /\ found \in StoreDirectories
    /\ handedOut = 0 /\ jobIdx = <<>> /\ jobsClosed = FALSE
    /\ reading = [w \in Worker |-> IF Enumerated /\ w \in Readers THEN 0 ELSE Left]
    /\ results = IF Enumerated THEN [i \in DOMAIN Jobs |-> NoEntry] ELSE <<>>
    /\ store = Pending

-----------------------------------------------------------------------------
(* The dispatcher.                                                          *)

HandOut ==
    /\ Enumerated /\ handedOut < Len(Jobs)
    /\ Len(jobIdx) < 2 * Cardinality(Readers)
    /\ handedOut' = handedOut + 1
    /\ jobIdx' = Append(jobIdx, handedOut + 1)
    /\ UNCHANGED <<found, jobsClosed, reading, results, store>>

CloseJobIdx ==
    /\ Enumerated /\ Jobs # <<>> /\ handedOut = Len(Jobs) /\ ~jobsClosed
    /\ jobsClosed' = TRUE
    /\ UNCHANGED <<found, handedOut, jobIdx, reading, results, store>>

-----------------------------------------------------------------------------
(* A worker.                                                                *)

TakeJob(w) ==
    /\ reading[w] = 0 /\ jobIdx # <<>>
    /\ reading' = [reading EXCEPT ![w] = Head(jobIdx)]
    /\ jobIdx' = Tail(jobIdx)
    /\ UNCHANGED <<found, handedOut, jobsClosed, results, store>>

\* results[i] = jobs[i]()
DoJob(w) ==
    /\ reading[w] > 0
    /\ results' = [results EXCEPT ![reading[w]] = Jobs[reading[w]]]
    /\ reading' = [reading EXCEPT ![w] = 0]
    /\ UNCHANGED <<found, handedOut, jobIdx, jobsClosed, store>>

LeaveLoop(w) ==
    /\ reading[w] = 0 /\ jobIdx = <<>> /\ jobsClosed
    /\ reading' = [reading EXCEPT ![w] = Left]
    /\ UNCHANGED <<found, handedOut, jobIdx, jobsClosed, results, store>>

-----------------------------------------------------------------------------
(* The caller's goroutine.                                                  *)

CannotEnumerate ==
    /\ ~Enumerated /\ store = Pending
    /\ store' = Refusal
    /\ UNCHANGED <<found, handedOut, jobIdx, jobsClosed, reading, results>>

\* Build: entries without an error are found under their name.
Built(entries) ==
    [entries |-> entries,
     byLowerName |-> [n \in Identities |-> SelectSeq(entries, LAMBDA e : e.Identity = n)]]

\* Mutant: the dispatcher is waited for, the workers are not.
BuildAtOnce ==
    /\ Enumerated /\ store = Pending
    /\ jobIdx = <<>> /\ jobsClosed
    /\ store' = Built(results)
    /\ UNCHANGED <<found, handedOut, jobIdx, jobsClosed, reading, results>>

\* Build, once wg.Wait() has returned.
BuildStore ==
    /\ Enumerated /\ store = Pending
    /\ \A w \in Readers : reading[w] = Left
    /\ store' = Built(results)
    /\ UNCHANGED <<found, handedOut, jobIdx, jobsClosed, reading, results>>

ManifestCall == CannotEnumerate \/ BuildStore
Reader(w) == TakeJob(w) \/ DoJob(w) \/ LeaveLoop(w)
ManifestNext == HandOut \/ CloseJobIdx \/ ManifestCall \/ \E w \in Worker : Reader(w)

-----------------------------------------------------------------------------
(* One call: of package wim, or this one.                                   *)

PoolsInit ==
    /\ Init /\ ManifestInit
    /\ \/ view = "chunks" /\ found = CHOOSE d \in StoreDirectories : TRUE
       \/ view = "manifests" /\ kind = "compress" /\ numChunks = 1 /\ bad = {}

Chunks(A) == view = "chunks" /\ A /\ UNCHANGED <<view, manifestVars>>
Manifests(A) == view = "manifests" /\ A /\ UNCHANGED <<view, vars>>

PoolsNext == Chunks(Next) \/ Manifests(ManifestNext)

\* The scheduler runs every goroutine that can run.
PoolsFairness ==
    /\ WF_poolVars(Chunks(SerialStep \/ Return))
    /\ WF_poolVars(Manifests(HandOut \/ CloseJobIdx)) /\ WF_poolVars(Manifests(ManifestCall))
    /\ \A w \in Worker : WF_poolVars(Chunks(Step(w))) /\ WF_poolVars(Manifests(Reader(w)))

\* The store holds one entry for each file, and under each name the files that could be
\* read and have that identity.
StoreComplete ==
    LET eligible == {f \in ToSet(found.packages) : ~f.isDirectory /\ f.suffix = ".mum"}
                    \cup {f \in ToSet(found.manifests) : ~f.isDirectory /\ f.suffix = ".manifest"}
    IN  IF ~Enumerated THEN store = Refusal
        ELSE /\ store # Pending
             /\ Len(store.entries) = Cardinality(eligible)
             /\ \A f \in eligible : \E e \in ToSet(store.entries) :
                  e.FileName = f.name /\ e.Identity = f.content
             /\ \A i \in Identities :
                  {e.FileName : e \in ToSet(store.byLowerName[i])}
                    = {f.name : f \in {g \in eligible : g.content = i}}

\* The calls return, however their goroutines are scheduled and whichever chunks or
\* files are bad; BuildFromImage with a store that has every file in its place although
\* the workers fill one slice without a lock (src/component/build.go:131).
CallsReturn ==
    /\ view = "chunks" => Terminates
    /\ view = "manifests" => <>StoreComplete
=============================================================================
