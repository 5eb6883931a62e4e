# gowim: specification and verification

TLA+ models of [gowim](../src/README.md), a Go library that reads, edits and
writes Windows images (WIM files) and the formats around them, with the TLC runs
that check the models and the TLAPS proofs about them.

## The system

gowim is a set of Go packages called by an image-building program. Nothing in it
is a server: a caller opens an image, changes it in memory through several
packages, and writes a new file. What is hard in it is of three kinds:
goroutine pools inside single calls; two data structures, the directory tree
and the blob table, that many packages change independently of each other and
that must stay consistent; and binary formats with offsets, counts and limits.

| Part (package) | State it keeps | Operations | What makes it correct |
|---|---|---|---|
| `wim` writer (`writer.go`, `blob_pipeline.go`) | the output file, the running offset, the caller's `bt.Entries`, goroutines | `WriteTo` / `Assemble` | resources where the headers say, header last, table order kept though blobs are encoded in parallel, goroutines end |
| `wim` integrity (`integrity*.go`) | running digest; worker pool | accumulate, `VerifyIntegrity` | the digests written are the ones that verify; lowest bad chunk reported |
| `wim` chunk codecs (`compress.go`, `decompress.go`) | worker pool over the chunks of one resource | `EncodeResourceData`, `DecodeResourceData` | one writer per chunk, no error swallowed |
| `wim` blob table (`blobtable.go`, `export.go`) | entries with reference counts, a hash index; the resource each entry was last written or read at | `ByHash`, `RebuildBlobTable`, `NewReaderBlobSource`, `ExportImage` | every referenced blob has one entry; what is written under a hash is that blob |
| `wim` directory tree (`path.go`, `tree.go`, `remove.go`, `rename.go`, `graft.go`) | entries with child slices and a cached index | `Child`, `Lookup`, `ReadDir`, `Add`, `Remove`, `Rename`, `AttachAt` | a tree with unique names; index never stale; all or nothing |
| `wim` metadata resource (`metadata.go`, `dentry*.go`, `security.go`, `graft.go`) | a buffer being laid out or read; the ids a `SecurityRemapper` has given | `SecurityRemapper.Copy`, `AttachAt`, `AppendTo`, `ParseImageMetadata` | a grafted subtree reads back as it was, with its own descriptors |
| `driver` | tree, blob table, SYSTEM hive | `Install`, `Uninstall`, `InstallRegistry`, `Verify` | counts follow the tree; registration is idempotent |
| `component` | tree, blob table, SOFTWARE/COMPONENTS hives | `Install`, `InstallRegistry`, `Remove`, `BuildFromImage` | counts follow the tree; a second install changes nothing |
| `appx` | provisioning list, registry, tree, blob table | `Remove` | what is gone stays gone; counts follow the tree |
| `registry` | a hive parsed out of the image | open, `Hive.Save` | the entry names the blob that holds the hive's bytes |
| `regf` | key tree; on writing, cells and shared security cells | `Parse`, `AppendTo`, key and value edits | what is written reads back |
| `service` | keys below `Services` | `Install`, `Modify`, `Delete`, `SetStartType` | no stale values |
| `fido`, `wufetch` | one call's sessions and answers | find and download | bounded retries, the session that belongs to the SKU, a usable answer is used, digest compared |
| `cab` | parsed cabinet, memo of decoded folders | open, extract | the compressor's bytes, however files are read |
| `lzx`, `xpress`, `lzms` | one call's tables | compress, decompress | what is decompressed is what was compressed |
| `iso` | a tree; on writing, every extent of the image | build, write | each of four views finds every directory and file |
| `inf`, `cat`, `pe`, `mum`, `pa30` | none between calls | parse | (sequential parsers) |

How they interact: `driver`, `component` and `appx` call no `wim` operation for
most of their changes but edit `DirEntry.Children` and `BlobTable.Entries`
themselves; `registry` replaces one file's blob; the caller passes the tree, the
table and a `BlobSource` made of the old file and the blobs the calls returned to
`WriteTo`, whose workers call the source concurrently; `ExportImage` starts from
`RebuildBlobTable`'s fresh counts.

PROJECT.json lists the parts with their status and the hazards, each at its line.

## What is modelled

### WriteTo and its pipeline

- `SerialEncode` is the abstract specification: the plain loop "fetch, encode,
  write the next blob or stop with its error".
- `BlobPipeline` is `encodeBlobsPipeline`: the dispatcher (`Dispatch`,
  `CloseJobs`), the bounded `jobs` channel (a sequence of capacity `JobCap`), the
  workers (`Receive`, `Fetch`/`FetchFails`, `Encode`/`EncodeFails`, `Exit`), one
  channel of capacity one per blob (`result`), and the two ways a turn of
  `WriteTo`'s loop can end (`Take`, `GiveUp`). Which blobs fail, and how, is
  chosen at the start (`fault`): the source and the encoder are functions of the blob.
- `WimWriter` extends it with the rest of `WriteTo`. `stage` is the program
  counter; each write appends all its units or fails after any proper prefix of
  them; `header` is absent, a zero placeholder, torn by a failed write, or
  patched. The file is a sequence of units `<<resource, k>>`, so that a resource
  header that points at the wrong place is seen to; a digest is the sequence of
  units it covers. `WriterStep` is the caller's goroutine, `Feed` and `Labour` the
  others, which go on after `WriteTo` has returned. The in-loop order of the code
  (receive, hash, write, record) is kept in `WriteBlob`; it is one step because no
  other goroutine reads what it writes, which `GrowsOnlyWhenQuiescent` is about.
- Not in it: the bytes of resources, XML, and header flags; the checks on the
  arguments are one check (an out-of-range boot index).

### The chunk pools

`ChunkPool` covers `compressChunksParallel`, `DecodeResourceData` and
`verifyIntegrityChunksParallel`, which are one pool with different endings; `kind`
says which. The atomic counter, the stop flag and the mutex-protected record of an
error are steps of their own. Decoding fewer than four chunks is the serial loop.

`ManifestStore` is the pool of another package, `component.BuildFromImage`: the jobs
made from two directories, the dispatcher with its bounded channel, the workers that
fill one slice of results, `Build` over it. What a job returns is fixed by its file, so
only the order of the goroutines is open. The module extends `ChunkPool` and sets the
two kinds of call side by side (`view`). `FetchAndPools` sets them beside the downloads,
with which they share nothing, so that one run checks all of them.

### Tree and blob table

`ImageRefs` has the tree as a function from files to the hashes of their streams,
and `bt.Entries` with its capacity, because the Install functions keep pointers
into that slice's array: `fresh` are the hashes whose pointer reaches the table,
`stale` those whose pointer reaches an array that `append` has left behind. An
Install is one action per file, for it may return an error in between; the other
calls are one action each. The files of a package are the set `Payload`; a
component has a `Manifest` besides; `Hive` is what `registry.Hive.Save` rewrites.

`BlobSources` is where the bytes come from when the result is written. The model has
the open file (its bytes and table), three tables (the source's own, another of the
caller's, `ExportImage`'s), which of the first two the caller edits, the trees in
memory, the new blobs whose bytes the caller holds, and a `WriteTo` in progress.
An entry says where its bytes are and how many they make, but not in which file, and no
read compares a digest, so an offset that was meant for another file gives other bytes
and no error. The entry an Install makes has the blob's size and no place (`Unplaced`);
the reader refuses it (`ReadResource`), except for the empty file, which needs none, so
map and reader may be asked in either order.
The index of a table follows lazily (`Indexed`), `WriteTo` overwrites an
entry's resource (`WriteBlob`) while workers look others up (`Fetch`), a failed
`WriteTo` leaves the table half overwritten, and the caller may try again with it,
rebuild it, or open what was written and go on. `Followed` is what a caller has to
see to for the result to be right: the file is as it should be, the source's table has
not been given to `WriteTo` before, and if `WriteTo` gets the source's own table, no hash
is in it twice. Each of the three is needed: without any one of them TLC finds a file that
lies (without the first it takes three calls of `WriteTo`, one more than the run has).

`ImageEdits` puts the two views of an edited image side by side. They have only
the caller in common, since a count decides nothing in `WriteTo`; `view` says which
of the two a behaviour is about.

### The directory tree

`PathTree` is the abstract specification: a map from paths to entries on which
each operation works as a whole or not at all. `DirTree` is the code: nodes with a
child slice and a cached index, and the identity test `sameChildrenSlice` on
array and length. A node has no array address: when its slice moves to another
array its index is forgotten, which is what the test amounts to; `spare` is the
room left in the array. Operations are operators on the heap that return the heap
and whether they succeeded, so that `OperationsAgree` can compare each of them,
in each state, with what `PathTree` promises. After every step what cannot be reached
is collected (`Collected`), and one heap stands for all that differ in their addresses
alone (`Renumbered`); `Gone` is what an index still names of entries that were collected.
`SpecWithUninstall` adds the one caller that changes `Children` without package
`wim`'s capacity limit, `driver.Uninstall`.

### The metadata resource

`MetadataResource` follows an image from a donor to a reader: subtrees copied with
`SecurityRemapper` and attached (`GraftSubtree`, one action for `Copy` and `AttachAt`,
which one caller calls in a row), the tree laid out and encoded in its two walks
(`AppendMetadata`), cut into chunks, compressed or kept raw, and framed
(`EncodeMetadata`), then decoded and parsed (`ReadMetadata`). The buffer is a function
from offsets to the part that starts there, so a reader sent to an offset where
nothing starts finds nothing; parts have the code's sizes and padding. How
far a chunk shrinks is left open. Resources other programs wrote, with other orders or
damaged, are not in it, nor are negative security ids other than -1.

### Registry hives

`RegfHive` is `Hive.AppendTo` and `Parse` on its result. `buildKeyCell` recurses
over the key tree; `stack` holds its calls, and each action is one thing a call
does: `Descend`, `BuildSubkeyList`, `BuildValue`, `BuildValuesList`,
`ShareSecurity`, `BuildNk`. Cells are records at the offsets `cellArena.alloc` gives
them, with their true sizes and their padding; counts the format stores in 16 bits
wrap at `Width16`, as they do in the code, which does not check them. `SkPool` is
`skpool.go`: the shared security cells, their links patched in place, in the same
arena. `ReadKey` and the operators before it are the reader, and `Expected` the tree
it ought to return. The lists `lf`, `li` and `ri` and several bins, which Parse reads
in hives other programs wrote, are not in it.

### Services and drivers in the registry

`ServiceRegistry` has the subkeys of `Services` as a sequence of named keys, each a
function from value names to typed data, as `regf.Key` searches and edits them (names
equal up to case, `Fold`), and the entries of `CriticalDeviceDatabase`. The calls
of package `service` and `driver.Uninstall` are one action each. `InstallRegistry` is
one action per service (`MergeService`, `MergeFails`) and one for the devices, as
it leaves behind what it wrote before an error. What it registers is computed from
the package's install sections (`PackageServices`, `PackageDevices`) as
`Package.Services` and `CriticalDeviceDatabaseEntries` do. `Start` stands for the
three numbers of a service, `Group` for its four optional strings and
`DependOnService` for its two lists.

### Component store and provisioned packages

`ServicingStore` is package `component` as files and keys: `Install` (`InstallFiles`)
and `InstallRegistry` (`InstallKeys`) are given the same installations, each may be
called without the other, with either hive missing, and may stop at any of its writes;
`InstallWinners` and `Remove` come in between. A call is its list of writes (`FilesOf`,
`WritesOf`) applied in order up to the first that fails. The tree is a
map from paths to entries, both hives are one map from keys to values; names stand for
all their spellings. `log` keeps the calls, so that the property can say which of them
were the last to touch a component. The checks of names for separators are part of
`Sound`.

`AppxRemoval` is `appx.Remove`: list, `Applications` and `Deprovisioned` keys,
directories, with any of the last three left out by the caller.

`Registrations` puts these two beside `ServiceRegistry`, and `RegfHive`, which writes a
hive when nobody edits it any more. They work below different keys and call nothing of
one another; `view` says which of them a behaviour is about.

### ISO images

`IsoNames` is `name.go`: folding, the limits of ECMA-119 and Joliet, the counters that
keep identifiers of one directory apart, the order of 9.3. `IsoImage` is the rest of
the package. `AddFile`, `AddDir` and `AddTree` build the tree; `WriteTo` is its
passes in order: normalise the options, assign identifiers, size the fragments one
after the other (which fixes every sector number), write them out, copying the files,
whose sources may meanwhile have changed. The written image is a record of what
each view says: descriptors, directory records and path tables of both hierarchies,
UDF entries and allocation descriptors, the boot catalog, the MBR.
`DirectoriesTrue` and `BridgeTrue` compare the views with where things were put.

### Downloads

`FidoFetch` is `FetchDownloadURL` request by request: selection, locale, registration
of a session for each edition, the two steps of its handshake, up to three requests for
its SKUs, merging by language, links, choice of the architecture. `CapabilityFetch` is
`FindBuild`, `GetFiles`, `FindCapabilityFile` and `Download`. The services are
nondeterministic: any answer of the given sets or a failure, and after the caller
cancels, a failure. `served` records what was answered, so that the properties
can say what the call owed its caller. `Downloads` composes the two; they differ in
what makes a request end, which is where their fairness differs. `FetchAndPools` is what
is run.

### Codecs and cabinets

Each codec is one chunk compressed by one call and decompressed by another that gets the
stream and the length only (`CodecCall`, which also has what the prefix codes of `lzx`
and `xpress` share).

- `LzxHuffman`: `buildLengths` with its limit, and how codeword lengths are sent.
  `LzxParse`: binary search trees, hash chains, the optimal parser, the queue of recent
  offsets. `LzxCodec`: call filter, splitting into blocks, block headers, the decoder. The
  filter overwrites the chunk's tail with opcodes while it scans and puts it back
  (`Marked`), so that an operand that reaches into the tail is read with them.
- `XpressCodec`: the bit writer that keeps places free for units to come, between which
  long lengths go as bytes, and the reader that has to load units exactly there.
- `LzmsCodec`: the range coder with its carries, adaptive probabilities, codes rebuilt
  after every so many symbols, x86 filter, matches, both streams.
- `CabMaker` (external: another program's work, inferred from what the reader expects)
  makes cabinets of LZX frames; `CabReader` is package `cab`: headers, checksums, the
  memo of folders, and `lzxCabDecompress` frame by frame.

Where an encoder compares sizes or costs, the model leaves the choice open: any
candidate may win, so what is shown holds for every cost model. Streams
are sequences of fields with their widths or bits, never bytes put together. `Codecs`
composes them with `MetadataResource`; these modules use RECURSIVE operators and are only model-checked.

## Runs

| Run | Checks | Bounds, and why they are enough |
|---|---|---|
| `writer` | no blob lost or doubled (`EveryBlobAccounted`); a reader finds everything (`HeaderMeansComplete`); digests verify (`IntegrityVerifies`); the pipeline is the serial loop (`ImplementsSerialLoop`); the table grows only when nobody reads it (`GrowsOnlyWhenQuiescent`); everything ends (`Returns`) | 5 blobs, 2 workers (channel capacity 4, so the dispatcher blocks), 2 images, payloads of 0, 1 and 2 units, chunks of 2: empty payloads, chunks across payloads and both a full and a partial last chunk occur |
| `image_refs` | counts: `TableCoversTree`, `NewBlobsReturned`, `NeverUndercounts`, `ReinstallKeepsCounts`, `RemovalIsExact`; bytes: `WritesTellTheTruth` | counts: two hashes and the empty one, one payload file with up to two streams, a manifest, a hive, Installs of up to 2 files, counts up to 4 (a guard stops what would exceed it). Bytes: 2 blobs and the empty file, files of up to 2 images, 2 files placed or removed, 2 calls of `WriteTo`: a retry, a rebuild, an export and a reopened result are all reached |
| `image_refs_lost` | finding: `EveryPlacementCounted` fails | as the counts above |
| `dir_tree` | each operation, answered from an index or by a scan, does in each state what the map of paths promises, and leaves a tree (`OperationsAgree`); `ImplementsPathTree` | 3 names, paths of length 2, 4 nodes: a directory with 3 children and one with subdirectories both fit, slices grow and shrink through capacities 1, 2 and 4 |
| `dir_tree_uninstall` | finding: with that caller, an index lies (`NeverStale`) | as above |
| `services` | a registration that returns no error is complete, in a well-formed hive (`PackageRegistered`), and changes nothing the second time (`RepeatChangesNothing`); each call does what it says to one service, `Uninstall` to its device entries too (`CallsDoAsTheySay`); files and keys of the component store agree on what was installed last (`HalvesAgree`); the first removal of a family decides what is left of it (`FirstRemovalDecides`); of a hive being written: security cells in one circular list (`SkListCircular`) with exact counts (`SkCountsExact`), a tree that reads back if and only if it fits, each cell's parent the cell above (`RoundTrip`) | Services: 4 calls; 2 services, one spelled in two ways, and the empty name; 4 packages, among them one whose second service may fail, one that cannot be read and two that share a device; 3 hives to begin with, with values of other programs, a missing and a malformed value. Store: 3 calls (a half, its repetition or the other half, and something in between; 4 calls were checked once), 8 installations, among them one that cannot be registered after its first component, one of packages only, one for build time, one with no choice; a tree with a file where a directory should be and the reverse. Provisioned packages: 2 removals of families spelled in two ways, any part left out. Hive: trees of up to 5 keys, with 16-bit fields that wrap at 4, segments of 8 bytes and a reader's depth of 4, so that each limit is met from both sides; values of every length that is stored differently, among them one that starts with a data block's signature; three descriptors, shared and not |
| `iso` | every view of a written image finds its directories, records and files where they are (`DirectoriesTrue`), so do UDF, boot catalog and MBR (`BridgeTrue`); identifiers differ, are of legal characters and in order, and keep the limits as far as the counters leave them (`IdentifiersLegal`) | up to 3 of 15 calls (colliding names in every way, files around the limits of a sector, a section and an extent), seven sets of options; sectors of 256 bytes, names of 3 and 2 characters |
| `iso_directories` | finding: `DirectoriesFit` fails | as above |
| `iso_names` | finding: `CounterWithinLimit` fails | the package's own limits (8, 3, 30, 31, 64); eleven files of one directory |
| `fetch_and_pools` | downloads: `SkusKeepTheirSession`, `AnswersAreUsed`, `PayloadAsAsked`, `Ends`; pools: `OneWriterPerChunk`, `ErrorIsTruthful`, `ReportsLowest`; every call returns, `BuildFromImage` with each file in its place (`CallsReturn`) | Downloads: an edition under two product ids whose SKUs share a language, a shell image, 3 attempts; builds of different lengths, file lists with several matches, a broken one and none, bodies of up to 3 blocks. Pools: up to 5 chunks (serial decoding ends at 3), up to 3 workers, every set of bad chunks; 7 files to read, one more than the channel holds, one, none, and a missing directory |
| `codecs` | `LzxLossless`, `XpressLossless`, `LzmsLossless`; no longer match was passed over (`LongestMatch`); the prefix codes of `xpress` and `lzms` are codes within their limit (`CodesValid`); every file of a cabinet is what was packed, or an error (`FolderBytes`); a grafted subtree reads back from the written metadata exactly when it fits (`GraftReadsBack`) | the formats' constants are scaled down (bytes of 3 bits, codewords of up to 4, units of 4 bits, frames of 8 bytes), so that inputs of up to 18 bytes meet blocks, overlong codes, carries, rebuilt codes, repeated and overlapping offsets, operands of calls that reach into a filtered chunk's tail, and frames that blocks run across. No chunk is long enough for the over-subscribed code of `lzx_codes`, so `LzxLossless` says nothing of one that is; `xpress` builds codes for frequencies as unequal as can be, `lzms` for those that leave no symbol deeper than the limit, as its totals do. Metadata: true sizes, with 16-bit fields that wrap at 8, a reader's depth of 3 and wide chunk tables from 832 bytes, so that both sides of each limit occur; images of 1 to 4 chunks, the last of one byte too; two grafts that share descriptors, one below the other, one where something is; ids that point past the donor's table |
| `lzx_codes` | finding: `CodesValid` fails for `buildLengths` of `lzx` | the format's limit of 16; the first 2 to 20 Fibonacci numbers as frequencies |

Deadlock is checked in `dir_tree`, `dir_tree_uninstall` and `image_refs_lost`, where a
caller can always make another call. Elsewhere a call that has returned stops
(`writer`, `fetch_and_pools`, `iso`, `iso_directories`, `iso_names`, `codecs`,
`lzx_codes`) or
calls are bounded (`services`, `image_refs`).

Fairness is needed for `Returns`, `CallsReturn` and `Ends` only. In the first two it is
weak fairness of each goroutine, which the Go scheduler gives every goroutine that can
run, and of `WriteTo`'s own steps, since it never waits but on channels the pipeline
serves; a `BlobSource` that blocks for ever is outside it. For `Ends`, `fido`'s
client has a timeout of 30 s (`fido.go:138`), so each of its requests ends; `wufetch`
uses `http.DefaultClient`, which has none, so its steps are fair only
once the caller's context is done, and `Ends` promises no more.

### Findings

- `lzx_codes`: `buildLengths` promises "a valid (Kraft-inequality satisfying) prefix code
  even for adversarial frequency distributions" (`huffman.go:51`), but its correction
  counts only the leaves that are too deep, not the inner nodes above them. With four or
  more leaves under one node at the limit the lengths are over-subscribed; with the
  format's 16 bits it takes frequencies of Fibonacci's kind, which fit into one chunk.
- `iso_directories`: `numSections` counts the sections of a file that `fileDataSectors`
  has allocated, but directories are sized first; a file of several sections then needs
  records nobody made room for, and `WriteTo` fails with an internal error.
- `iso_names`: `dedupe` writes a counter over the end of a File Name, "so that the
  result still respects the length limit", but a name with less room than the counter has
  digits gets the counter in full: at Level 2, with an extension of 29 characters, the tenth
  collision makes an identifier of 31 characters.
- `image_refs_lost`: `driver.Install` and `component.Install` count through
  pointers into an array that `append` may have left behind, and the count is lost.
- `dir_tree_uninstall`: `driver.Uninstall` shifts `Children` within its array; after
  a later append the old child index passes the identity test and `Child` answers
  from it, against the comment on `DirEntry.childIndex`.

Observations, which no run states as a violation:

- `wim`. The comment in `blob_pipeline.go:32` says that the jobs channel bounds the
  encoded bytes held; it bounds the indices waiting to be fetched, and a worker puts its
  payload into the blob's own channel and goes on. A source over the very table
  `WriteTo` is given reads entries that are being overwritten (`ByHash` copies after
  its unlock, and the workers of a failed call go on reading); with each hash once
  that is harmless, as no entry is read after its own turn, but two images with equal
  metadata have one hash. A second `WriteTo` over the source's own
  table reads at the first one's offsets. No caller in the library shortens a table, so
  `ensureIndexLocked`'s branch for that is not modelled.
- `wim` metadata. The writer refuses a dentry name whose length does not fit 16 bits
  (`dentry_write.go:104`), but truncates the length of a stream's name and the
  number of streams without a check (`:182`, `:141`). It writes trees of any depth; the
  reader stops at 16384. Extra data whose length is no multiple of eight comes back padded,
  and a list whose first stream is named comes back with an unnamed one before it.
- `regf`. `AppendTo`'s comment (`hive.go:299`) says that Parse reads back what it
  writes, without the limits `RoundTrip` shows to be needed; `nk.go:44` still describes
  one security cell per key.
- `driver`, `service`. `Package.Services` keeps a service's first install section only
  and `CriticalDeviceDatabaseEntries` looks a device's service up by section
  (`criticaldevicedatabase.go:67`): the devices of a second section that adds the same
  service get none. `SetStartType` "changes just Start", but rewrites every value with
  the type `Install` gives it; what `service.Read` returns is unaffected, which is what
  `CallsDoAsTheySay` states. Merging into an existing device keeps the values the new
  entry does not set.
- `component`, `appx`. `Hives` says that a caller may have one hive only, but an
  installation of packages with catalogs and no components passes the check for a missing
  COMPONENTS hive (`installregistry.go:178`) and panics at `:308`. A file name of more
  than 25 characters is placed by `Install` and refused by `InstallRegistry`, after the
  components before it. A deployment registered with another catalog keeps the old
  catalog's link. `placeFile` gives a directory that is in the way the stream of the
  file. `Remove` leaves the keys, as it says: files a later installation no longer has stay
  listed under `f!`. A second `appx.Remove` that is given more of the image finds no names
  left to remove there. `ParseManifest` skips the four bytes of a compressed manifest's
  signature after looking for three (`build.go:55`), so that one of just `DCM` ends in a
  panic of a worker instead of an `Entry.Err`.
- `lzms`. `computeLengthCounts` would leave a symbol without codeword below the
  limit, but the totals are diluted before they are large enough for that.
- `cab`. A comment (`cablzx.go:295`) allows a match to overrun its frame, but
  `decodeFrame` then starts the next frame's count anew and would read too far;
  `CabMaker` keeps matches within their frames. `ExtractFile` returns parts of the
  folder it keeps, not copies; a `Reader` is not for concurrent use.
- `iso`. `AddTree` does not look for names that are there; a `MaxSectionSize`
  below a sector rounds to none (excluded by an assumption); path table indices and
  hybrid sector counts wrap. A file that changed is noticed after it has been written.
- `fido`, `wufetch`. A ban is retried like any error; a locale that fails becomes en-US; a
  file without a digest is not verified; payload bytes reach the writer before the
  digest is compared, so a failed download leaves them there.

## Proofs

TLAPS checks, for all values of the constants under the named assumptions
(`PipelineAssumption`, `WriterAssumption`, `PoolAssumption`, `HiveAssumption`,
`TreeAssumption`, `DescriptorAssumption`, `RefsAssumption`, `SourcesAssumption`,
`FidoAssumption`, `CapabilityAssumption`, `AppxAssumption`, `RegistryAssumption`,
`StoreAssumption`, `DirTreeAssumption`: numbers are numbers, there is a worker if there is a blob, images have metadata, trees are made of keys, hashes, files and blobs are
finitely many, what a read refuses is no blob, tables are lists, product ids and SKUs have
answers, build numbers have digits, a declared digest is the right one, a hive to begin with has
keys of different names, a package adds no service without a name, a directory tree has a root
and there is a name; installations are made of lists, no keyform is `Manifests` or
`Catalogs`, no file is projected onto a file of the store or below one, and where these belong
an image has no directory to begin with):

- `WimWriter_proofs`: of the pipeline by itself, `PipelineInv` is inductive.
  `EveryBlobAccounted` alone is not: that a received index belongs to nobody else needs
  `ChannelInOrder` (the channel holds exactly the indices after the received ones) and
  `OneWorkerPerBlob`; that the serial loop would have failed on the same blob needs
  `OutcomeIsOwn`. From it follow `EveryBlobAccounted`, quiescence after the drain,
  and the refinement: each step is a step of `SerialEncode` or a stutter.
  Every step of the writer is a step of the pipeline or leaves
  it alone, so the pipeline's invariant and refinement carry over. `DrainsFirst`
  gives `GrowsOnlyWhenQuiescent`. `HeaderMeansComplete` needs that every resource
  recorded so far lies where it was recorded and is never overwritten: the file
  only grows (`FileInv`). For `IntegrityVerifies` the accumulator is, while the file is
  written, a function of the bytes so far (`IntegrityInv`): how they were cut into pieces
  does not matter (`AccWrites`: there is no least unit after which it would), the last
  partial chunk completes the digests up to the table's end (`AccFinishes`), and
  what is written behind that end changes none of them (`DigestsGrow`).
- `ChunkPool_proofs`: `PoolInv`, whose parts say where each claimed chunk is
  (`ClaimedIsProcessed`), why a worker may have left (`ExitIsJustified`) and which
  bad chunks below the recorded one are still in hand (`LowestSoFar`).
- `RegfHive_proofs`: `SkInv` (the list, its index and their types) is inductive
  together with `TypeOK`. A new cell's offset is above all others, since the arena
  only grows (`CellSizeBound`), so "the next cell in the order of creation" is
  well defined and the four patches re-establish it (`PatchedLinks`). The steps that
  allocate other cells move `top` and leave the list alone
  (`OtherCellsKeepSkInv`). Not used: anything about the tree's shape, so the result
  holds for every tree, also one the reader refuses. `SkCountsExact` counts the nk
  cells of a descriptor in the arena and those a call holds in hand: `CountInv` adds
  that every cell lies below the arena's end (`CellsWritten`, so a new cell is one
  more user and overwrites none) and that only the innermost call can hold a
  security cell it has not yet written (`CellsInHand`).
- `ImageRefs_proofs`: `ImageInv`. That an append never doubles an entry needs
  `Mapped`: during an Install its map, through stale pointers or not, has exactly the
  hashes of the table, for it also learns what the Install itself appends.
  `NewBlobsReturned` needs `Supplied`, which speaks of the blobs a running call has not
  returned yet, and `NeverUndercounts` needs `Counted`, the same for every entry
  and not only for those the tree refers to. Under them lie lemmas on the number
  of places at which a tree names a hash: `PlacingCounts` (a replaced file takes one
  from its old hash and gives one to the new) and `RemovingCounts` (what is removed and
  what remains add up), from which `RemovalIsExact` follows too.
  `ReinstallKeepsCounts` needs `RepeatInv`: which files of the call are in place
  (`Progress`) and, while a call repeats the last one, that the counts and the tree
  differ from those before it by the same references (`Repetition`, with the hashes the
  files had then as a witness that no step changes).
- `BlobSources_proofs`: `SourcesInv`, for `WritesTellTheTruth` under any sequence of
  edits, exports, writes that fail and writes that are repeated. Its parts: every
  table's index finds what it is asked for (`IndexesFind`); the metadata resources of
  the file are images and its table lists what they refer to (`ImagesKept`); what the
  caller's trees refer to is in the source's table or was given (`Sourced`); a table no
  WriteTo was given still holds the file's own entries, besides new ones that the reader
  refuses (`SourceUntouched`); and for the
  WriteTo at hand, how far it is (`WriteProgress`) and that what it has written so
  far reads back (`WriteFollowed`). A table put in another order lists the same blobs
  (`InSomeOrder`), and the metadata resources selected from one are the i-th of them in
  order (`CountedTo`).
- `Downloads_proofs`: `FidoInv` and `CapInv`. A request for links may be made under the
  session of its SKU because the stage says how far the session at hand is (`Sessions`),
  because an accepted list adds to the merged one exactly its own SKUs under that
  session and never a second entry of a language (`MergedKeeps`), and because nothing
  changes an entry afterwards. `AnswersAreUsed` needs that the links collected are the
  links offered and how many SKUs have been asked (`LanguageChosen`); that no
  usable list is wasted rests on an answer's decoding not depending on those before it.
  For `PayloadAsAsked`, `NewerIsLater`: what is newer number by number comes earlier
  in the order `ListBuilds` sorts by.
- `Registrations_proofs`: `AppxInv` is about the calls made so far: the list, the
  keys and the folders are what the image had without what those calls took
  (`CallAdds`), and a call takes only what none before it did. `RegistryInv` is about
  keys by their names up to case. With no two keys of one name (`AreKeys`), everything
  read or written is a matter of the values a name has (`RegisteredIs`, `InstalledIs`,
  `RemovedIs`), and a service is `Stored` when writing it again would not change them:
  then it reads back as given (`StoredReads`), stays stored while others are installed
  (`InstallStores`) and is passed over by a second call. The invariant says which services
  of the package are stored at each step of `InstallRegistry`, and that all
  are, with all device entries, as long as nothing else has been done since a call that
  succeeded. Entries come from lists put together and thinned out by recursive functions,
  whose existence and course are lemmas (`Recursion`, `SameCourse`).
  For `HalvesAgree`, `StoreInv` says of every call in the log that returned
  without an error: what it placed or wrote stands (`ComponentFilesStand`,
  `ComponentKeysStand` and the same for packages) unless a later call touched the
  same component or package; and of the last call, that what it does is in the tree or
  the hives already (`CallHolds`). What a list of files or writes leaves is
  stated once, for lists of any length (`PlaceAllDoes`, `RegisterAllDoes`): each place and
  each value has what the last entry about it gave. So the manifest and its hash are
  both those of the last component of the keyform (`FinalManifest`, `FinalHash`), and
  a list that is in the tree or the hives is applied again without a change
  (`PlacedStays`, `RecordedStays`), with other hives too (`OtherHives`). Another
  installation, a removal or a projection does not reach the places of a component that is
  not its own (`FilesDo`, `RemovedStand`), nor do its writes (`KeysDo`). A link from
  a catalog is written after the key of its deployment (`WritesInTurn`).
- `DirTree_proofs`: `ForestInv`. Its part `Forest` says of every entry, reachable or not,
  that it has one place and only directories have children, and that siblings differ in
  name; `IndexTrue`, that an index is true of the first so many children that it was built
  from, or there are fewer by now and the array is full, so that the next one moves it. `NeverStale` follows,
  and `driver.Uninstall`, which makes room without forgetting the index, is what breaks
  it. What each kind of change does to the paths is proved once: a child appended
  (`AppendFinds`), cut out (`CutFinds`), given another stream; a walk only builds
  indexes, and a way to a new entry adds exactly the directories that were missing
  (`WayIs`). An operation is a few of these, and its effect on the map of paths is
  `PathTree`'s (`AddDoes`, `RenameDoes` and so on). For `Rename`: two paths to one
  entry are equal, so the search below the entry (`containsEntry`) finds the destination
  exactly if the source's path is a prefix of it (`BelowWithin`), which was refused
  before, and every path below the entry changes its beginning and nothing else
  (`MovedIs`). Paths are as long as one likes: what is wrong for some path is wrong for a
  shortest one (`PathInduction`). A collected and renumbered heap has the same
  paths (`RenumberedIs`). `OperationsAgree`, the refinement `ImplementsPathTree` and
  `NeverStale` follow from the invariant and the lemmas about single operations.

Only model-checked: liveness (`Returns`, `CallsReturn`, `Ends`), which this prover does
not reach; everything about the codecs, whose operators are recursive, and `RoundTrip`
and `GraftReadsBack`, whose readers are. The library's induction theorems cannot be
used, for they take an operator as a parameter. Where a proof needs the least number of a
set it takes it from the well-foundedness of `<` (`LeastExists`, `LeastNumber`); that
is also how properties of recursive functions are shown, in modules that declare no
`RECURSIVE` operator: what is wrong for some number is wrong for a least one
(`AccWrites`, `MergedAfterExists`, `MergedKeeps`, `NumberIsNat`). Not proved: `IsoImage`.

## Not modelled, and the plan

In this order:

1. Proofs: `IsoImage`.
2. `CurrentControlSet` (`service/controlset.go`), and the helpers of `registry` that
   read keys.
3. Reading foreign hives: `lf`, `li` and nested `ri` lists.
4. `Formats`: header and integrity table limits; metadata resources of other programs.
5. `lzms`' repeated offsets and delta matches, which its encoder never writes.

Left out for good: wording, XML text, glob matching, ASN.1 and INF syntax, PE
and PA30 parsing (no state, nothing a model tells that a test does not), and the
encoders' cost models (any choice they make is correct).
