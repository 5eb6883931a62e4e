-------------------------- MODULE CapabilityFetch --------------------------
(***************************************************************************)
(* Package wufetch (src/wufetch): FindBuild picks the newest indexed build,  *)
(* GetFiles lists its files, FindCapabilityFile picks the payload of one     *)
(* capability, and Download copies it to the caller's writer while it hashes *)
(* it, so that the bytes are out before the digest is known.                 *)
(*                                                                          *)
(* The index answers with JSON objects, whose members come in no order.      *)
(* A build number is a sequence of components, each a sequence of digits;    *)
(* file names are sequences of words, compared up to case.                   *)
(***************************************************************************)
EXTENDS Integers, Sequences, FiniteSets, SequencesExt

CONSTANTS
    Requests,       \* what a caller asks for: see CapInit
    Indexes,        \* the sets of builds listid.php may answer
    FileLists,      \* the file lists get.php may answer
    KnownFamilies,  \* KnownCapabilityPackages
    ArchNames,      \* the architectures in the order of their names
    MaxBlocks       \* blocks of a response body

VARIABLES
    want,       \* the caller's request
    at,         \* where the calls stand
    gone,       \* whether the caller's context is done
    build,      \* what FindBuild returned
    index,      \* the builds it chose from
    files,      \* what GetFiles returned
    file,       \* what FindCapabilityFile returned
    body,       \* the body being downloaded
    written     \* blocks the caller's writer has taken

capVars == <<want, at, gone, build, index, files, file, body, written>>

NoBuild == [none |-> TRUE]

\* Build numbers have digits; a digest that a file list declares is the right one.
ASSUME CapabilityAssumption ==
    /\ MaxBlocks \in Nat \ {0}
    /\ \A found \in Indexes : \A b \in found : b.build \in Seq(Seq(0 .. 9))
    /\ \A listed \in FileLists : \A f \in listed : f.sha256 \in {"", "right"}

-----------------------------------------------------------------------------
(* Builds.                                                                   *)

Dot == 10
ValueUpTo(digits) ==
    LET value[k \in 0 .. Len(digits)] == IF k = 0 THEN 0 ELSE 10 * value[k - 1] + digits[k]
    IN  value
Number(digits) == ValueUpTo(digits)[Len(digits)]
Text(b) == FlattenSeq([i \in DOMAIN b |-> IF i = 1 THEN b[i] ELSE <<Dot>> \o b[i]])

\* A slip the properties must catch: the numbers are compared as text.
buildLessText(a, b) ==
    \E i \in 1 .. Len(Text(b)) :
        /\ \A k \in 1 .. i - 1 : k <= Len(Text(a)) /\ Text(a)[k] = Text(b)[k]
        /\ i > Len(Text(a)) \/ Text(a)[i] < Text(b)[i]

\* The first component that differs decides, else the number of components.
buildLess(a, b) ==
    LET differ == {i \in 1 .. Len(a) : i <= Len(b) /\ Number(a[i]) # Number(b[i])}
    IN  IF differ = {} THEN Len(a) < Len(b)
        ELSE \E i \in differ : (\A k \in differ : i <= k) /\ Number(a[i]) < Number(b[i])

\* ListBuilds sorts by build, newest first, then by architecture and id.
PlaceOf(arch) == CHOOSE i \in DOMAIN ArchNames : ArchNames[i] = arch
Earlier(x, y) ==
    IF x.build # y.build THEN buildLess(y.build, x.build)
    ELSE PlaceOf(x.arch) < PlaceOf(y.arch) \/ (x.arch = y.arch /\ x.uuid < y.uuid)

Matches(b) == b.arch = want.arch /\ IsPrefix(want.prefix, Text(b.build))

\* Of the sorted builds the first that matches, so none that matches is earlier.
FindBuild(found) == {b \in found : Matches(b) /\ \A c \in found : Matches(c) => ~Earlier(c, b)}

-----------------------------------------------------------------------------
(* Files.                                                                    *)

\* The family, then the architecture behind its first occurrence, in a cabinet.
Occurs(name, part) ==
    LET hits == {i \in 1 .. Len(name) : IsPrefix(part, SubSeq(name, i, Len(name)))}
    IN  IF hits = {} THEN 0 ELSE CHOOSE i \in hits : \A k \in hits : i <= k
Candidate(name, family, arch) ==
    /\ name[Len(name)] = "cab"
    /\ Occurs(name, family) # 0
    /\ arch # "" => \E i \in Occurs(name, family) .. Len(name) : name[i] = arch

Family == IF want.family # <<>> THEN want.family
          ELSE IF want.capability \in DOMAIN KnownFamilies THEN KnownFamilies[want.capability]
          ELSE <<>>

\* Of several matches one with the shortest name, whichever comes first.
Chosen(matches) == {f \in matches : \A g \in matches : f.chars <= g.chars}

FindCapabilityFile(listed) ==
    IF Family = <<>> THEN {} ELSE Chosen({f \in listed : Candidate(f.name, Family, want.arch)})

-----------------------------------------------------------------------------
(* The calls.                                                                *)

CapInit ==
    /\ want \in Requests
    /\ at = "find" /\ gone = FALSE
    /\ build = NoBuild /\ index = {} /\ files = {} /\ file = NoBuild
    /\ body = <<>> /\ written = <<>>

\* getJSON fails on a broken answer, on an error it names and on other statuses.
FindTheBuild ==
    /\ at = "find"
    /\ \/ at' = "failed" /\ UNCHANGED <<build, index>>
       \/ /\ ~gone
          /\ index' \in Indexes
          /\ IF FindBuild(index') = {} THEN at' = "failed" /\ UNCHANGED build
             ELSE build' \in FindBuild(index') /\ at' = "list"
    /\ UNCHANGED <<want, gone, files, file, body, written>>

\* GetFiles: one entry whose size cannot be read fails the whole list.
GetFiles ==
    /\ at = "list"
    /\ \/ at' = "failed" /\ UNCHANGED files
       \/ /\ ~gone
          /\ \E listed \in FileLists :
                IF \E f \in listed : f.size = "junk"
                THEN at' = "failed" /\ UNCHANGED files
                ELSE files' = listed /\ at' = "choose"
    /\ UNCHANGED <<want, gone, build, index, file, body, written>>

ChooseFile ==
    /\ at = "choose"
    /\ IF FindCapabilityFile(files) = {} THEN at' = "failed" /\ UNCHANGED file
       ELSE file' \in FindCapabilityFile(files) /\ at' = "request"
    /\ UNCHANGED <<want, gone, build, index, files, body, written>>

\* The service sends the file, something else, or nothing that counts as success.
Bodies == UNION {[1 .. n -> {"good", "bad"}] : n \in 0 .. MaxBlocks}
RequestFile ==
    /\ at = "request"
    /\ \/ at' = "failed" /\ UNCHANGED body
       \/ ~gone /\ file.url /\ body' \in Bodies /\ at' = "copy"
    /\ UNCHANGED <<want, gone, build, index, files, file, written>>

\* io.Copy: block after block reaches the writer and the digest.
CopyBlock ==
    /\ at = "copy" /\ Len(written) < Len(body) /\ ~gone
    /\ written' = Append(written, body[Len(written) + 1])
    /\ UNCHANGED <<want, at, gone, build, index, files, file, body>>

\* The connection breaks, the context is done, or the writer refuses a block.
CopyFails ==
    /\ at = "copy"
    /\ at' = "failed"
    /\ UNCHANGED <<want, gone, build, index, files, file, body, written>>

\* The file is the one block of good bytes per unit of its length.
Digest(blocks) == IF blocks = [i \in 1 .. file.blocks |-> "good"] THEN "right" ELSE "wrong"

\* A file without a declared digest is taken as it comes.
Verified == file.sha256 = "" \/ file.sha256 = Digest(written)

CopyEnds ==
    /\ at = "copy" /\ written = body
    /\ at' = IF Verified THEN "done" ELSE "failed"
    /\ UNCHANGED <<want, gone, build, index, files, file, body, written>>

CapEnded == at \in {"done", "failed"}

CancelCap ==
    /\ ~gone /\ ~CapEnded
    /\ gone' = TRUE
    /\ UNCHANGED <<want, at, build, index, files, file, body, written>>

CapStep == FindTheBuild \/ GetFiles \/ ChooseFile \/ RequestFile \/ CopyBlock \/ CopyFails \/ CopyEnds

-----------------------------------------------------------------------------
\* The build a payload is for is a matching one that no matching build of the
\* index is newer than, number by number; the file is a cabinet of the family for
\* the architecture with the shortest name of all; and DownloadCapability reports
\* success only when the caller's writer holds exactly the bytes of the declared
\* digest, if there is one.
PayloadAsAsked ==
    LET Newer(a, b) == \E i \in 1 .. Len(a) :
            /\ \A k \in 1 .. i - 1 : k <= Len(b) /\ Number(a[k]) = Number(b[k])
            /\ i > Len(b) \/ Number(a[i]) > Number(b[i])
    IN  /\ build # NoBuild =>
            /\ Matches(build)
            /\ \A b \in index : Matches(b) => ~Newer(b.build, build.build)
        /\ file # NoBuild => \A f \in files :
            Candidate(f.name, Family, want.arch) => file.chars <= f.chars
        /\ at = "done" =>
            \/ file.sha256 = "right" /\ written = [i \in 1 .. file.blocks |-> "good"]
            \/ file.sha256 = "" /\ written = body
=============================================================================
