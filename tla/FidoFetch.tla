----------------------------- MODULE FidoFetch -----------------------------
(***************************************************************************)
(* Package fido (src/fido): FetchDownloadURL finds the link of a Windows     *)
(* image by talking to three services.  Each product edition gets a session  *)
(* of its own, which is registered, completes a handshake, and only then may *)
(* list the edition's SKUs, up to three times with a pause in between.  The  *)
(* SKUs are merged by language, each with the session it was listed under,   *)
(* because only that session may later ask for its links.                    *)
(*                                                                          *)
(* The services answer as they like; a request ends because the client has a *)
(* timeout, and it fails at once when the caller's context is cancelled.     *)
(* Names are sequences of words, compared up to case; "contains" is by words.*)
(***************************************************************************)
EXTENDS Integers, Sequences, FiniteSets, SequencesExt

CONSTANTS
    Versions,       \* windowsVersions followed by uefiShellVersions
    Configs,        \* the Config values a caller may pass
    Offered,        \* per product edition, the lists of SKUs the service may answer
    Links,          \* per SKU, the links the service may answer
    MaxAttempts     \* requests for one edition's SKUs (3)

VARIABLES
    cfg,            \* the caller's Config
    stage,          \* the request in flight, or where the call stands
    cancelled,      \* whether the caller's context is done
    locale,         \* the locale in use
    ids,            \* edition.ids of the selected edition
    edition,        \* index of the edition whose SKUs are being collected
    attempt,        \* attempts made for this edition
    resp,           \* the response struct all attempts decode into
    languages,      \* languageEntry list
    lang,           \* the selected entry
    nextSku,        \* index of its next SKU
    links,          \* download links so far
    result,         \* what the call returns
    served          \* what the services have seen: see ServedType

fidoVars == <<cfg, stage, cancelled, locale, ids, edition, attempt, resp, languages, lang,
              nextSku, links, result, served>>

None == [none |-> TRUE]
Latest == <<"latest">>
EnUS == "en-US"
IsUefi(v) == v.pageType[1] = "UEFI_SHELL"

\* The SKUs and the links the services may answer.
Skus == UNION {ToSet(list) : list \in UNION {Offered[i] : i \in DOMAIN Offered}}
Offers == UNION {ToSet(list) : list \in UNION {Links[i] : i \in DOMAIN Links}}

\* The tables are lists; a product edition has SKUs, and a SKU has links, to answer.
ASSUME FidoAssumption ==
    /\ MaxAttempts \in Nat \ {0}
    /\ Versions \in Seq(ToSet(Versions))
    /\ \A v \in ToSet(Versions) :
        /\ v.releases \in Seq(ToSet(v.releases)) /\ v.releases # <<>> /\ v.pageType # <<>>
        /\ \A r \in ToSet(v.releases) :
            /\ r.editions \in Seq(ToSet(r.editions))
            /\ IsUefi(v) \/ \A e \in ToSet(r.editions) : e.ids \in Seq(DOMAIN Offered)
    /\ \A i \in DOMAIN Offered : Offered[i] \subseteq Seq(Skus)
    /\ \A sku \in Skus : sku.id \in DOMAIN Links
    /\ \A i \in DOMAIN Links : Links[i] \subseteq Seq(Offers)

-----------------------------------------------------------------------------
(* Selecting version, release and edition: no request is made.               *)

HasWords(words, part) == \E i \in 0 .. Len(words) : IsPrefix(part, SubSeq(words, i + 1, Len(words)))

\* The first entry of a table whose name matches; an empty name is refused.
FirstMatch(table, Matches(_)) ==
    IF \E i \in DOMAIN table : Matches(table[i])
    THEN table[CHOOSE i \in DOMAIN table :
                 Matches(table[i]) /\ \A k \in 1 .. i - 1 : ~Matches(table[k])]
    ELSE None

findVersion(name) ==
    IF name = <<>> THEN None ELSE FirstMatch(Versions, LAMBDA v : HasWords(v.name, name))
findRelease(v, name) ==
    IF v = None \/ name = <<>> THEN None
    ELSE IF name = Latest THEN v.releases[1]
    ELSE FirstMatch(v.releases, LAMBDA r : IsPrefix(name, r.name))
findEdition(r, name) ==
    IF r = None \/ name = <<>> THEN None
    ELSE FirstMatch(r.editions, LAMBDA e : HasWords(e.name, name))

selectLanguage(entries, name) ==
    FirstMatch(entries, LAMBDA l : HasWords(<<l.code>>, name) \/ HasWords(l.display, name))
selectArch(all, name) == FirstMatch(all, LAMBDA l : l.arch = name)

\* archFromType
archFromType(t) == CASE t = 0 -> "x86" [] t = 1 -> "x64" [] t = 2 -> "ARM64" [] OTHER -> "Unknown"

fetchUEFIShellLink(v, r, e) ==
    [release |-> r.name[1], shell |-> IF Len(v.pageType) = 2 THEN v.pageType[2] ELSE "",
     debug |-> e.ids # <<>> /\ e.ids[1] = 1]

-----------------------------------------------------------------------------
(* What the services may answer to a request for SKUs.                       *)

Answer(kind, skus, errors) == [kind |-> kind, skus |-> skus, errors |-> errors]
Transport == Answer("transport", <<>>, <<>>)
SkuAnswers(id) ==
    {Transport, Answer("garbage", <<>>, <<>>), Answer("json", <<>>, <<>>)}
    \cup {Answer("json", skus, errors) : skus \in Offered[id], errors \in {<<>>, <<9>>, <<5>>}}

\* A request whose context is done does not reach the service.
Answers(all) == IF cancelled THEN {Transport} ELSE all

\* A slip the properties must catch: what an answer leaves out is kept from the
\* answer before, because nothing resets the response between two attempts.
UnmarshalOver(answer) ==
    [skus |-> IF answer.skus = <<>> THEN resp.skus ELSE answer.skus,
     errors |-> IF answer.errors = <<>> THEN resp.errors ELSE answer.errors]

\* getSkuInformation: what becomes of one body.
Unmarshal(answer) == [skus |-> answer.skus, errors |-> answer.errors]

-----------------------------------------------------------------------------
Session(i) == i     \* newSessionID: a new one for each edition

\* A slip the properties must catch: the entry keeps the session it began with.
MergeSkuFirstSession(all, sku, session) ==
    LET i == SelectInSeq(all, LAMBDA l : l.code = sku.language)
        entry == [session |-> IF i = 0 THEN session ELSE all[i].skus[1].session, sku |-> sku.id]
    IN  IF i = 0
        THEN Append(all, [code |-> sku.language, display |-> sku.display, skus |-> <<entry>>])
        ELSE [all EXCEPT ![i].skus = Append(@, entry)]

\* collectLanguages: the SKUs join the entry of their language.
MergeSku(all, sku, session) ==
    LET i == SelectInSeq(all, LAMBDA l : l.code = sku.language)
        entry == [session |-> session, sku |-> sku.id]
    IN  IF i = 0
        THEN Append(all, [code |-> sku.language, display |-> sku.display, skus |-> <<entry>>])
        ELSE [all EXCEPT ![i].skus = Append(@, entry)]

\* The list after each of the SKUs, beginning with none.
MergedAfter(all, skus, session) ==
    LET after[k \in 0 .. Len(skus)] ==
            IF k = 0 THEN all ELSE MergeSku(after[k - 1], skus[k], session)
    IN  after

Merged(all, skus, session) == MergedAfter(all, skus, session)[Len(skus)]

DownloadLinks == [arch : {"x86", "x64", "ARM64", "Unknown"}, url : {l.url : l \in Offers}]
ServedType ==
    [registered : SUBSET Nat,       \* sessions vlscppe knows
     shaken : SUBSET Nat,           \* sessions whose handshake is complete
     listed : SUBSET (Nat \X (DOMAIN Links) \X {sku.language : sku \in Skus}),
                                    \* SKUs accepted: session, SKU, language
     wasted : SUBSET Nat,           \* sessions a usable list was sent to, so far in vain
     offers : SUBSET DownloadLinks] \* links sent for the selected language

FidoInit ==
    /\ cfg \in Configs
    /\ stage = "select" /\ cancelled = FALSE
    /\ locale = cfg.locale
    /\ ids = <<>> /\ edition = 1 /\ attempt = 0
    /\ resp = [skus |-> <<>>, errors |-> <<>>]
    /\ languages = <<>> /\ lang = None /\ nextSku = 1 /\ links = <<>>
    /\ result = None
    /\ served = [registered |-> {}, shaken |-> {}, listed |-> {}, wasted |-> {}, offers |-> {}]

Fail == stage' = "failed" /\ UNCHANGED <<locale, ids, edition, attempt, resp, languages, lang, nextSku,
                                         links, result, served>>
Goto(s) == stage' = s

\* FetchDownloadURL up to its first request.
Select ==
    LET v == findVersion(cfg.version)
        r == findRelease(v, cfg.release)
        e == findEdition(r, cfg.edition)
    IN  /\ stage = "select"
        /\ UNCHANGED <<cfg, cancelled>>
        /\ IF e = None THEN Fail
           ELSE IF IsUefi(v)
           THEN /\ Goto("done") /\ result' = fetchUEFIShellLink(v, r, e)
                /\ UNCHANGED <<locale, ids, edition, attempt, resp, languages, lang, nextSku, links, served>>
           ELSE IF cfg.language = <<>> \/ cfg.arch = "" THEN Fail
           ELSE /\ Goto("locale")
                /\ ids' = e.ids /\ locale' = IF cfg.locale = "" THEN EnUS ELSE cfg.locale
                /\ UNCHANGED <<edition, attempt, resp, languages, lang, nextSku, links, result, served>>

\* resolveLocale: any failure and any redirection mean en-US.
ResolveLocale ==
    /\ stage = "locale"
    /\ \E page \in Answers({Transport, Answer("redirect", <<>>, <<>>), Answer("page", <<>>, <<>>)}) :
        locale' = IF page.kind = "page" THEN locale ELSE EnUS
    /\ Goto(IF ids = <<>> THEN "language" ELSE "register")
    /\ UNCHANGED <<cfg, cancelled, ids, edition, attempt, resp, languages, lang, nextSku, links, result, served>>

\* checkVlscppeTag
Register ==
    /\ stage = "register"
    /\ UNCHANGED <<cfg, cancelled>>
    /\ \E a \in Answers({Transport, Answer("page", <<>>, <<>>)}) :
        IF a = Transport THEN Fail
        ELSE /\ Goto("mdt")
             /\ served' = [served EXCEPT !.registered = @ \cup {Session(edition)}]
             /\ UNCHANGED <<locale, ids, edition, attempt, resp, languages, lang, nextSku, links, result>>

\* ovdfHandshake: the script is fetched, and its two tokens are echoed back.
FetchScript ==
    /\ stage = "mdt"
    /\ UNCHANGED <<cfg, cancelled>>
    /\ \E a \in Answers({Transport, Answer("garbage", <<>>, <<>>), Answer("page", <<>>, <<>>)}) :
        IF a.kind # "page" THEN Fail
        ELSE /\ Goto("echo")
             /\ UNCHANGED <<locale, ids, edition, attempt, resp, languages, lang, nextSku, links, result, served>>

EchoTokens ==
    /\ stage = "echo"
    /\ UNCHANGED <<cfg, cancelled>>
    /\ \E a \in Answers({Transport, Answer("page", <<>>, <<>>)}) :
        IF a = Transport THEN Fail
        ELSE /\ Goto("sku") /\ attempt' = 0
             /\ served' = [served EXCEPT !.shaken = @ \cup {Session(edition)}]
             /\ UNCHANGED <<locale, ids, edition, resp, languages, lang, nextSku, links, result>>

\* A slip the properties must catch: the attempt is not counted.
RetryForever ==
    /\ Goto("pause")
    /\ UNCHANGED <<locale, ids, edition, languages, lang, nextSku, links, result, attempt>>

\* An attempt that cannot be used; the last one ends the call.
Retry ==
    /\ attempt' = attempt + 1
    /\ Goto(IF attempt + 1 < MaxAttempts THEN "pause" ELSE "failed")
    /\ UNCHANGED <<locale, ids, edition, languages, lang, nextSku, links, result>>

\* One attempt of getSkuInformation.  An error of type 9 asks another page for
\* the wording of the message, whose failure changes nothing.
RequestSkus ==
    /\ stage = "sku"
    /\ UNCHANGED <<cfg, cancelled>>
    /\ \E a \in Answers(SkuAnswers(ids[edition])) :
        LET body == Unmarshal(a)
            usable == a.kind = "json" /\ a.errors = <<>> /\ a.skus # <<>>
            seen == [served EXCEPT !.wasted = IF usable THEN @ \cup {Session(edition)} ELSE @]
        IN  IF a.kind # "json"
            THEN Retry /\ UNCHANGED <<resp, served>>
            ELSE /\ resp' = body
                 /\ IF body.errors # <<>> \/ body.skus = <<>>
                    THEN Retry /\ served' = seen
                    ELSE /\ languages' = Merged(languages, body.skus, Session(edition))
                         /\ edition' = edition + 1 /\ attempt' = 0
                         /\ Goto(IF edition = Len(ids) THEN "language" ELSE "register")
                         /\ served' = [served EXCEPT
                                !.listed = @ \cup {<<Session(edition), sku.id, sku.language>> :
                                                       sku \in ToSet(body.skus)}]
                         /\ UNCHANGED <<locale, ids, lang, nextSku, links, result>>

\* Two seconds pass, or the context is done first.
Pause ==
    /\ stage = "pause"
    /\ UNCHANGED <<cfg, cancelled>>
    /\ \/ /\ Goto("sku")
          /\ UNCHANGED <<locale, ids, edition, attempt, resp, languages, lang, nextSku, links, result, served>>
       \/ cancelled /\ Fail

ChooseLanguage ==
    LET l == selectLanguage(languages, cfg.language)
    IN  /\ stage = "language"
        /\ UNCHANGED <<cfg, cancelled>>
        /\ IF l = None THEN Fail
           ELSE /\ lang' = l /\ Goto("links")
                /\ UNCHANGED <<locale, ids, edition, attempt, resp, languages, nextSku, links, result, served>>

\* getDownloadLinks, once per SKU of the language and never again.
RequestLinks ==
    /\ stage = "links"
    /\ UNCHANGED <<cfg, cancelled>>
    /\ \E a \in Answers({Transport, Answer("json", <<>>, <<9>>)}
                        \cup {Answer("json", offer, <<>>) : offer \in Links[lang.skus[nextSku].sku]}) :
        IF a.kind # "json" \/ a.errors # <<>> \/ a.skus = <<>> THEN Fail
        ELSE LET found == [i \in DOMAIN a.skus |-> [arch |-> archFromType(a.skus[i].type), url |-> a.skus[i].url]]
             IN  /\ links' = links \o found
                 /\ nextSku' = nextSku + 1
                 /\ served' = [served EXCEPT !.offers = @ \cup ToSet(found)]
                 /\ Goto(IF nextSku = Len(lang.skus) THEN "arch" ELSE "links")
                 /\ UNCHANGED <<locale, ids, edition, attempt, resp, languages, lang, result>>

ChooseArch ==
    LET l == selectArch(links, cfg.arch)
    IN  /\ stage = "arch"
        /\ UNCHANGED <<cfg, cancelled>>
        /\ IF l = None THEN Fail
           ELSE /\ result' = l /\ Goto("done")
                /\ UNCHANGED <<locale, ids, edition, attempt, resp, languages, lang, nextSku, links, served>>

FidoEnded == stage \in {"done", "failed"}

\* The caller cancels its context.
CancelFido ==
    /\ ~cancelled /\ ~FidoEnded
    /\ cancelled' = TRUE
    /\ UNCHANGED <<cfg, stage, locale, ids, edition, attempt, resp, languages, lang, nextSku, links, result, served>>

FidoStep ==
    \/ Select \/ ResolveLocale \/ Register \/ FetchScript \/ EchoTokens \/ RequestSkus
    \/ Pause \/ ChooseLanguage \/ RequestLinks \/ ChooseArch

-----------------------------------------------------------------------------
\* The merged list holds exactly the SKUs of the answers that were accepted, one
\* entry per language, each SKU with the session it was listed under, whose
\* handshake was complete; so every request for links (getDownloadLinks) goes
\* out under a session that may make it.
SkusKeepTheirSession ==
    LET Held(l) == {<<l.skus[i].session, l.skus[i].sku, l.code>> : i \in DOMAIN l.skus}
    IN  /\ UNION {Held(l) : l \in ToSet(languages)} = served.listed
        /\ \A i, j \in DOMAIN languages : languages[i].code = languages[j].code => i = j
        /\ \A t \in served.listed : t[1] \in served.shaken
        /\ served.shaken \subseteq served.registered

\* The call fails for what the services did and for nothing else: a usable list
\* of SKUs is used whatever the attempts before it brought, a wanted architecture
\* that any SKU of the language offers is found, and what is returned is of the
\* architecture and the language asked for.
AnswersAreUsed ==
    /\ served.wasted = {}
    /\ stage = "failed" /\ lang # None /\ nextSku > Len(lang.skus) =>
            \A l \in served.offers : l.arch # cfg.arch
    /\ stage = "done" /\ lang # None =>
        /\ result.arch = cfg.arch /\ result \in served.offers
        /\ HasWords(<<lang.code>>, cfg.language) \/ HasWords(lang.display, cfg.language)
        /\ nextSku = Len(lang.skus) + 1
=============================================================================
