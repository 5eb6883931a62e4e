-------------------------- MODULE MCFetchAndPools --------------------------
(***************************************************************************)
(* A catalogue with an edition under two product ids whose SKUs share a      *)
(* language, a shell image, builds whose numbers differ in length, and file  *)
(* lists with several matches, a broken entry and none.                      *)
(*                                                                           *)
(* Directories: seven jobs, which is one more than the channel of two workers *)
(* and of three holds at a time, with files that are skipped, fail, or share   *)
(* an identity; a single job; none; one directory missing.                    *)
(***************************************************************************)
EXTENDS FetchAndPools

E(name, list) == [name |-> name, ids |-> list]
MCVersions ==
    <<[name |-> <<"windows", "11">>, pageType |-> <<"windows11">>,
       releases |-> <<[name |-> <<"25h2", "v2">>, editions |-> <<E(<<"home">>, <<1, 2>>), E(<<"home", "china">>, <<3>>)>>]>>],
      [name |-> <<"uefi", "shell">>, pageType |-> <<"UEFI_SHELL", "2.2">>,
       releases |-> <<[name |-> <<"26h1">>, editions |-> <<E(<<"release">>, <<0>>), E(<<"debug">>, <<1>>)>>]>>]>>

C(v, r, e, l, a) == [version |-> v, release |-> r, edition |-> e, language |-> l, arch |-> a, locale |-> ""]
MCConfigs ==
    {C(<<"11">>, Latest, <<"home">>, <<"english">>, a) : a \in {"ARM64", "x64", ""}}
    \cup {C(<<"11">>, <<"25h2">>, <<"china">>, <<"de">>, "x64"), C(<<"11">>, <<"24h2">>, <<"home">>, <<"de">>, "x64"),
          C(<<"shell">>, Latest, <<"debug">>, <<>>, ""), C(<<>>, Latest, <<"home">>, <<"de">>, "x64")}

S(id, l, d) == [id |-> <<id>>, language |-> l, display |-> d]
en1 == S(1, "en", <<"english">>)
en2 == S(2, "en", <<"english">>)
gb1 == S(3, "gb", <<"english", "international">>)
de2 == S(4, "de", <<"german">>)
MCOffered == [i \in {1, 2, 3} |->
    IF i = 1 THEN {<<en1>>, <<gb1, en1>>} ELSE IF i = 2 THEN {<<en2>>, <<de2, en2>>} ELSE {<<de2>>}]
L(t, u) == [type |-> t, url |-> u]
MCLinks == [s \in {<<1>>, <<2>>, <<3>>, <<4>>} |->
    IF s = <<1>> THEN {<<L(1, "a")>>, <<L(0, "b"), L(1, "a")>>}
    ELSE IF s = <<2>> THEN {<<L(2, "c")>>} ELSE {<<L(1, "d"), L(7, "e")>>, <<>>}]

MCArchNames == <<"amd64", "arm64", "x86">>

B(b, arch, uuid) == [build |-> b, arch |-> arch, uuid |-> uuid]
b9 == <<<<2, 6>>, <<9>>>>
b10 == <<<<2, 6>>, <<1, 0>>>>
b26 == <<<<2, 6>>>>
b270 == <<<<2, 7, 0>>, <<1>>>>
AllBuilds == {B(b9, "amd64", 1), B(b10, "amd64", 2), B(b26, "amd64", 3), B(b10, "arm64", 4), B(b270, "amd64", 5)}
MCIndexes == SUBSET AllBuilds

R(prefix, arch, capability, family) ==
    [prefix |-> prefix, arch |-> arch, capability |-> capability, family |-> family]
MCRequests ==
    {R(<<2, 6>>, "amd64", "ssh", <<>>), R(<<2>>, "amd64", "ssh", <<>>), R(<<2, 6>>, "arm64", "dns", <<>>),
     R(<<>>, "amd64", "dns", <<"dns", "tools">>)}
MCFamilies == [c \in {"ssh"} |-> <<"openssh", "server">>]

F(name, chars, sha, size) ==
    [name |-> name, chars |-> chars, sha256 |-> sha, url |-> chars # 40, blocks |-> 2, size |-> size]
ssh == F(<<"openssh", "server", "amd64", "cab">>, 24, "right", "number")
sshOnly == F(<<"openssh", "server", "only", "amd64", "cab">>, 29, "", "text")
sshArm == F(<<"openssh", "server", "arm64", "cab">>, 24, "right", "number")
dns == F(<<"dns", "tools", "amd64", "cab">>, 20, "", "number")
dnsLost == F(<<"dns", "tools", "fod", "amd64", "cab">>, 40, "right", "number")
junk == F(<<"desktop", "cab">>, 11, "", "junk")
MCFileLists == {{ssh, sshOnly, sshArm, dns}, {sshOnly, dnsLost}, {ssh, junk}, {}}

-----------------------------------------------------------------------------
MCIdentities == {"x", "y"}

LOCAL File(name, suffix, content) ==
    [name |-> name, suffix |-> suffix, content |-> content, isDirectory |-> FALSE]
LOCAL Mum(name, content) == File(name, ".mum", content)
LOCAL Manifest(name, content) == File(name, ".manifest", content)
LOCAL Folder(f) == [f EXCEPT !.isDirectory = TRUE]

LOCAL Manifests4 == <<Manifest("m1", "y"), Manifest("m2", Failure), Manifest("m3", "x"), Manifest("m4", "y")>>
MCStoreDirectories ==
    { [missing |-> FALSE,
       packages |-> <<Mum("p1", "x"), Folder(Mum("p2", "x")), Mum("p3", Failure), File("p3", ".cat", "x"), Mum("p4", "x")>>,
       manifests |-> Manifests4],
      [missing |-> FALSE, packages |-> <<Mum("p1", "x")>>, manifests |-> <<Mum("m1", "y"), Manifest("m2", "x")>>],
      [missing |-> FALSE, packages |-> <<>>, manifests |-> <<Manifest("m1", Failure)>>],
      [missing |-> FALSE, packages |-> <<Manifest("p1", "x")>>, manifests |-> <<>>],
      [missing |-> TRUE, packages |-> <<Mum("p1", "x")>>, manifests |-> Manifests4] }
=============================================================================
