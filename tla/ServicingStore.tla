--------------------------- MODULE ServicingStore ---------------------------
(***************************************************************************)
(* The component store of an image (src/component): Install places the files *)
(* of an installation, InstallRegistry registers it in the COMPONENTS and     *)
(* SOFTWARE hives, Remove deletes an entry's files and leaves the hives alone. *)
(*                                                                          *)
(* Every name here is compared up to case, so a name stands for all its       *)
(* spellings.  A path is the sequence of its names, without extensions; the   *)
(* .cat beside a .mum is in a directory of its own.  The hives are one        *)
(* function from keys to their values: a key is its parent and its name, a    *)
(* value's name its prefix and the rest.                                      *)
(***************************************************************************)
EXTENDS Naturals, SequencesExt

CONSTANTS
    Installations,      \* what Install and InstallRegistry may be given
    Winners,            \* what InstallWinners may be given
    IdentityOf,         \* the identity in a manifest, None if it does not parse
    LongNames,          \* file names longer than maxVerbatimFileValueName
    StoreTrees,         \* the trees to begin with
    MaxStoreCalls       \* bound: calls made

VARIABLES
    image,              \* the tree: what is at each path
    hive,               \* the keys of both hives
    log                 \* the calls made, with their results

storeVars == <<image, hive, log>>

Absent == ""
Hives == {"COMPONENTS", "SOFTWARE"}

\* validate: what either half refuses.
Sound(inst) ==
    /\ \A c \in ToSet(inst.components) :
         c.keyform # Absent /\ c.manifest \notin {Absent, "compressed"}
           /\ \A f \in ToSet(c.files) : f.name # Absent
    /\ \A d \in ToSet(inst.deployments) : d.name # Absent
    /\ \A p \in ToSet(inst.packages) : p.name # Absent /\ p.mum # Absent

-----------------------------------------------------------------------------
(* Files *)

ManifestPath(keyform) == <<"WinSxS", "Manifests", keyform>>
StorePath(keyform) == <<"WinSxS", keyform>>
CatalogPath(catalog) == <<"WinSxS", "Catalogs", catalog>>
MumPath(name) == <<"Packages", name>>
CatPath(name) == <<"Package catalogs", name>>

Above(path) == {SubSeq(path, 1, k) : k \in 1 .. Len(path) - 1}
IsFile(t, path) == path \in DOMAIN t /\ ~t[path].dir

\* placeFile.  A directory that is there already gets the stream of the file.
PutFile(t, path, data) ==
    [p \in DOMAIN t \cup Above(path) \cup {path} |->
        IF p = path THEN [dir |-> path \in DOMAIN t /\ t[path].dir, data |-> data]
        ELSE IF p \in DOMAIN t THEN t[p] ELSE [dir |-> TRUE, data |-> Absent]]

At(path, data) == [path |-> path, data |-> data]

\* What Install places, in order.
ComponentFiles(c) ==
    <<At(ManifestPath(c.keyform), c.manifest)>>
    \o FlattenSeq([i \in DOMAIN c.files |->
         LET f == c.files[i]
         IN  <<At(Append(StorePath(c.keyform), f.name), f.data)>>
             \o [k \in DOMAIN f.dests |-> At(Append(f.dests[k], f.name), f.data)]])
PackageFiles(p) ==
    <<At(MumPath(p.name), p.mum)>>
    \o IF p.catalog = Absent THEN <<>>
       ELSE <<At(CatPath(p.name), p.catalog), At(CatalogPath(p.catalog), p.catalog)>>
FilesOf(inst) ==
    FlattenSeq([i \in DOMAIN inst.components |-> ComponentFiles(inst.components[i])])
    \o FlattenSeq([i \in DOMAIN inst.packages |-> PackageFiles(inst.packages[i])])

\* place, unless an earlier one has failed.
Place(r, w) ==
    IF r.result # "ok" THEN r
    ELSE IF \E p \in Above(w.path) : IsFile(r.image, p) THEN [r EXCEPT !.result = "failed"]
    ELSE [r EXCEPT !.image = PutFile(@, w.path, w.data)]

\* All of some files, in order.
PlaceAll(t, files) ==
    LET r[k \in 0 .. Len(files)] ==
          IF k = 0 THEN [image |-> t, result |-> "ok"] ELSE Place(r[k - 1], files[k])
    IN  r[Len(files)]

\* removePath, of each of some paths.
WithoutPaths(t, paths) ==
    Restrict(t, {p \in DOMAIN t : \A q \in paths : ~IsPrefix(q, p)})

-----------------------------------------------------------------------------
(* Keys and values *)

Write(key, name, data) == [stop |-> "ok", key |-> key, name |-> name, data |-> data]
CreateKey(key) == Write(key, <<Absent, Absent>>, Absent)
Stop(result) == [stop |-> result]

\* Mutant: an existing key keeps the values it has.
SetNewValue(h, w) ==
    [k \in DOMAIN h \cup {w.key} |->
        LET old == IF k \in DOMAIN h THEN h[k] ELSE <<>>
        IN  IF k # w.key \/ w.name[1] = Absent \/ w.name \in DOMAIN old THEN old
            ELSE [n \in DOMAIN old \cup {w.name} |-> IF n = w.name THEN w.data ELSE old[n]]]

\* FindOrCreateSubkey and SetValue; the former alone if there is no name.
SetKeyValue(h, w) ==
    [k \in DOMAIN h \cup {w.key} |->
        LET old == IF k \in DOMAIN h THEN h[k] ELSE <<>>
        IN  IF k # w.key \/ w.name[1] = Absent THEN old
            ELSE [n \in DOMAIN old \cup {w.name} |-> IF n = w.name THEN w.data ELSE old[n]]]

Register(r, w) ==
    IF r.result # "ok" THEN r
    ELSE IF w.stop # "ok" THEN [r EXCEPT !.result = w.stop]
    ELSE [r EXCEPT !.hive = SetKeyValue(@, w)]

\* All of some writes, in order.
RegisterAll(h, writes) ==
    LET r[k \in 0 .. Len(writes)] ==
          IF k = 0 THEN [hive |-> h, result |-> "ok"] ELSE Register(r[k - 1], writes[k])
    IN  r[Len(writes)]

ManifestHash(manifest) == <<"sha256", manifest>>
CatalogThumbprint(catalog) == <<"sha256", catalog>>

fileValueName(name) == <<"f!", name>>

\* installComponentKeys.
ComponentWrites(c) ==
    LET key == <<"Components", c.keyform>>
        identity == IF c.identity = Absent THEN IdentityOf[c.manifest] ELSE c.identity
    IN  (IF identity = Absent THEN <<Stop("failed")>>
         ELSE <<Write(key, <<"identity", Absent>>, identity),
                Write(key, <<"S256H", Absent>>, ManifestHash(c.manifest))>>)
        \o (IF c.CF = Absent THEN <<>> ELSE <<Write(key, <<"CF", Absent>>, c.CF)>>)
        \o [i \in DOMAIN c.deployments |-> Write(key, <<"c!", c.deployments[i]>>, Absent)]
        \o [i \in DOMAIN c.files |->
              IF c.files[i].name \in LongNames THEN Stop("failed")
              ELSE Write(key, fileValueName(c.files[i].name), "1")]

\* installDeploymentKeys.
DeploymentWrites(d) ==
    LET key == <<"Deployments", d.name>>
    IN  <<CreateKey(key)>>
        \o (IF d.appid = Absent THEN <<>> ELSE <<Write(key, <<"appid", Absent>>, d.appid)>>)
        \o (IF d.catalog = Absent THEN <<>>
            ELSE <<Write(key, <<"CatalogThumbprint", Absent>>, CatalogThumbprint(d.catalog))>>)

\* installCatalogKeys, for one of the catalogs; without the hive it ends in a panic.
CatalogWrites(catalog, inst, given) ==
    LET key == <<"Catalogs", CatalogThumbprint(catalog)[2]>>
        Link(d) == IF d.catalog = catalog THEN <<Write(key, <<"c!", d.name>>, Absent)>> ELSE <<>>
    IN  IF catalog = Absent THEN <<>>
        ELSE IF "COMPONENTS" \notin given THEN <<Stop("panic")>>
        ELSE <<CreateKey(key)>>
             \o FlattenSeq([i \in DOMAIN inst.deployments |-> Link(inst.deployments[i])])

PackageStateInstalled == 64

\* installPackageKeys.
PackageWrites(p) ==
    LET key == <<"Packages", p.name>>
    IN  <<Write(key, <<"InstallName", Absent>>, p.name),
          Write(key, <<"CurrentState", Absent>>, IF p.state = 0 THEN PackageStateInstalled ELSE p.state)>>
        \o [i \in DOMAIN p.owners |-> Write(<<"Packages", p.name, "Owners">>, <<"owner", p.owners[i]>>, 0)]

WritesOf(inst, given) ==
    FlattenSeq([i \in DOMAIN inst.components |-> ComponentWrites(inst.components[i])])
    \o FlattenSeq([i \in DOMAIN inst.deployments |-> DeploymentWrites(inst.deployments[i])])
    \o FlattenSeq([i \in DOMAIN inst.packages |-> CatalogWrites(inst.packages[i].catalog, inst, given)])
    \o FlattenSeq([i \in DOMAIN inst.packages |-> PackageWrites(inst.packages[i])])

\* What InstallRegistry asks for before it writes anything.
MayRegister(inst, given) ==
    /\ inst.serviceability = "serviceable"
    /\ Sound(inst)
    /\ inst.components # <<>> \/ inst.deployments # <<>> => "COMPONENTS" \in given
    /\ inst.packages # <<>> => "SOFTWARE" \in given

-----------------------------------------------------------------------------
(* What the installations are *)

IsList(s) == s \in Seq(ToSet(s))

AreLists(inst) ==
    /\ IsList(inst.components) /\ IsList(inst.deployments) /\ IsList(inst.packages)
    /\ \A c \in ToSet(inst.components) :
         /\ IsList(c.deployments) /\ IsList(c.files)
         /\ \A f \in ToSet(c.files) : IsList(f.dests) /\ \A d \in ToSet(f.dests) : IsList(d)
    /\ \A p \in ToSet(inst.packages) : IsList(p.owners)

\* Where Install places what belongs to the store, and its projections out of it.
PlacesOf(inst) ==
    (UNION {{ManifestPath(c.keyform)} \cup {Append(StorePath(c.keyform), f.name) : f \in ToSet(c.files)} :
              c \in ToSet(inst.components)})
    \cup UNION {{MumPath(p.name), CatPath(p.name), CatalogPath(p.catalog)} : p \in ToSet(inst.packages)}
StorePlaces == UNION {PlacesOf(inst) : inst \in Installations}

ProjectionsOf(inst) ==
    UNION {UNION {{Append(d, f.name) : d \in ToSet(f.dests)} : f \in ToSet(c.files)} :
             c \in ToSet(inst.components)}

\* A keyform ends in a hash.  Nothing is projected into the store's own files, and
\* where these belong there is no directory to begin with.
ASSUME StoreAssumption ==
    /\ \A inst \in Installations :
         /\ AreLists(inst)
         /\ \A c \in ToSet(inst.components) : c.keyform \notin {"Manifests", "Catalogs"}
         /\ \A path \in ProjectionsOf(inst) : ({path} \cup Above(path)) \cap StorePlaces = {}
    /\ \A t \in StoreTrees :
         /\ t = [path \in DOMAIN t |-> [dir |-> t[path].dir, data |-> t[path].data]]
         /\ \A path \in DOMAIN t : t[path].dir \in BOOLEAN /\ (path \in StorePlaces => ~t[path].dir)

-----------------------------------------------------------------------------
(* Calls *)

StoreInit ==
    /\ image \in StoreTrees
    /\ hive = <<>>
    /\ log = <<>>

Logged(op, arg, result) ==
    /\ Len(log) < MaxStoreCalls
    /\ log' = Append(log, [op |-> op, arg |-> arg, result |-> result])

\* component.Install.
InstallFiles(inst) ==
    LET r == PlaceAll(image, FilesOf(inst))
    IN  IF inst.serviceability # "unset" /\ Sound(inst)
        THEN Logged("files", inst, r.result) /\ image' = r.image /\ UNCHANGED hive
        ELSE Logged("files", inst, "refused") /\ UNCHANGED <<image, hive>>

\* component.InstallRegistry.
InstallKeys(inst, given) ==
    LET r == RegisterAll(hive, WritesOf(inst, given))
    IN  IF MayRegister(inst, given)
        THEN Logged("keys", inst, r.result) /\ hive' = r.hive /\ UNCHANGED image
        ELSE Logged("keys", inst, "refused") /\ UNCHANGED <<image, hive>>

\* component.InstallWinners, of one assembly.
InstallWinners(w) ==
    LET key == <<"Winners", w.keyform, w.family>>
        first == SetKeyValue(hive, Write(key, <<"default", Absent>>, w.version))
    IN  IF w.valid
        THEN /\ Logged("winners", w, "ok")
             /\ hive' = SetKeyValue(first, Write(key, <<"version", w.version>>, "1"))
             /\ UNCHANGED image
        ELSE Logged("winners", w, "refused") /\ UNCHANGED <<image, hive>>

\* component.Remove, of a package and of a component.
RemovePackage(name) ==
    /\ Logged("removePackage", name, "ok")
    /\ image' = WithoutPaths(image, {MumPath(name), CatPath(name)})
    /\ UNCHANGED hive

RemoveComponent(keyform) ==
    /\ Logged("removeComponent", keyform, "ok")
    /\ image' = WithoutPaths(image, {ManifestPath(keyform), StorePath(keyform)})
    /\ UNCHANGED hive

KeyForms(inst) == {inst.components[i].keyform : i \in DOMAIN inst.components}
PackageNames(inst) == {inst.packages[i].name : i \in DOMAIN inst.packages}

StoreNext ==
    \/ \E inst \in Installations :
         InstallFiles(inst) \/ \E given \in SUBSET Hives : InstallKeys(inst, given)
    \/ \E w \in Winners : InstallWinners(w)
    \/ \E name \in UNION {PackageNames(inst) : inst \in Installations} : RemovePackage(name)
    \/ \E keyform \in UNION {KeyForms(inst) : inst \in Installations} : RemoveComponent(keyform)

-----------------------------------------------------------------------------
(* Properties *)

\* The last call of the log that a test is true of; zero if there is none.
LastCall(Test(_)) == SelectLastInSeq(log, Test)

\* The installation whose two halves were the last to touch the files and the keys
\* of a component or a package, if both returned without an error.
Settled(op, name, Concerned(_)) ==
    LET onFiles(c) == \/ c.op = op /\ c.arg = name
                      \/ c.op = "files" /\ c.result # "refused" /\ name \in Concerned(c.arg)
        onKeys(c) == c.op = "keys" /\ c.result # "refused" /\ name \in Concerned(c.arg)
        a == LastCall(onFiles)
        b == LastCall(onKeys)
    IN  IF a # 0 /\ b # 0 /\ log[a].op = "files" /\ log[a].arg = log[b].arg
             /\ log[a].result = "ok" /\ log[b].result = "ok"
        THEN {log[a].arg} ELSE {}

Final(entries, Test(_)) == entries[SelectLastInSeq(entries, Test)]
Has(key, name) == key \in DOMAIN hive /\ name \in DOMAIN hive[key]

ComponentAgrees(keyform) ==
    \A inst \in Settled("removeComponent", keyform, KeyForms) :
        LET c == Final(inst.components, LAMBDA x : x.keyform = keyform)
            key == <<"Components", keyform>>
        IN  /\ IsFile(image, ManifestPath(keyform))
            /\ Has(key, <<"S256H", Absent>>)
            /\ hive[key][<<"S256H", Absent>>] = ManifestHash(image[ManifestPath(keyform)].data)
            /\ \A f \in ToSet(c.files) : Has(key, fileValueName(f.name))
                                         /\ IsFile(image, Append(StorePath(keyform), f.name))
            /\ \A d \in ToSet(inst.deployments) :
                 Contains(c.deployments, d.name) =>
                     Has(key, <<"c!", d.name>>) /\ <<"Deployments", d.name>> \in DOMAIN hive

PackageAgrees(name) ==
    \A inst \in Settled("removePackage", name, PackageNames) :
        LET p == Final(inst.packages, LAMBDA x : x.name = name)
        IN  /\ IsFile(image, MumPath(name)) /\ <<"Packages", name>> \in DOMAIN hive
            /\ p.catalog # Absent =>
                 /\ IsFile(image, CatPath(name)) /\ IsFile(image, CatalogPath(p.catalog))
                 /\ <<"Catalogs", p.catalog>> \in DOMAIN hive
                 /\ \A d \in ToSet(inst.deployments) :
                      d.catalog = p.catalog => Has(<<"Catalogs", p.catalog>>, <<"c!", d.name>>)

Refused == log # <<>> /\ Last(log).result = "refused"

\* A call that succeeded is made again.
Repeated ==
    log # <<>> /\ Last(log).result = "ok"
        /\ Last(log').op = Last(log).op /\ Last(log').arg = Last(log).arg

\* Files and hives of the component store agree on every component and package that
\* Install and InstallRegistry were the last to touch, in whichever order, whatever
\* had failed, had been removed or been registered otherwise before: the hash in the
\* hive is that of the manifest in the tree, every file named there is in the store, and
\* the links of components and catalogs lead to deployments that exist.  A catalog's
\* links do so always.  A call that succeeded changes nothing the second time, and one that is refused never
\* (src/component/installregistry.go:156 and the measurements above it).
HalvesAgree ==
    [][ /\ \A inst \in Installations :
             /\ \A k \in KeyForms(inst) : ComponentAgrees(k)'
             /\ \A n \in PackageNames(inst) : PackageAgrees(n)'
        /\ \A key \in DOMAIN hive' : key[1] = "Catalogs" =>
             \A n \in DOMAIN hive'[key] : <<"Deployments", n[2]>> \in DOMAIN hive'
        /\ Refused' \/ Repeated => UNCHANGED <<image, hive>> ]_storeVars
=============================================================================
