--------------------------- MODULE ServiceRegistry ---------------------------
(***************************************************************************)
(* Services and critical devices in the registry: src/service on the         *)
(* Services key of a control set, and src/driver's InstallRegistry and the    *)
(* registry half of its Uninstall on the same key and on                      *)
(* Control\CriticalDeviceDatabase.                                            *)
(*                                                                          *)
(* A key's subkeys are a sequence searched for the first name that is equal   *)
(* up to case (src/regf/key.go); a missing Services or CriticalDeviceDatabase *)
(* key is an empty sequence.  Start stands for the three REG_DWORD values,    *)
(* Group for the four optional strings, DependOnService for the two lists.    *)
(*                                                                          *)
(* InstallRegistry is modelled step by step, because it stops at the first    *)
(* service it cannot register and leaves what it has written.  An image path  *)
(* is the sequence of its components; "" is the empty string.                 *)
(***************************************************************************)
EXTENDS SequencesExt

CONSTANTS
    Names,              \* service names as they may be spelled
    Fold,               \* what EqualFold and ToLower compare: a function on Names
    Packages,           \* driver packages: class, and install sections
    DirIDs,             \* the DIRIDs a service binary may name
    Requests,           \* services a caller of the service package may give
    Existing,           \* what the Services key may hold beforehand
    MaxCalls            \* bound: calls made to the two packages

VARIABLES
    services,           \* the subkeys of Services: name and values
    devices,            \* the subkeys of CriticalDeviceDatabase
    call,               \* the InstallRegistry under way
    last,               \* the last call that has returned, and its result
    calls               \* how many calls were made

vars == <<services, devices, call, last, calls>>

StartAuto == 2
StartDisabled == 4
Starts == {StartAuto, StartDisabled}
Malformed == 0          \* a Start value that is not four bytes long
None == ""
NoImage == <<>>

Service(name, start, image, group, deps) ==
    [name |-> name, start |-> start, image |-> image, group |-> group, deps |-> deps]

IsKey(k) ==
    k.name \in Names /\ k = [name |-> k.name, values |-> [n \in DOMAIN k.values |-> k.values[n]]]

\* No two keys whose names are equal up to case, and every Start value of four bytes
\* is one of the start types.
KeysSound(keys) ==
    /\ \A i, j \in DOMAIN keys : Fold[keys[i].name] = Fold[keys[j].name] => i = j
    /\ \A i \in DOMAIN keys :
         LET values == keys[i].values
         IN  "Start" \in DOMAIN values => values["Start"].data \in Starts \cup {Malformed}

\* A hive has sound keys to begin with; Package.Services skips an AddService that
\* names no service (src/driver/service.go:211).
ASSUME RegistryAssumption ==
    /\ \A n \in Names : Fold[n] = Fold[None] => n = None
    /\ \A keys \in Existing :
         keys \in Seq(ToSet(keys)) /\ KeysSound(keys) /\ \A k \in ToSet(keys) : IsKey(k)
    /\ \A s \in Requests :
         s = Service(s.name, s.start, s.image, s.group, s.deps) /\ s.name \in Names /\ s.start \in Starts
    /\ \A p \in Packages :
         /\ p.sections \in Seq(ToSet(p.sections))
         /\ \A section \in ToSet(p.sections) :
              /\ section.services \in Seq(ToSet(section.services))
              /\ section.hardwareIDs \in Seq(ToSet(section.hardwareIDs))
              /\ \A d \in ToSet(section.services) : d.name \in Names \ {None} /\ d.start \in Starts

-----------------------------------------------------------------------------
(* Keys and values *)

\* regf.Key.Subkey on Services: the index of the key, 0 if there is none.
Find(keys, name) ==
    LET found == {i \in 1 .. Len(keys) : Fold[keys[i].name] = Fold[name]}
    IN  IF found = {} THEN 0 ELSE CHOOSE i \in found : \A j \in found : i <= j

\* regf.Key.FindOrCreateSubkey: a new key has no values.
WithKey(keys, name) ==
    IF Find(keys, name) # 0 THEN keys
    ELSE Append(keys, [name |-> name, values |-> [n \in {} |-> {}]])

Typed(type, data) == [type |-> type, data |-> data]

\* The values written for a service: those it does not set are not among them.
Written(s) ==
    [n \in {"Start", "ImagePath"} \cup (IF s.group = None THEN {} ELSE {"Group"})
           \cup (IF s.deps = <<>> THEN {} ELSE {"DependOnService"}) |->
        CASE n = "Start"           -> Typed("DWORD", s.start)
          [] n = "ImagePath"       -> Typed("EXPAND_SZ", s.image)
          [] n = "Group"           -> Typed("SZ", s.group)
          [] n = "DependOnService" -> Typed("MULTI_SZ", s.deps)]

\* Mutant: optional values the service does not set stay.
WriteOverValues(values, s) ==
    [n \in DOMAIN values \cup DOMAIN Written(s) |->
        IF n \in DOMAIN Written(s) THEN Written(s)[n] ELSE values[n]]

\* service.writeServiceValues on a key's values: optional values the service does
\* not set are deleted, values of other names are left alone.
WriteServiceValues(values, s) ==
    LET kept == DOMAIN values \ {"Group", "DependOnService"}
    IN  [n \in kept \cup DOMAIN Written(s) |->
            IF n \in DOMAIN Written(s) THEN Written(s)[n] ELSE values[n]]

\* service.Read: the three numbers and the image path must be there.
Readable(keys, name) ==
    /\ name # None
    /\ Find(keys, name) # 0
    /\ LET values == keys[Find(keys, name)].values
       IN  /\ {"Start", "ImagePath"} \subseteq DOMAIN values
           /\ values["Start"].data \in Starts

ReadService(keys, name) ==
    LET values == keys[Find(keys, name)].values
        get(n, absent) == IF n \in DOMAIN values THEN values[n].data ELSE absent
    IN  Service(name, values["Start"].data, values["ImagePath"].data,
                get("Group", None), get("DependOnService", <<>>))

\* service.Modify where the key exists.
Modified(keys, s) ==
    [keys EXCEPT ![Find(keys, s.name)].values = WriteServiceValues(@, s)]

\* service.Install.
Installed(keys, s) == Modified(WithKey(keys, s.name), s)

\* regf.Key.DeleteSubkey.
Removed(keys, name) ==
    IF Find(keys, name) = 0 THEN keys ELSE RemoveAt(keys, Find(keys, name))

-----------------------------------------------------------------------------
(* What a driver package registers *)

\* The entries without those whose key was seen before.
FirstOfEach(entries, Key) ==
    LET upTo[i \in 0 .. Len(entries)] ==
          IF i = 0 THEN <<>>
          ELSE IF \E j \in 1 .. i - 1 : Key[entries[j]] = Key[entries[i]] THEN upTo[i - 1]
          ELSE Append(upTo[i - 1], entries[i])
    IN  upTo[Len(entries)]

\* The AddService directives of all install sections, in order.
Directives(p) ==
    FlattenSeq([i \in 1 .. Len(p.sections) |->
        [j \in 1 .. Len(p.sections[i].services) |->
            [section |-> i, service |-> p.sections[i].services[j]]]])

\* Package.Services: each service once, with the section it was first met in.
PackageServices(p) ==
    FirstOfEach(Directives(p), [d \in ToSet(Directives(p)) |-> Fold[d.service.name]])

\* Package.Services succeeds: every service it keeps has its required entries.
Resolvable(p) == \A i \in DOMAIN PackageServices(p) : PackageServices(p)[i].service.complete

\* Package.CriticalDeviceDatabaseEntries: each hardware ID once, with the service
\* associated with its section, as far as Services names that section.
AssociatedService(p, section) ==
    LET list  == PackageServices(p)
        assoc == {i \in 1 .. Len(list) : list[i].section = section /\ list[i].service.assoc}
    IN  IF assoc = {} THEN None
        ELSE list[CHOOSE i \in assoc : \A j \in assoc : i <= j].service.name

PackageDevices(p) ==
    LET listed == FlattenSeq([i \in 1 .. Len(p.sections) |->
                    [j \in 1 .. Len(p.sections[i].hardwareIDs) |->
                        [hwid |-> p.sections[i].hardwareIDs[j],
                         class |-> p.class, service |-> AssociatedService(p, i)]]])
    IN  FirstOfEach(listed, [d \in ToSet(listed) |-> d.hwid])

-----------------------------------------------------------------------------
(* Calls *)

Idle == [pkg |-> <<>>, dirs |-> {}, at |-> 0]
NoCall == [op |-> "none", ok |-> TRUE, arg |-> <<>>]

Init ==
    /\ services \in Existing
    /\ devices = <<>>
    /\ call = Idle
    /\ last = NoCall
    /\ calls = 0

Calling == call = Idle /\ calls < MaxCalls
Return(op, arg, ok) == last' = [op |-> op, arg |-> arg, ok |-> ok]

\* service.validateService.
Valid(s) == s.name # None /\ s.image # NoImage

\* service.Install.
Install(s) ==
    /\ Calling
    /\ services' = IF Valid(s) THEN Installed(services, s) ELSE services
    /\ Return("install", s, Valid(s))
    /\ calls' = calls + 1
    /\ UNCHANGED <<devices, call>>

\* service.Modify: the key must exist.
Modify(s) ==
    /\ Calling
    /\ LET ok == Valid(s) /\ Find(services, s.name) # 0
       IN  /\ services' = IF ok THEN Modified(services, s) ELSE services
           /\ Return("modify", s, ok)
    /\ calls' = calls + 1
    /\ UNCHANGED <<devices, call>>

\* service.SetStartType, and Disable, which is one value of it: Read and Modify.
SetStartType(name, start) ==
    /\ Calling
    /\ LET readable == Readable(services, name)
           s        == [ReadService(services, name) EXCEPT !.start = start]
           ok       == readable /\ Valid(s)
       IN  /\ services' = IF ok THEN Modified(services, s) ELSE services
           /\ Return("start", [name |-> name, start |-> start], ok)
    /\ calls' = calls + 1
    /\ UNCHANGED <<devices, call>>

\* service.Enable refuses StartDisabled and is SetStartType otherwise.
Enable(name, start) ==
    IF start = StartDisabled
    THEN /\ Calling
         /\ Return("start", [name |-> name, start |-> start], FALSE)
         /\ calls' = calls + 1
         /\ UNCHANGED <<services, devices, call>>
    ELSE SetStartType(name, start)

\* service.Delete: it is an error if there is nothing to delete.
Delete(name) ==
    /\ Calling
    /\ LET ok == name # None /\ Find(services, name) # 0
       IN  /\ services' = IF ok THEN Removed(services, name) ELSE services
           /\ Return("delete", name, ok)
    /\ calls' = calls + 1
    /\ UNCHANGED <<devices, call>>

\* driver.InstallRegistry: services first, one after the other, then the devices.
\* A package one of whose services lacks a required entry is refused as a whole.
Begin(p, dirs) ==
    /\ Calling
    /\ IF Resolvable(p)
       THEN /\ call' = [pkg |-> p, dirs |-> dirs, at |-> 1]
            /\ last' = last
       ELSE /\ Return("registry", p, FALSE)
            /\ call' = call
    /\ calls' = calls + 1
    /\ UNCHANGED <<services, devices>>

Todo == PackageServices(call.pkg)
Devices == PackageDevices(call.pkg)

\* driver.mergeServiceInstall: the image path is the directory the caller supplied
\* for the binary's DIRID, and the binary's path.
ToService(d) == Service(d.name, d.start, <<d.dir, d.binary>>, d.group, d.deps)

Merging == call # Idle /\ call.at <= Len(Todo)

MergeService ==
    /\ Merging
    /\ Todo[call.at].service.dir \in call.dirs
    /\ services' = Installed(services, ToService(Todo[call.at].service))
    /\ call' = [call EXCEPT !.at = @ + 1]
    /\ UNCHANGED <<devices, last, calls>>

\* Mutant: such a service is passed over.
MergeSkips ==
    /\ Merging
    /\ Todo[call.at].service.dir \notin call.dirs
    /\ call' = [call EXCEPT !.at = @ + 1]
    /\ UNCHANGED <<services, devices, last, calls>>

\* A service whose directory the caller did not supply ends the call.
MergeFails ==
    /\ Merging
    /\ Todo[call.at].service.dir \notin call.dirs
    /\ Return("registry", call.pkg, FALSE)
    /\ call' = Idle
    /\ UNCHANGED <<services, devices, calls>>

\* Mutant: an entry is appended where there is one.
AppendEntry(entries, e) == Append(entries, e)

\* driver.mergeCriticalDeviceDatabase, one entry: only values that are set are
\* written, so an existing entry keeps the others.
MergeEntry(entries, e) ==
    LET at == {i \in 1 .. Len(entries) : entries[i].hwid = e.hwid}
        k  == CHOOSE i \in at : TRUE
        over(new, old) == IF new = None THEN old ELSE new
    IN  IF at = {} THEN Append(entries, e)
        ELSE [entries EXCEPT ![k].class = over(e.class, @), ![k].service = over(e.service, @)]

\* driver.mergeCriticalDeviceDatabase.
Merged(entries, list) ==
    LET upTo[i \in 0 .. Len(list)] ==
          IF i = 0 THEN entries ELSE MergeEntry(upTo[i - 1], list[i])
    IN  upTo[Len(list)]

MergeDevices ==
    /\ call # Idle
    /\ call.at > Len(Todo)
    /\ devices' = Merged(devices, Devices)
    /\ Return("registry", call.pkg, TRUE)
    /\ call' = Idle
    /\ UNCHANGED <<services, calls>>

\* driver.removeCriticalDeviceDatabaseEntries: a name is compared with its case.
WithoutEntriesOf(entries, name) ==
    LET upTo[i \in 0 .. Len(entries)] ==
          IF i = 0 THEN <<>>
          ELSE IF entries[i].service = name THEN upTo[i - 1] ELSE Append(upTo[i - 1], entries[i])
    IN  upTo[Len(entries)]

\* driver.Uninstall's registry half: a service that is not there is not an error.
Uninstall(name) ==
    /\ Calling
    /\ IF name = None
       THEN UNCHANGED <<services, devices>>
       ELSE /\ services' = Removed(services, name)
            /\ devices' = WithoutEntriesOf(devices, name)
    /\ Return("uninstall", name, name # None)
    /\ calls' = calls + 1
    /\ UNCHANGED call

Next ==
    \/ \E s \in Requests : Install(s) \/ Modify(s)
    \/ \E name \in Names, start \in Starts : Enable(name, start) \/ SetStartType(name, start)
    \/ \E name \in Names : Delete(name) \/ Uninstall(name)
    \/ \E p \in Packages, dirs \in SUBSET DirIDs : Begin(p, dirs)
    \/ MergeService \/ MergeFails \/ MergeDevices

Spec == Init /\ [][Next]_vars

-----------------------------------------------------------------------------
(* Properties *)

Known == {"Start", "ImagePath", "Group", "DependOnService"}
KeyNames(keys) == {Fold[keys[i].name] : i \in DOMAIN keys}
KeyOf(keys, f) == keys[CHOOSE i \in DOMAIN keys : Fold[keys[i].name] = f]

\* The values of a key that are not a service's.
Foreign(keys, f) ==
    IF f \in KeyNames(keys) THEN Restrict(KeyOf(keys, f).values, DOMAIN KeyOf(keys, f).values \ Known)
    ELSE [n \in {} |-> {}]

\* The services as service.Read returns them, by name up to case.
Registered(keys) ==
    [f \in {g \in KeyNames(keys) : Readable(keys, KeyOf(keys, g).name)} |->
        [ReadService(keys, KeyOf(keys, f).name) EXCEPT !.name = f]]

Set(view, s) ==
    [f \in DOMAIN view \cup {Fold[s.name]} |->
        IF f = Fold[s.name] THEN [s EXCEPT !.name = f] ELSE view[f]]

\* What a call that succeeds makes of the services there are.
Effect(c, view) ==
    CASE c.op \in {"install", "modify"}   -> Set(view, c.arg)
      [] c.op = "start"                   -> [view EXCEPT ![Fold[c.arg.name]].start = c.arg.start]
      [] c.op \in {"delete", "uninstall"} -> Restrict(view, DOMAIN view \ {Fold[c.arg]})

\* Names and devices stay unique whatever the calls spell them like, and every
\* value is one that the two packages or the hive they were given wrote.
WellFormed ==
    /\ KeysSound(services)
    /\ \A i, j \in DOMAIN devices : devices[i].hwid = devices[j].hwid => i = j
    /\ call # Idle => call.at \in 1 .. Len(Todo) + 1

\* No entry of the service, and every other entry as it was and where it was.
EntriesLeft(name) ==
    /\ \A i \in DOMAIN devices' : devices'[i].service # name
    /\ \A i \in DOMAIN devices : devices[i].service # name =>
         \E j \in 1 .. i : j \in DOMAIN devices' /\ devices'[j] = devices[i]

\* Each call of package service, and Uninstall, does to the services what it says
\* and no more: every service but the named one reads as it did, values a service
\* does not define are kept, changing the start type changes no other field, an
\* optional field that is not given reads as absent whatever was there before, and
\* a call that fails changes nothing (src/service/*.go).  Uninstall takes exactly the
\* device entries that name the service with it (src/driver/uninstall.go:70).
CallsDoAsTheySay ==
    [][calls' > calls /\ call' = Idle =>
        /\ IF last'.ok THEN Registered(services') = Effect(last', Registered(services))
                       ELSE UNCHANGED <<services, devices>>
        /\ last'.op = "uninstall" /\ last'.ok => EntriesLeft(last'.arg)
        /\ \A f \in KeyNames(services) \cap KeyNames(services') :
             Foreign(services', f) = Foreign(services, f)]_vars

HasEntry(e) ==
    \E i \in DOMAIN devices :
        /\ devices[i].hwid = e.hwid
        /\ e.class # None => devices[i].class = e.class
        /\ e.service # None => devices[i].service = e.service

\* When InstallRegistry succeeds every service of the package reads back as the
\* package describes it and every device has its entry; none was passed over.
\* After any call there is one key per service and one entry per device.
PackageRegistered ==
    WellFormed /\ (call = Idle /\ last.op = "registry" /\ last.ok =>
        /\ \A i \in DOMAIN PackageServices(last.arg) :
             LET d == PackageServices(last.arg)[i].service
             IN  Readable(services, d.name) /\ ReadService(services, d.name) = ToService(d)
        /\ \A i \in DOMAIN PackageDevices(last.arg) : HasEntry(PackageDevices(last.arg)[i]))

\* "InstallRegistry is safe to call more than once with the same package": no step
\* of the second call changes anything (src/driver/registryinstall.go:136).
RepeatChangesNothing ==
    [][call # Idle /\ last = [op |-> "registry", arg |-> call.pkg, ok |-> TRUE] =>
        UNCHANGED <<services, devices>>]_vars

=============================================================================
