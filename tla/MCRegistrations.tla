-------------------------- MODULE MCRegistrations --------------------------
(***************************************************************************)
(* Two services, one of them spelled in two ways, and the empty name that the *)
(* calls refuse.  The drivers: one service and its device; another for the    *)
(* same device without a service; one whose two sections share a service,     *)
(* with a binary in another directory; one that lacks an entry.               *)
(*                                                                          *)
(* Installations of two components and two packages: one; another of the same *)
(* component with other files, whose deployment has gone over to another      *)
(* catalog; one that cannot be registered after its first component; one with *)
(* too long a name; one of packages alone; one for build time only, of a      *)
(* component named twice; one without a choice; one that is not sound.  A tree *)
(* in which a file is where a directory should be and the reverse.            *)
(***************************************************************************)
EXTENDS Registrations, MCRegfHive

MCNames == {"", "disk", "Disk", "nic"}
MCFold == [n \in MCNames |-> IF n = "Disk" THEN "disk" ELSE n]

MCRequests ==
    { Service("disk", StartAuto, <<"a.sys">>, "base", <<>>),
      Service("Disk", StartAuto, <<"b.sys">>, None, <<"rpc">>),
      Service("nic", StartDisabled, <<"a.sys">>, None, <<>>),
      Service("nic", StartAuto, NoImage, None, <<>>),
      Service("", StartAuto, <<"a.sys">>, None, <<>>) }

\* A service of a package; DIRIDs are strings, for they name directories.
LOCAL Directive(name, dir, assoc, complete) ==
    [name |-> name, start |-> StartAuto, dir |-> dir, binary |-> "d.sys", group |-> "base",
     deps |-> <<>>, assoc |-> assoc, complete |-> complete]

LOCAL Driver(class, sections) == [class |-> class, sections |-> sections]
LOCAL Section(list, hwids) == [services |-> list, hardwareIDs |-> hwids]

MCDirIDs == {"12", "13"}
MCPackages ==
    { Driver("hdc", <<Section(<<Directive("Disk", "12", TRUE, TRUE)>>, <<"pci#1", "pci#2">>)>>),
      Driver("net", <<Section(<<>>, <<"pci#2">>)>>),
      Driver(None, << Section(<<Directive("nic", "12", TRUE, TRUE)>>, <<"pci#3">>),
                       Section(<<Directive("nic", "12", TRUE, TRUE),
                                 Directive("disk", "13", FALSE, TRUE)>>, <<"pci#3", "pci#1">>) >>),
      Driver("hdc", <<Section(<<Directive("nic", "12", TRUE, FALSE)>>, <<"pci#1">>)>>) }

\* A hive without services; one whose service was written by another program, with
\* a value of its own and a plain image path; one whose service has no image path.
MCExisting ==
    { <<>>,
      << [name |-> "Disk",
          values |-> ("Start" :> Typed("DWORD", StartAuto)) @@ ("ImagePath" :> Typed("SZ", <<"c.sys">>))
                     @@ ("Group" :> Typed("SZ", "base")) @@ ("Tag" :> Typed("DWORD", 1))] >>,
      << [name |-> "nic",
          values |-> ("Start" :> Typed("DWORD", StartAuto)) @@ ("Tag" :> Typed("DWORD", 2))],
         [name |-> "disk",
          values |-> ("Start" :> Typed("DWORD", Malformed))
                     @@ ("ImagePath" :> Typed("SZ", <<"c.sys">>))] >> }

-----------------------------------------------------------------------------
MCIdentityOf == [m \in {"m1", "m2", "broken"} |-> IF m = "broken" THEN Absent ELSE "id " \o m]
MCLongNames == {"long"}

LOCAL File(name, data, dests) == [name |-> name, data |-> data, dests |-> dests]
LOCAL Component(keyform, manifest, identity, deployments, files) ==
    [keyform |-> keyform, manifest |-> manifest, identity |-> identity, CF |-> Absent,
     deployments |-> deployments, files |-> files]
LOCAL Deployment(name, appid, catalog) == [name |-> name, appid |-> appid, catalog |-> catalog]
LOCAL Mum(name, catalog, state, owners) ==
    [name |-> name, mum |-> "mum", catalog |-> catalog, state |-> state, owners |-> owners]
LOCAL Installation(s, components, deployments, packages) ==
    [serviceability |-> s, components |-> components, deployments |-> deployments, packages |-> packages]

LOCAL A == File("a", "x", <<<<"System32">>>>)
LOCAL B == File("b", "y", <<<<"System32", "drivers">>, <<"Fonts">>>>)
MCInstallations ==
    { Installation("serviceable", <<Component("k1", "m1", "id", <<"d1">>, <<A>>)>>,
                   <<Deployment("d1", "app", "c1")>>, <<Mum("p1", "c1", 0, <<"p2">>)>>),
      Installation("serviceable",
                   <<[Component("k1", "m2", Absent, <<"d1", "d2">>, <<File("a", "z", <<>>), B>>) EXCEPT !.CF = "cf"]>>,
                   <<Deployment("d1", Absent, "c2"), Deployment("d2", "app", Absent)>>,
                   <<Mum("p1", Absent, 0, <<>>), Mum("p2", "c2", 112, <<"p1">>)>>),
      Installation("serviceable", <<Component("k2", "m1", Absent, <<"d1">>, <<>>),
                                    Component("k1", "broken", Absent, <<>>, <<B>>)>>, <<>>, <<>>),
      Installation("serviceable", <<Component("k2", "m2", "id", <<>>, <<A, File("long", "x", <<>>)>>)>>,
                   <<Deployment("d2", "app", "c1")>>, <<>>),
      Installation("serviceable", <<>>, <<>>, <<Mum("p1", "c2", 64, <<>>), Mum("p2", "c1", 0, <<>>)>>),
      Installation("build once", <<Component("k1", "m1", "id", <<>>, <<A, B>>),
                                   Component("k1", "m2", "id", <<>>, <<>>)>>, <<>>, <<>>),
      Installation("unset", <<>>, <<>>, <<>>),
      Installation("serviceable", <<Component("k1", "compressed", "id", <<>>, <<>>)>>, <<>>, <<>>) }

MCWinners == {[keyform |-> "w1", family |-> "6.0", version |-> v, valid |-> v # "7.1"] : v \in {"6.0.1", "6.0.2", "7.1"}}

LOCAL Dir == [dir |-> TRUE, data |-> Absent]
MCStoreTrees ==
    { <<>>,
      (<<"System32">> :> Dir) @@ (<<"System32", "drivers">> :> [dir |-> FALSE, data |-> "q"])
        @@ (<<"System32", "a">> :> Dir) }

LOCAL FullName(family, variant) == [family |-> family, variant |-> variant, wellFormed |-> TRUE]
LOCAL Paint == FullName("paint", "x64")
LOCAL PaintPack == FullName("paint", "neutral")
LOCAL Notes == FullName("notes", "x64")
LOCAL NotesSpelled == FullName("Notes", "x64")
LOCAL Odd == [family |-> "paint", variant |-> "odd", wellFormed |-> FALSE]
MCFamilies == {"", "paint", "notes", "Notes"}
MCFoldFamily == [f \in MCFamilies |-> IF f = "Notes" THEN "notes" ELSE f]
MCFactory ==
    { [listed |-> <<Paint, Notes, PaintPack, Odd>>, endOfLife |-> <<>>,
       applications |-> {Paint, Notes, Odd}, folders |-> {Paint, PaintPack, Notes, Odd}],
      [listed |-> <<NotesSpelled, Paint, Notes, Paint>>, endOfLife |-> <<"paint">>,
       applications |-> {Paint, Notes, PaintPack}, folders |-> {Notes, PaintPack}] }
=============================================================================
