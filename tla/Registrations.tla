--------------------------- MODULE Registrations ---------------------------
(***************************************************************************)
(* What is registered in the hives of an image: services and devices in       *)
(* SYSTEM (ServiceRegistry), components and packages in COMPONENTS and         *)
(* SOFTWARE (ServicingStore), provisioned packages in SOFTWARE (AppxRemoval);  *)
(* and how such a hive is written to a file and read back (RegfHive).  The      *)
(* first three write below different keys and call nothing of one another, and *)
(* a hive is written when it is no longer edited, whatever tree of keys it     *)
(* holds by then: so a behaviour is about one of the four.                     *)
(***************************************************************************)
EXTENDS ServiceRegistry, ServicingStore, AppxRemoval, RegfHive

VARIABLE view       \* which of the four

registryVars == <<view, vars, storeVars, appxVars, hiveVars>>

RegistryInit ==
    /\ view \in {"services", "store", "apps", "hive"}
    /\ view # "services" => services = CHOOSE s \in Existing : TRUE
    /\ view # "store" => image = CHOOSE t \in StoreTrees : TRUE
    /\ view # "apps" => factory = CHOOSE f \in Factory : TRUE
    /\ view # "hive" => tree = CHOOSE t \in Trees : TRUE
    /\ Init /\ StoreInit /\ AppxInit /\ HiveInit

RegistryNext ==
    \/ view = "services" /\ Next /\ UNCHANGED <<view, storeVars, appxVars, hiveVars>>
    \/ view = "store" /\ StoreNext /\ UNCHANGED <<view, vars, appxVars, hiveVars>>
    \/ view = "apps" /\ AppxNext /\ UNCHANGED <<view, vars, storeVars, hiveVars>>
    \/ view = "hive" /\ HiveNext /\ UNCHANGED <<view, vars, storeVars, appxVars>>

RegistrySpec == RegistryInit /\ [][RegistryNext]_registryVars
=============================================================================
