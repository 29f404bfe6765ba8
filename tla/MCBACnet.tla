------------------------------ MODULE MCBACnet ------------------------------
(***************************************************************************)
(* The BACnet provider for TLC.  A behaviour runs one of three parts: the  *)
(* manager, with two scopes that share an attachment and one with an       *)
(* attachment of its own; the registry of one scope, in which i1 may be a  *)
(* static device on r1; or one call on a device, with its profiles.  The   *)
(* manager and the registry stay in their initial state, in which no       *)
(* action of their fairness is enabled, and the variables of the call are  *)
(* Off, when they do not run.                                              *)
(***************************************************************************)
EXTENDS BACnetManager, BACnetRegistry, TLC

CONSTANTS lan, uplink, s1, s2, s3, i1, r1, standard, vendorProfile, modelProfile, Off

VARIABLES
    part,
    profiles, metadata, snapshot, multiple, world, pending, reply, since, changes   \* BACnetRequests

MCAttachmentOf == [s \in Scope |-> IF s = s3 THEN uplink ELSE lan]

MCStaticConfigs == {[i \in {} |-> r1], [i \in {i1} |-> r1]}

\* The most specific of a model's, a vendor's and the standard profile.
MCProfileOf ==
    [k \in (0..MaxVendor) \X (0..MaxModel) |->
        IF k[1] = 0 THEN standard ELSE IF k[2] = 0 THEN vendorProfile ELSE modelProfile]

Cases == INSTANCE BACnetCases
RawCatalogs == Cases!MCRawCatalogs
Snapshots == Cases!MCSnapshots
Policies == Cases!MCPolicies
DeviceRequests == Cases!MCDeviceRequests
Worlds == Cases!MCWorlds

Q == INSTANCE BACnetRequests WITH
    ObjectLimit <- 4, IntMax <- 3, EnumMax <- 7, LongMax <- 9, UnsignedMax <- 19, RealMax <- 15,
    NotFinite <- 99, MaxChanges <- 1, MaxLost <- 1

requests == <<profiles, metadata, snapshot, multiple, world, pending, reply, since, changes>>

RequestsOff ==
    /\ profiles = Off /\ metadata = Off /\ snapshot = Off /\ multiple = Off /\ world = Off
    /\ pending = Off /\ reply = Off /\ since = Off /\ changes = Off

BACnetVars == <<vars, registryVars, requests, part>>

BACnetInit ==
    /\ part \in {"manager", "registry", "requests"} /\ Init /\ RegistryInit
    /\ part # "registry" => DOMAIN staticRoute = {}
    /\ IF part = "requests" THEN Q!RequestsInit ELSE RequestsOff

BACnetNext ==
    \/ part = "manager" /\ Next /\ UNCHANGED <<registryVars, requests, part>>
    \/ part = "registry" /\ RegistryNext /\ UNCHANGED <<vars, requests, part>>
    \/ part = "requests" /\ Q!RequestsNext /\ UNCHANGED <<vars, registryVars, part>>

BACnetSpec == BACnetInit /\ [][BACnetNext]_BACnetVars /\ Fairness

\* Documents that are accepted select one profile for every device; the rows of a
\* query are what the device held while it was read; and the answer to an update
\* says whether it was carried out, on the object it names, as far as the provider
\* can know (Catalog.Select, the Execute of queries and updates, writeError).
RequestsExact == [][part = "requests" => Q!RequestStepExact]_requests
=============================================================================
