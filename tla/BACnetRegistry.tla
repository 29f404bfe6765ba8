--------------------------- MODULE BACnetRegistry ---------------------------
(***************************************************************************)
(* What one scope of the BACnet device registry holds                      *)
(* (providers/bacnet/internal/discovery: manager.go, registry.go) as its   *)
(* refreshes find devices, lose them, meet the same Device Instance on two *)
(* routes and fail to read a device's identity.                            *)
(*                                                                         *)
(* The refreshes of a scope follow one another (BACnetManager); one takes  *)
(* its time stamp before it queues for the attachment, so time passes      *)
(* between the stamp, the start of the discovery window and its end.       *)
(* Instances within the configured bounds only; of a Device Object's seven *)
(* identity properties the model keeps two, which select the profile, and  *)
(* whether some property could not be read.                                *)
(***************************************************************************)
EXTENDS Naturals

CONSTANTS
    Instance, Route,
    StaticConfigs,        \* what may be configured as static devices: instance -> route
    MaxVendor, MaxModel,  \* property values; 0 is "not known"
    Profile,
    ProfileOf,            \* Catalog.Select, by vendor and model
    TTL,                  \* Attachment.ObservationTTL
    MaxTime               \* bound on the clock

ASSUME RegistryAssumption ==
    /\ \A f \in StaticConfigs : /\ DOMAIN f \subseteq Instance
                                /\ \A i \in DOMAIN f : f[i] \in Route
    /\ MaxVendor \in Nat /\ MaxModel \in Nat
    /\ ProfileOf \in [(0..MaxVendor) \X (0..MaxModel) -> Profile]
    /\ TTL \in Nat /\ MaxTime \in Nat \ {0}

VARIABLES
    staticRoute,   \* the configured static devices, fixed when the provider starts
    now,           \* the clock; 0 is time.Time's zero value
    refresh,       \* where the refresh of the scope is
    devices,       \* ScopeSnapshot.Devices by instance
    duplicates,    \* the instances of ScopeSnapshot.Duplicates
    lastAttempt,   \* ScopeSnapshot.LastAttempt
    lastSuccess,   \* ScopeSnapshot.LastSuccess
    found          \* auxiliary: instances the last refresh found on one route

registryVars == <<staticRoute, now, refresh, devices, duplicates, lastAttempt, lastSuccess, found>>
scope == <<devices, duplicates, lastAttempt, lastSuccess, found>>

Time == 0..MaxTime
Device == [route : Route, vendor : 0..MaxVendor, model : 0..MaxModel, profile : Profile,
           lastSeen : Time, static : BOOLEAN, issue : BOOLEAN]

NoRefresh == [pc |-> "idle"]

RegistryTypeOK ==
    /\ staticRoute \in StaticConfigs
    /\ now \in Time
    /\ refresh \in {NoRefresh} \cup [pc : {"queued"}, attemptedAt : Time]
                  \cup [pc : {"window"}, attemptedAt : Time, startedAt : Time]
    /\ DOMAIN devices \subseteq Instance
    /\ \A i \in DOMAIN devices : devices[i] \in Device
    /\ duplicates \subseteq Instance /\ found \subseteq Instance
    /\ lastAttempt \in Time /\ lastSuccess \in Time

RegistryInit ==
    /\ staticRoute \in StaticConfigs
    /\ now = 1
    /\ refresh = NoRefresh
    /\ devices = [i \in {} |-> 0]
    /\ duplicates = {} /\ found = {}
    /\ lastAttempt = 0 /\ lastSuccess = 0

Tick ==
    /\ now < MaxTime
    /\ now' = now + 1
    /\ UNCHANGED <<staticRoute, refresh, scope>>

(***************************************************************************)
(* A refresh takes its time stamp, waits for the attachment, and sends its *)
(* Who-Is; only what answers from then on counts.                          *)
(***************************************************************************)
Attempt ==
    /\ refresh = NoRefresh
    /\ refresh' = [pc |-> "queued", attemptedAt |-> now]
    /\ UNCHANGED <<staticRoute, now, scope>>

OpenWindow ==
    /\ refresh.pc = "queued"
    /\ refresh' = [pc |-> "window", attemptedAt |-> refresh.attemptedAt, startedAt |-> now]
    /\ UNCHANGED <<staticRoute, now, scope>>

\* The context ends while devices are discovered or identified.
Abandon ==
    /\ refresh # NoRefresh
    /\ refresh' = NoRefresh
    /\ UNCHANGED <<staticRoute, now, scope>>

(***************************************************************************)
(* The pure steps of RefreshScope.  A sighting is an instance on a route,  *)
(* with the time it was last seen.                                         *)
(***************************************************************************)
\* What Discover may return of a window: what was seen since it opened.
Sightings(startedAt) ==
    UNION {[answers -> startedAt..now] : answers \in SUBSET (Instance \X Route)}

StaticSightings == {<<i, staticRoute[i]>> : i \in DOMAIN staticRoute}

\* A static device replaces the sighting on its own route, its time included.
NormalizeObservations(seen) ==
    [k \in DOMAIN seen \cup StaticSightings |-> IF k \in StaticSightings THEN 0 ELSE seen[k]]

Duplicated(observations) ==
    {i \in Instance : \E r, s \in Route : /\ r # s
                                          /\ {<<i, r>>, <<i, s>>} \subseteq DOMAIN observations}

Unique(observations) ==
    {i \in Instance \ Duplicated(observations) : \E r \in Route : <<i, r>> \in DOMAIN observations}

\* Profile files that could match a device at the same precedence are refused
\* when they are loaded, so Select always finds one profile.  What Identify may
\* return: the properties it could read, whether one could not, and whether none
\* could (then the vendor may be known from the I-Am).
Readings ==
    {d \in [vendor : 0..MaxVendor, model : 0..MaxModel, issue : BOOLEAN, failed : BOOLEAN] :
        d.failed => d.issue /\ d.model = 0}

IdentifiedDevice(i, observations, reading, attemptedAt) ==
    LET r == CHOOSE r \in Route : <<i, r>> \in DOMAIN observations
        seenAt == observations[<<i, r>>]
    IN  [route |-> r, vendor |-> reading.vendor, model |-> reading.model,
         profile |-> ProfileOf[<<reading.vendor, reading.model>>],
         lastSeen |-> IF seenAt = 0 /\ ~reading.failed THEN attemptedAt ELSE seenAt,
         static |-> <<i, r>> \in StaticSightings,
         issue |-> reading.issue]

(***************************************************************************)
(* registry.replace                                                        *)
(***************************************************************************)
Known(current, previous) == IF current = 0 THEN previous ELSE current

MergeDevice(current, old) ==
    IF ~current.issue THEN current
    ELSE [current EXCEPT !.vendor = Known(@, old.vendor),
                         !.model = Known(@, old.model),
                         !.profile = old.profile,
                         !.lastSeen = Known(@, old.lastSeen)]

\* Devices that were not found now and are listed a while longer.
MutRetainedShort(current, conflicts, at) ==
    {i \in DOMAIN devices \ (DOMAIN current \cup conflicts) :
        devices[i].lastSeen # 0 /\ TTL > 0 /\ (at + 1) - devices[i].lastSeen < TTL}

MutRetainedAll(current, conflicts, at) ==
    {i \in DOMAIN devices \ DOMAIN current :
        devices[i].lastSeen # 0 /\ TTL > 0 /\ at - devices[i].lastSeen < TTL}

Retained(current, conflicts, at) ==
    {i \in DOMAIN devices \ (DOMAIN current \cup conflicts) :
        devices[i].lastSeen # 0 /\ TTL > 0 /\ at - devices[i].lastSeen < TTL}

MergeRetainedDevices(current, conflicts, at) ==
    [i \in DOMAIN current \cup Retained(current, conflicts, at) |->
        IF i \notin DOMAIN current THEN devices[i]
        ELSE IF i \notin DOMAIN devices THEN current[i]
        ELSE MergeDevice(current[i], devices[i])]

\* The window closes, every device found on one route is identified, and the
\* snapshot of the scope is replaced.
Finish ==
    /\ refresh.pc = "window"
    /\ \E seen \in Sightings(refresh.startedAt), failed \in BOOLEAN :
         LET observations == NormalizeObservations(seen)
             conflicts == Duplicated(observations)
         IN  \E readings \in [Unique(observations) -> Readings] :
               LET current == [i \in Unique(observations) |->
                                 IdentifiedDevice(i, observations, readings[i], refresh.attemptedAt)]
               IN  /\ devices' = MergeRetainedDevices(current, conflicts, refresh.attemptedAt)
                   /\ duplicates' = conflicts
                   /\ lastSuccess' = IF failed \/ conflicts # {} THEN lastSuccess
                                                                 ELSE refresh.attemptedAt
                   /\ found' = DOMAIN current
    /\ lastAttempt' = refresh.attemptedAt
    /\ refresh' = NoRefresh
    /\ UNCHANGED <<staticRoute, now>>

RegistryNext == Tick \/ Attempt \/ OpenWindow \/ Abandon \/ Finish

RegistrySpec == RegistryInit /\ [][RegistryNext]_registryVars

-----------------------------------------------------------------------------
(***************************************************************************)
(* Properties                                                              *)
(***************************************************************************)

\* A Device Instance that answered on two routes is not listed as a device, not
\* even from an earlier refresh or from the configuration, so no query and no
\* write picks one of the routes (manager.go:449-492, registry.go:94).
ConflictHidden ==
    /\ duplicates \cap DOMAIN devices = {}
    /\ \A i \in DOMAIN devices \cap DOMAIN staticRoute :
          i \in found => devices[i].route = staticRoute[i]

\* A listed device that the last refresh did not find was seen less than the
\* TTL before that refresh (registry.go:97).
RetainedFresh ==
    \A i \in DOMAIN devices \ found :
        devices[i].lastSeen # 0 /\ lastAttempt - devices[i].lastSeen < TTL

\* While a device stays listed, its last-seen time never goes back and is never
\* forgotten, whatever part of its identity could be read and although the
\* attempt's stamp is older than the sightings (manager.go:158, 217; registry.go:82).
LastSeenMonotone ==
    [][\A i \in DOMAIN devices \cap DOMAIN devices' :
          devices'[i].lastSeen >= devices[i].lastSeen]_registryVars

\* A device disappears only because of a conflict or because it had not been
\* seen for the TTL: not because one discovery failed or one window was missed
\* (registry.go:90-101).
DropJustified ==
    [][\A i \in DOMAIN devices \ DOMAIN devices' :
          \/ i \in duplicates'
          \/ devices[i].lastSeen = 0
          \/ lastAttempt' - devices[i].lastSeen >= TTL]_registryVars

\* A device whose identity was read without an issue has the profile its
\* identity selects, whatever profile the instance had before (registry.go:75).
CleanProfile ==
    \A i \in DOMAIN devices :
        ~devices[i].issue => devices[i].profile = ProfileOf[<<devices[i].vendor, devices[i].model>>]

\* What a scope lists is of its type and sound in all three respects
\* (RefreshScope, registry.replace).
RegistryExact == RegistryTypeOK /\ ConflictHidden /\ RetainedFresh /\ CleanProfile

\* What a scope learnt of a device is not lost from one refresh to the next
\* (mergeRetainedDevices).
DevicesKept == LastSeenMonotone /\ DropJustified
=============================================================================
