---------------------------- MODULE SessionLease ----------------------------
(***************************************************************************)
(* What the providers promise of a backend session that logical            *)
(* connections share: at any time one session at most is handed out per    *)
(* slot (a namespace, a cluster), whoever asks joins it, it is closed only *)
(* after its last holder left, and then it is closed.                      *)
(***************************************************************************)
EXTENDS Naturals, FiniteSets

CONSTANTS Slots, Sessions, Users, Nobody

VARIABLES
    current,      \* the session handed out for each slot, or Nobody
    life,         \* life[s] : "unborn", "open" or "closed"
    holders       \* holders[s] : the users that hold session s

leaseVars == <<current, life, holders>>

LeaseInit ==
    /\ current = [n \in Slots |-> Nobody]
    /\ life = [s \in Sessions |-> "unborn"]
    /\ holders = [s \in Sessions |-> {}]

\* The first user of a slot makes the session that the others will share.
Create(n, s, u) ==
    /\ current[n] = Nobody /\ life[s] = "unborn"
    /\ current' = [current EXCEPT ![n] = s]
    /\ life' = [life EXCEPT ![s] = "open"]
    /\ holders' = [holders EXCEPT ![s] = {u}]

Join(n, s, u) ==
    /\ current[n] = s /\ u \notin holders[s]
    /\ holders' = [holders EXCEPT ![s] = @ \cup {u}]
    /\ UNCHANGED <<current, life>>

\* A request hands what it acquired to its connection.
Transfer(s, u, v) ==
    /\ u \in holders[s] /\ v \notin holders[s]
    /\ holders' = [holders EXCEPT ![s] = (@ \ {u}) \cup {v}]
    /\ UNCHANGED <<current, life>>

Leave(n, s, u) ==
    /\ current[n] = s /\ u \in holders[s]
    /\ holders' = [holders EXCEPT ![s] = @ \ {u}]
    /\ current' = [current EXCEPT ![n] = IF holders[s] = {u} THEN Nobody ELSE @]
    /\ UNCHANGED life

Shut(s) ==
    /\ life[s] = "open" /\ holders[s] = {} /\ \A n \in Slots : current[n] # s
    /\ life' = [life EXCEPT ![s] = "closed"]
    /\ UNCHANGED <<current, holders>>

LeaseNext ==
    \E s \in Sessions :
        \/ \E n \in Slots, u \in Users : Create(n, s, u) \/ Join(n, s, u) \/ Leave(n, s, u)
        \/ \E u, v \in Users : Transfer(s, u, v)
        \/ Shut(s)

LeaseSafety == LeaseInit /\ [][LeaseNext]_leaseVars

LeaseFairness == \A s \in Sessions : WF_leaseVars(Shut(s))

LeaseSpec == LeaseSafety /\ LeaseFairness
=============================================================================
