----------------------------- MODULE LootLedger -----------------------------
(***************************************************************************)
(* What a session promises about the things its dogs look for: a thing     *)
(* appears once, lies on the map until one dog takes it, and is counted    *)
(* once, for the dog that took it, when that dog brings it to an office.   *)
(* Nothing is lost, doubled, or passed from dog to dog.                    *)
(***************************************************************************)
EXTENDS Integers, FiniteSets

CONSTANTS
    Dogs,
    Things   \* records with an id, which tells things apart

VARIABLES
    lying,      \* the things on the map
    carried,    \* the things each dog carries
    delivered   \* the things each dog has brought to an office

vars == <<lying, carried, delivered>>

Known == lying \cup UNION {carried[d] \cup delivered[d] : d \in Dogs}

Init ==
    /\ lying = {}
    /\ carried = [d \in Dogs |-> {}]
    /\ delivered = [d \in Dogs |-> {}]

\* New things, which nobody has seen before.
Appear ==
    /\ \E fresh \in SUBSET (Things \ Known) :
        /\ fresh # {}
        /\ \A t \in fresh, u \in Known \cup fresh : t.id = u.id => t = u
        /\ lying' = lying \cup fresh
    /\ UNCHANGED <<carried, delivered>>

Take(d, t) ==
    /\ t \in lying
    /\ lying' = lying \ {t}
    /\ carried' = [carried EXCEPT ![d] = @ \cup {t}]
    /\ UNCHANGED delivered

Deliver(d) ==
    /\ delivered' = [delivered EXCEPT ![d] = @ \cup carried[d]]
    /\ carried' = [carried EXCEPT ![d] = {}]
    /\ UNCHANGED lying

Next ==
    \/ Appear
    \/ \E d \in Dogs : \/ \E t \in Things : Take(d, t)
                       \/ Deliver(d)

Spec == Init /\ [][Next]_vars
=============================================================================
