------------------------- MODULE CollisionDetector -------------------------
(***************************************************************************)
(* FindGatherEvents: the two loops over gatherers and items, and the sort  *)
(* of the events they detect.                                              *)
(***************************************************************************)
EXTENDS CollectionGeometry, Sequences, Functions

CONSTANTS
    GathererInputs,  \* the sequences of [start, end, width] to detect for
    ItemInputs       \* the sequences of [position, width]

\* A dog moves along one axis in a tick, if at all.
ASSUME InputsAssumption ==
    /\ GathererInputs \subseteq Seq(GathererType)
    /\ ItemInputs \subseteq Seq(ItemType)
    /\ \A s \in GathererInputs : \A k \in DOMAIN s :
            \E a \in {"x", "y"} : s[k].start[a] = s[k].end[a]

VARIABLES
    gatherers,  \* the provider's gatherers
    items,      \* the provider's items
    atGatherer, atItem,  \* the counters of the loops, g and i, from 1
    detected,   \* detected_events
    sorted      \* the function has returned

gatherVars == <<gatherers, items, atGatherer, atItem, detected, sorted>>

GatherInit ==
    /\ gatherers \in GathererInputs
    /\ items \in ItemInputs
    /\ atGatherer = 1 /\ atItem = 1
    /\ detected = <<>>
    /\ sorted = FALSE

SkipGatherer ==
    /\ atGatherer <= Len(gatherers) /\ atItem = 1
    /\ StoodStill(gatherers[atGatherer])
    /\ atGatherer' = atGatherer + 1
    /\ UNCHANGED <<gatherers, items, atItem, detected, sorted>>

Event(gid, iid) ==
    [gatherer_id |-> gid, item_id |-> iid,
     at |-> EventTime(gatherers[gid], items[iid])]

TryItem ==
    /\ atGatherer <= Len(gatherers) /\ atItem <= Len(items)
    /\ atItem = 1 => ~StoodStill(gatherers[atGatherer])
    /\ detected' = IF Collects(gatherers[atGatherer], items[atItem])
                   THEN Append(detected, Event(atGatherer, atItem))
                   ELSE detected
    /\ atItem' = atItem + 1
    /\ UNCHANGED <<gatherers, items, atGatherer, sorted>>

NextGatherer ==
    /\ atGatherer <= Len(gatherers) /\ atItem > Len(items)
    /\ atGatherer' = atGatherer + 1
    /\ atItem' = 1
    /\ UNCHANGED <<gatherers, items, detected, sorted>>

\* Slip: the events are returned in the order of detection.
ReturnUnsorted ==
    /\ atGatherer > Len(gatherers) /\ ~sorted
    /\ sorted' = TRUE
    /\ UNCHANGED <<gatherers, items, atGatherer, atItem, detected>>

\* std::sort keeps no order among events of equal time.
SortEvents ==
    /\ atGatherer > Len(gatherers) /\ ~sorted
    /\ \E p \in Bijection(DOMAIN detected, DOMAIN detected) :
        /\ detected' = [k \in DOMAIN detected |-> detected[p[k]]]
        /\ \A j \in 2 .. Len(detected) : NotLater(detected'[j - 1].at, detected'[j].at)
    /\ sorted' = TRUE
    /\ UNCHANGED <<gatherers, items, atGatherer, atItem>>

GatherNext == SkipGatherer \/ TryItem \/ NextGatherer \/ SortEvents

GatherSpec == GatherInit /\ [][GatherNext]_gatherVars /\ WF_gatherVars(GatherNext)

-----------------------------------------------------------------------------
(* Properties.                                                             *)

GatherTypes ==
    /\ gatherers \in GathererInputs /\ items \in ItemInputs
    /\ atGatherer \in 1 .. Len(gatherers) + 1
    /\ atItem \in 1 .. Len(items) + 1
    /\ sorted \in BOOLEAN

\* The function reports each passing exactly once, whatever the order of the
\* loops, and nothing for a gatherer that stood still.
EventsComplete ==
    sorted =>
        /\ {<<detected[k].gatherer_id, detected[k].item_id>> :
                k \in DOMAIN detected}
             = {x \in (DOMAIN gatherers) \X (DOMAIN items) :
                    Passes(gatherers[x[1]], items[x[2]])}
        /\ \A j, k \in DOMAIN detected :
                /\ detected[j].gatherer_id = detected[k].gatherer_id
                /\ detected[j].item_id = detected[k].item_id
                => j = k

\* The share of its way a gatherer has gone when it passes an item, as the
\* quotient of two lengths along its axis.
Gone(gatherer, item) ==
    LET a == IF gatherer.start["x"] # gatherer.end["x"] THEN "x" ELSE "y"
    IN  [part  |-> Abs(item.position[a] - gatherer.start[a]),
         whole |-> Abs(gatherer.end[a] - gatherer.start[a])]

\* The events come in the order in which the gatherers pass the items, if all
\* of them set out and arrive together.
EventsInOrder ==
    sorted =>
        \A k \in DOMAIN detected : \A j \in 1 .. k :
            LET e == Gone(gatherers[detected[j].gatherer_id],
                          items[detected[j].item_id])
                f == Gone(gatherers[detected[k].gatherer_id],
                          items[detected[k].item_id])
            IN  e.part * f.whole <= f.part * e.whole
=============================================================================
