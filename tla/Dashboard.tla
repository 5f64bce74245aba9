----------------------------- MODULE Dashboard ------------------------------
(***************************************************************************)
(* What the dashboard's pages (src/dashboard) offer their visitors to do,   *)
(* computed from the indexer's snapshot, the slot, and what the facilitator *)
(* answers about a NodeSettlement.  The program decides again when the      *)
(* transaction arrives; here the pages' own copies of its conditions are    *)
(* compared with it.                                                        *)
(*                                                                          *)
(* A page keeps no state that outlives it.  The fields of a node that are   *)
(* fixed when it is created or claimed are taken from the chain.            *)
(***************************************************************************)
EXTENDS Indexer

\* GET /pipelines, and the nodes of a pipeline with one of these statuses.
StatusShown(p) == data.pipelines[p].status
ShownAs(p, statuses) == {i \in Indexes : data.pipelines[p].nodes[i] \in statuses}

(***************************************************************************)
(* The work page: what an agent of this tier may claim, what it works on.   *)
(***************************************************************************)
\* Where a node stands in the list, from which the nodes that were gone when they
\* were to be read are missing.
Position(p, i) == Cardinality({j \in Indexes : j < i /\ data.pipelines[p].nodes[j] # "Absent"})
PositionsShownAs(p, statuses) == {Position(p, i) : i \in ShownAs(p, statuses)}

\* A seeded fault: a dependency somebody works on counts.
DepsTaken(p, i) == node[p][i].dependency_mask \cap PositionsShownAs(p, {"Pending"}) = {}

\* p.nodes[d], for every dependency d.
DepsSettled(p, i) == node[p][i].dependency_mask \subseteq PositionsShownAs(p, {"Settled"})

Claimable(p, tier) ==
  {i \in ShownAs(p, {"Pending"}) :
     /\ StatusShown(p) = "Active"
     /\ node[p][i].required_tier <= tier
     /\ DepsSettled(p, i)}

InProgress(p, agent) ==
  {i \in ShownAs(p, {"Claimed"}) : StatusShown(p) = "Active" /\ node[p][i].agent = agent}

(***************************************************************************)
(* The pipeline page and its settlement panel.  seen is the slot it knows:  *)
(* read when the panel was refreshed, and 0 when that failed.  answered     *)
(* says whether GET /settlement gave it the node's settlement.              *)
(***************************************************************************)
\* A seeded fault: only nodes somebody claimed can be late.
OverdueClaimed(p, seen) ==
  {i \in ShownAs(p, {"Claimed"}) : seen > 0 /\ seen >= node[p][i].deadline_slot}

OverdueShown(p, seen) ==
  {i \in ShownAs(p, {"Claimed", "Pending"}) : seen > 0 /\ seen >= node[p][i].deadline_slot}

\* GET /settlement: with the default window, whatever the settlement snapshotted.
DisputeUntilShown(p, i) == settlement[p][i].submitted_at_slot + DISPUTE_SLOTS

\* Without an answer nothing remains of the window.
Got(p, i, answered) == answered /\ settlement[p][i].open
WindowOpenShown(p, i, seen, answered) == Got(p, i, answered) /\ seen < DisputeUntilShown(p, i)

Undisputed(p, answered) ==
  {i \in ShownAs(p, {"Submitted"}) : ~(Got(p, i, answered) /\ settlement[p][i].disputed)}
DisputeOffered(p, seen, answered) ==
  {i \in Undisputed(p, answered) : WindowOpenShown(p, i, seen, answered)}
FinalizeOffered(p, seen, answered) ==
  {i \in Undisputed(p, answered) : ~WindowOpenShown(p, i, seen, answered)}

InEscrowShown(p) ==
  pipeline[p].total_usdc_locked - Total(Allocation(p), ShownAs(p, {"Settled", "Expired"}))

-----------------------------------------------------------------------------
\* However old and however pieced together the snapshot is: while the pipeline is
\* Active on chain a node is offered only when its dependencies are settled there
\* (PRODUCT.md:379), so that an offer claim_node refuses for its dependencies is one
\* of a pipeline that ended meanwhile; and the work described with a node is what the
\* consumer who pays for it signed (api.ts:24).
OffersAreReady ==
  \A p \in Pipelines, tier \in Tiers :
    \A i \in Claimable(p, tier) :
      /\ pipeline[p].status = "Active" => DependenciesSettled(p, i)
      /\ WithSpecs(p) # NoSpec => WithSpecs(p).consumer = ConsumerOf[p]

\* The vault holds what the open nodes need; none of the nodes is gone.  Only a cancel
\* can make either false.
VaultIsWhole(p) == vault[p] = Total(Locked(p), Indexes)
NodesAreThere(p) == \A i \in Indexes : i < pipeline[p].total_nodes => NodeExists(p, i)

\* The pages repeat conditions of the program in their own words.  With a current
\* snapshot they offer what the program accepts: claims, submissions, refunds,
\* disputes and payouts, and what they show as in escrow is the vault without what
\* nodes left behind that ended in another mint.  They part in eight places: a pause;
\* work claimed before another node expired, or before a cancel that did not list it,
\* which can be submitted and is not listed; the slot of the deadline, where
\* expire_node does not work yet; the last slot of the window, where a dispute still
\* does; a window tuned away from the default; a settlement the facilitator did not
\* answer for, where an open window is not shown and Finalize is offered in it; a slot
\* read earlier or not at all, which hides refunds and payouts that are due; a
\* cancelled pipeline, whose nodes or funds are gone.
PagesAgreeWithProgram ==
  \A p \in Pipelines : \A i \in Indexes : data.pipelines[p] = Current(p) =>
    LET window == settlement[p][i].dispute_slots IN
    /\ \A tier \in Tiers :
         ~pipeline_config.paused =>
           (i \in Claimable(p, tier) <=> MayClaim(p, i, tier))
    /\ StatusShown(p) \notin {"PartiallyRefunded", "Cancelled"} =>
         (i \in InProgress(p, node[p][i].agent) <=> node[p][i].status = "Claimed")
    /\ VaultIsWhole(p) => \A seen \in 0..slot :
         /\ slot # node[p][i].deadline_slot =>
              (i \in OverdueShown(p, seen) => MayExpire(p, i, {}, MintOf[p]))
         /\ seen = slot =>
              (MayExpire(p, i, {}, MintOf[p]) => i \in OverdueShown(p, seen))
    /\ window <= DISPUTE_SLOTS /\ slot # DisputeUntil(p, i) =>
         (DisputeOpen(p, i) => \A seen \in 0..slot : i \in DisputeOffered(p, seen, TRUE))
    /\ window >= DISPUTE_SLOTS =>
         (MayFinalize(p, i, MintOf[p]) =>
            \A seen \in 0..slot, answered \in BOOLEAN :
              seen = slot \/ ~answered => i \in FinalizeOffered(p, seen, answered))
    /\ NodesAreThere(p) /\ VaultIsWhole(p) =>
         InEscrowShown(p) = vault[p] - Total(left_behind[p], Indexes)
=============================================================================
