--------------------------- MODULE IndexerProofs ----------------------------
(***************************************************************************)
(* Theorems of Indexer and Dashboard, for every number of polls that        *)
(* overlap and whatever lists cancel_pipeline is given: a snapshot adds up  *)
(* however it was pieced together, what is offered on it is ready, no poll  *)
(* loses a spec, and the pages offer what the program accepts.              *)
(***************************************************************************)
EXTENDS Dashboard, DagEscrowProofs

(***************************************************************************)
(* The counters of a pipeline account, whatever lists cancel_pipeline is    *)
(* given.  They count the nodes by how they ended; a pipeline that is       *)
(* Active has lost none, and one that is Completed has settled all it was   *)
(* made with.  What a partial cancel breaks is only that a status tells     *)
(* which nodes there still are.                                             *)
(***************************************************************************)
Made(p) == {i \in Indexes : node[p][i].status # "Absent"}

Counts(pl, settled, expired, closed, made) ==
  /\ pl.settled_mask = settled
  /\ pl.nodes_settled = Cardinality(settled)
  /\ pl.nodes_expired = Cardinality(expired)
  /\ pl.total_nodes = Cardinality(made)
  /\ pl.status = "Completed" => settled = made
  /\ pl.status = "Active" => expired = {} /\ closed = {}

Counted(p) == Counts(pipeline[p], Settled(p), Expired(p), Closed(p), Made(p))
CountInv == \A p \in Pipelines : Counted(p)

LEMMA ElsewhereCounted ==
  ASSUME CountInv, NEW p \in Pipelines, Elsewhere(p), Counted(p)'
  PROVE  CountInv'
<1> SUFFICES ASSUME NEW q \in Pipelines \ {p} PROVE Counted(q)'
  BY DEF CountInv
<1>1. Counted(q)
  BY DEF CountInv
<1>2. Made(q)' = Made(q)
  BY DEF Elsewhere, Made
<1> QED
  BY <1>1, <1>2, ElsewhereNodes DEF Counted

LEMMA InitCounts == Init => CountInv
<1> SUFFICES ASSUME Init, NEW p \in Pipelines PROVE Counted(p)
  BY DEF CountInv
<1>1. pipeline[p] = NoPipeline
  BY DEF Init
<1>2. \A i \in Indexes : node[p][i].status = "Absent"
  BY DEF Init, NoNode
<1>3. Settled(p) = {} /\ Expired(p) = {} /\ Closed(p) = {} /\ Made(p) = {}
  BY <1>2 DEF Settled, Expired, Closed, NodesWith, Made
<1> QED
  BY <1>1, <1>3, FS_EmptySet DEF Counted, Counts, NoPipeline

LEMMA WorkedCounts ==
  ASSUME CountInv, Worked
  PROVE  CountInv'
<1> SUFFICES ASSUME NEW p \in Pipelines PROVE Counted(p)'
  BY DEF CountInv
<1>1. Counted(p) /\ pipeline' = pipeline
  BY DEF CountInv, Worked
<1>2. Made(p)' = Made(p)
  BY DEF Worked, Made, OpenStatus, ActiveStatus
<1> QED
  BY <1>1, <1>2, WorkedNodes DEF Counted

\* The nodes that are paid or returned were there and had not ended.
LEMMA RetiredMade ==
  ASSUME NEW p \in Pipelines, NEW R, NEW fate \in {"Settled", "Expired"}, Retired(p, R, fate)
  PROVE  /\ Made(p)' = Made(p) /\ IsFiniteSet(Made(p))
         /\ R \subseteq Made(p) \ (Settled(p) \cup Expired(p))
         /\ Settled(p) \subseteq Made(p) /\ Expired(p) \subseteq Made(p)
<1>1. R \subseteq Indexes /\ \A j \in R : node[p][j].status \in OpenStatus
  BY DEF Retired, NodesWith
<1>2. \A j \in Indexes : node'[p][j].status = IF j \in R THEN fate ELSE node[p][j].status
  BY DEF Retired
<1>3. Made(p)' = Made(p)
  BY <1>1, <1>2 DEF Made, OpenStatus, ActiveStatus
<1>4. R \subseteq Made(p) \ (Settled(p) \cup Expired(p))
  BY <1>1 DEF Made, Settled, Expired, NodesWith, OpenStatus, ActiveStatus
<1>5. Made(p) \in SUBSET Indexes
  BY DEF Made
<1>6. IsFiniteSet(Made(p))
  BY <1>5, IndexesFinite, FS_Subset
<1> QED
  BY <1>3, <1>4, <1>6 DEF Made, Settled, Expired, NodesWith

LEMMA PaidCounts ==
  ASSUME TypeOK, CountInv, NEW p \in Pipelines, NEW mint, NEW i \in Indexes, Paid(p, i, mint)
  PROVE  CountInv'
<1> DEFINE S == Settled(p)
           M == Made(p)
           pl == pipeline[p]
<1>1. /\ Settled(p)' = S \cup {i} /\ Expired(p)' = Expired(p) /\ Closed(p)' = Closed(p)
      /\ Made(p)' = M /\ IsFiniteSet(M) /\ S \subseteq M /\ i \in M \ S
  BY PaidRetired, RetiredNodes, RetiredMade
<1>2. pl \in PipelineAccount /\ pipeline'[p] = CountSettled(pl, i)
  BY AccountWritten DEF TypeOK
<1>3. /\ pipeline'[p].settled_mask = pl.settled_mask \cup {i}
      /\ pipeline'[p].nodes_settled = pl.nodes_settled + 1
      /\ pipeline'[p].nodes_expired = pl.nodes_expired
      /\ pipeline'[p].total_nodes = pl.total_nodes
      /\ pipeline'[p].status = StatusAfterSettle(pl)
  BY <1>2 DEF CountSettled, PipelineAccount
<1>4. Counts(pl, S, Expired(p), Closed(p), M)
  BY DEF CountInv, Counted
<1> HIDE DEF S, M, pl
<1>5. IsFiniteSet(S) /\ Cardinality(S \cup {i}) = Cardinality(S) + 1
  BY <1>1, FS_Subset, FS_AddElement
<1>6. S \cup {i} \subseteq M /\ (S \cup {i} = M <=> Cardinality(S \cup {i}) = Cardinality(M))
  BY <1>1, FS_Subset
<1>7. S # M
  BY <1>1
<1>8. pipeline'[p].status = "Completed" => S \cup {i} = M
  BY <1>3, <1>4, <1>5, <1>6, <1>7 DEF StatusAfterSettle, Counts
<1>9. pipeline'[p].status = "Active" => pl.status = "Active"
  BY <1>3 DEF StatusAfterSettle
<1>10. Counts(pipeline'[p], S \cup {i}, Expired(p), Closed(p), M)
  BY <1>3, <1>4, <1>5, <1>8, <1>9 DEF Counts
<1>11. Counted(p)'
  BY <1>1, <1>10 DEF Counted
<1> QED
  BY <1>11, StepsElsewhere, ElsewhereCounted

LEMMA ReturnedCounts ==
  ASSUME TypeOK, CountInv, NEW p \in Pipelines, NEW mint, NEW R \in SUBSET Indexes,
         Returned(p, R, mint)
  PROVE  CountInv'
<1> DEFINE X == Expired(p)
           M == Made(p)
           pl == pipeline[p]
           count == Cardinality(R)
<1>1. /\ Settled(p)' = Settled(p) /\ Expired(p)' = X \cup R /\ Closed(p)' = Closed(p)
      /\ Made(p)' = M /\ IsFiniteSet(M) /\ X \subseteq M /\ R \subseteq M \ X
  BY ReturnedRetired, RetiredNodes, RetiredMade
<1>2. pl \in PipelineAccount /\ pipeline'[p] = CountExpired(pl, count)
  BY AccountWritten DEF TypeOK
<1>3. Counts(pl, Settled(p), X, Closed(p), M)
  BY DEF CountInv, Counted
<1> HIDE DEF X, M, pl, count
<1>4. /\ pipeline'[p].settled_mask = pl.settled_mask
      /\ pipeline'[p].nodes_settled = pl.nodes_settled
      /\ pipeline'[p].nodes_expired = pl.nodes_expired + count
      /\ pipeline'[p].total_nodes = pl.total_nodes
      /\ pipeline'[p].status = "PartiallyRefunded"
  BY <1>2 DEF CountExpired, PipelineAccount
<1>5. IsFiniteSet(X) /\ IsFiniteSet(R) /\ X \cap R = {}
  BY <1>1, FS_Subset
<1>6. Cardinality(X \cup R) = Cardinality(X) + Cardinality(R)
  <2>1. Cardinality(X \cap R) = 0
    BY <1>5, FS_EmptySet
  <2>2. Cardinality(X \cup R) = Cardinality(X) + Cardinality(R) - Cardinality(X \cap R)
    BY <1>5, FS_Union
  <2>3. Cardinality(X) \in Nat /\ Cardinality(R) \in Nat
    BY <1>5, FS_CardinalityType
  <2> QED
    BY <2>1, <2>2, <2>3
<1>7. Counts(pipeline'[p], Settled(p), X \cup R, Closed(p), M)
  BY <1>3, <1>4, <1>6 DEF Counts, count
<1>8. Counted(p)'
  BY <1>1, <1>7 DEF Counted
<1> QED
  BY <1>8, StepsElsewhere, ElsewhereCounted

LEMMA CreatedCounts ==
  ASSUME TypeOK, CountInv, NEW p \in Pipelines, NEW node_configs \in NodeConfigLists,
         CreatePipeline(p, node_configs)
  PROVE  CountInv'
<1> DEFINE n == Len(node_configs)
<1>1. /\ n \in Nat /\ n >= 1
      /\ Settled(p)' = {} /\ Expired(p)' = {} /\ Closed(p)' = {}
      /\ 0..(n - 1) \subseteq Indexes
      /\ \A i \in Indexes : node'[p][i] = IF i < n THEN PendingNode(node_configs[i + 1])
                                                   ELSE NoNode("Absent")
  BY CreatedNodes
<1>2. /\ pipeline'[p].status = "Active" /\ pipeline'[p].total_nodes = n
      /\ pipeline'[p].nodes_settled = 0 /\ pipeline'[p].nodes_expired = 0
      /\ pipeline'[p].settled_mask = {}
  BY DEF CreatePipeline, TypeOK
<1> HIDE DEF n
<1>3. \A i \in Indexes : node'[p][i].status = IF i < n THEN "Pending" ELSE "Absent"
  BY <1>1, PendingNodeFields
<1>4. \A i \in Indexes : i < n <=> i \in 0..(n - 1)
  BY <1>1 DEF Indexes
<1>5. Made(p)' = 0..(n - 1)
  BY <1>1, <1>3, <1>4 DEF Made
<1>6. Cardinality(0..(n - 1)) = n
  <2>1. 0 \in Int /\ n - 1 \in Int /\ ~(0 > n - 1)
    BY <1>1
  <2>2. Cardinality(0..(n - 1)) = (n - 1) - 0 + 1
    BY <2>1, FS_Interval
  <2> QED
    BY <1>1, <2>2
<1>7. Counted(p)'
  BY <1>1, <1>2, <1>5, <1>6, FS_EmptySet DEF Counted, Counts
<1> QED
  BY <1>7, StepsElsewhere, ElsewhereCounted

\* A cancel closes nodes that were pending: it takes away none of those that ended.
LEMMA CancelledCounts ==
  ASSUME TypeOK, CountInv, NEW p \in Pipelines, NEW consumer, NEW listed, NEW mint,
         CancelPipeline(p, consumer, listed, mint)
  PROVE  CountInv'
<1>1. /\ pipeline'[p].status = "Cancelled"
      /\ pipeline'[p].nodes_settled = pipeline[p].nodes_settled
      /\ pipeline'[p].nodes_expired = pipeline[p].nodes_expired
      /\ pipeline'[p].settled_mask = pipeline[p].settled_mask
      /\ pipeline'[p].total_nodes = pipeline[p].total_nodes
  <2>1. pipeline[p] \in PipelineAccount
    BY DEF TypeOK
  <2> QED
    BY <2>1 DEF CancelPipeline, TypeOK, PipelineAccount
<1>2. \A j \in Indexes :
        node'[p][j] = IF j \in listed THEN NoNode("Closed") ELSE node[p][j]
  BY DEF CancelPipeline, TypeOK
<1>3. \A j \in listed : node[p][j].status = "Pending"
  BY DEF CancelPipeline
<1>4. \A j \in Indexes :
        node'[p][j].status = IF j \in listed THEN "Closed" ELSE node[p][j].status
  BY <1>2, PendingNodeFields
<1>5. Settled(p)' = Settled(p) /\ Expired(p)' = Expired(p) /\ Made(p)' = Made(p)
  BY <1>3, <1>4 DEF Settled, Expired, NodesWith, Made
<1>6. Counted(p)
  BY DEF CountInv
<1>7. Counted(p)'
  BY <1>1, <1>5, <1>6 DEF Counted, Counts
<1> QED
  BY <1>7, StepsElsewhere, ElsewhereCounted

LEMMA CountsPreserved ==
  ASSUME TypeOK, CountInv, [Next]_vars
  PROVE  CountInv'
BY StepKinds, WorkedCounts, PaidCounts, ReturnedCounts, CreatedCounts, CancelledCounts

\* What the indexer needs of the chain.
IndexedChain == ChainInv /\ CountInv /\ PositionInv

LEMMA IndexedChainPreserved ==
  ASSUME IndexedChain, [Next]_vars
  PROVE  IndexedChain' /\ NodesForward /\ AllKept
BY ChainPreserved, CountsPreserved, PositionsPreserved, StepsForward, StepsKept
   DEF IndexedChain, ChainInv

LEMMA InitIndexedChain == Init => IndexedChain
BY InitTyped, InitReview, InitJobs, InitCounts, InitPositions DEF IndexedChain, ChainInv

(***************************************************************************)
(* What a poll has read.  A pipeline's counters are read before its nodes,  *)
(* and what they count is final: with the nodes that are still to be read   *)
(* taken from the chain, the list next to the counters shows at least as    *)
(* many settled and expired nodes as they say, at every moment.  It leaves  *)
(* out only nodes that are gone for good.                                   *)
(***************************************************************************)
Views == [Pipelines -> View]
PollRecord ==
  [at: {"idle", "listed", "reading"}, todo: SUBSET Pipelines,
   current: Pipelines \cup {NoPoll.current}, next: Nat, raw: Views]

Reading(r, p) == r.at = "reading" /\ r.current = p

Outlook(r, p) ==
  [i \in Indexes |-> IF Reading(r, p) /\ i >= r.next THEN NodeRead(p, i) ELSE r.raw[p].nodes[i]]

Shown(nodes, status) == {i \in Indexes : nodes[i] = status}

AddsUp(v, nodes) ==
  /\ v.nodes_settled <= Cardinality(Shown(nodes, "Settled"))
  /\ v.nodes_expired <= Cardinality(Shown(nodes, "Expired"))
  /\ v.status = "Completed" => \A i \in Indexes : nodes[i] \notin {"Pending", "Claimed"}
  /\ v.status = "Active" => v.nodes_expired = 0

\* A node once shown settled is settled.
Evident(p, nodes) == \A i \in Indexes : nodes[i] = "Settled" => node[p][i].status = "Settled"

\* A node that is missing from the list is gone.
Covers(p, v, nodes) ==
  v.status # "Absent" =>
    Listed(p) /\ \A i \in Indexes : NodeExists(p, i) => nodes[i] # "Absent"

ViewSound(r, p) ==
  /\ Reading(r, p) => \A i \in Indexes : i >= r.next => r.raw[p].nodes[i] = "Absent"
  /\ AddsUp(r.raw[p], Outlook(r, p))
  /\ Evident(p, r.raw[p].nodes)
  /\ Covers(p, r.raw[p], Outlook(r, p))

PollSound(r) ==
  /\ r \in PollRecord
  /\ r.at = "reading" => r.current \in Pipelines /\ Listed(r.current)
  /\ \A p \in r.todo : Listed(p)
  /\ \A p \in Pipelines : ViewSound(r, p)

ViewsSound(views) ==
  /\ views \in Views
  /\ \A p \in Pipelines : /\ AddsUp(views[p], views[p].nodes)
                         /\ Evident(p, views[p].nodes)
                         /\ Covers(p, views[p], views[p].nodes)

StoreInv ==
  /\ data \in [pipelines: Views, specs: [Pipelines -> SpecEntry]]
  /\ ViewsSound(data.pipelines)
  /\ file.parses => file.content = data

PollsSound ==
  /\ poll = [q \in Polls |-> poll[q]]
  /\ \A q \in Polls : PollSound(poll[q])

IndexerInv == IndexedChain /\ StoreInv /\ PollsSound

\* More ends may be shown than were counted, and less work in progress.
LEMMA AddsUpLater ==
  ASSUME NEW v \in View, NEW m, NEW n, AddsUp(v, n),
         \A i \in Indexes : n[i] \in Ends => m[i] = n[i],
         \A i \in Indexes : m[i] \in {"Pending", "Claimed"} => n[i] \in {"Pending", "Claimed"}
  PROVE  AddsUp(v, m)
<1>1. Shown(n, "Settled") \subseteq Shown(m, "Settled")
      /\ Shown(n, "Expired") \subseteq Shown(m, "Expired")
  BY DEF Shown, Ends
<1>2. ASSUME NEW S \in SUBSET Indexes, NEW T \in SUBSET Indexes, S \subseteq T, NEW k \in Nat,
             k <= Cardinality(S)
      PROVE  k <= Cardinality(T)
  <2>1. IsFiniteSet(S) /\ IsFiniteSet(T)
    BY IndexesFinite, FS_Subset
  <2>2. Cardinality(S) <= Cardinality(T) /\ Cardinality(S) \in Nat /\ Cardinality(T) \in Nat
    BY <1>2, <2>1, FS_Subset, FS_CardinalityType
  <2> QED
    BY <1>2, <2>2
<1>3. v.nodes_settled \in Nat /\ v.nodes_expired \in Nat
  BY DEF View
<1>4. v.nodes_settled <= Cardinality(Shown(m, "Settled"))
      /\ v.nodes_expired <= Cardinality(Shown(m, "Expired"))
  <2>1. \A s : Shown(n, s) \in SUBSET Indexes /\ Shown(m, s) \in SUBSET Indexes
    BY DEF Shown
  <2> QED
    BY <1>1, <1>2, <1>3, <2>1 DEF AddsUp
<1> QED
  BY <1>4 DEF AddsUp

LEMMA NodeReadTyped ==
  ASSUME TypeOK, NEW p \in Pipelines, NEW i \in Indexes
  PROVE  NodeRead(p, i) \in NodeStatus \ {"Closed"}
BY AccountsTyped DEF NodeRead, NodeExists, NodeStatus

LEMMA CurrentAddsUp ==
  ASSUME IndexedChain, NEW p \in Pipelines
  PROVE  AddsUp(Header(p), [i \in Indexes |-> NodeRead(p, i)])
<1> DEFINE nodes == [i \in Indexes |-> NodeRead(p, i)]
<1>1. Counts(pipeline[p], Settled(p), Expired(p), Closed(p), Made(p))
  BY DEF IndexedChain, CountInv, Counted
<1>2. Shown(nodes, "Settled") = Settled(p) /\ Shown(nodes, "Expired") = Expired(p)
  BY DEF Shown, NodeRead, NodeExists, Settled, Expired, NodesWith
<1>3. /\ Header(p).nodes_settled = Cardinality(Settled(p))
      /\ Header(p).nodes_expired = Cardinality(Expired(p))
      /\ Header(p).status = pipeline[p].status
  BY <1>1 DEF Header, Counts
<1>4. Cardinality(Settled(p)) \in Nat /\ Cardinality(Expired(p)) \in Nat
  BY <1>3, AccountsTyped DEF IndexedChain, ChainInv, Header, PipelineAccount
<1>5. pipeline[p].status = "Completed" => \A i \in Indexes : nodes[i] \notin {"Pending", "Claimed"}
  BY <1>1 DEF Counts, Settled, NodesWith, Made, NodeRead, NodeExists
<1>6. pipeline[p].status = "Active" => Cardinality(Expired(p)) = 0
  BY <1>1, FS_EmptySet DEF Counts
<1> HIDE DEF nodes
<1>7. AddsUp(Header(p), nodes)
  BY <1>2, <1>3, <1>4, <1>5, <1>6 DEF AddsUp
<1> QED
  BY <1>7 DEF nodes

LEMMA EmptySound ==
  /\ EMPTY.pipelines \in Views /\ ViewsSound(EMPTY.pipelines)
  /\ EMPTY \in [pipelines: Views, specs: [Pipelines -> SpecEntry]]
<1>1. Unlisted \in View
  BY DEF Unlisted, View, PipelineStatus, NodeStatus, OpenStatus, ActiveStatus
<1>2. EMPTY.pipelines = [p \in Pipelines |-> Unlisted]
  BY DEF EMPTY
<1>3. EMPTY.pipelines \in Views
  BY <1>1, <1>2 DEF Views
<1>4. EMPTY.specs \in [Pipelines -> SpecEntry]
  BY DEF EMPTY, SpecEntry
<1>5. EMPTY \in [pipelines: Views, specs: [Pipelines -> SpecEntry]]
  BY <1>3, <1>4 DEF EMPTY
<1>6. AddsUp(Unlisted, Unlisted.nodes)
  <2>1. /\ Unlisted.nodes_settled = 0 /\ Unlisted.nodes_expired = 0
        /\ Unlisted.status = "Absent"
    BY DEF Unlisted
  <2>2. \A s : Shown(Unlisted.nodes, s) \in SUBSET Indexes
    BY DEF Shown
  <2>3. \A s : Cardinality(Shown(Unlisted.nodes, s)) \in Nat
    BY <2>2, IndexesFinite, FS_Subset, FS_CardinalityType
  <2> QED
    BY <2>1, <2>3 DEF AddsUp
<1>7. \A p \in Pipelines : Evident(p, Unlisted.nodes) /\ Covers(p, Unlisted, Unlisted.nodes)
  BY DEF Evident, Covers, Unlisted
<1> QED
  BY <1>2, <1>3, <1>5, <1>6, <1>7 DEF ViewsSound

(***************************************************************************)
(* The chain moves on under the store and the polls.                        *)
(***************************************************************************)
LEMMA EvidentStable ==
  ASSUME NodesForward, NEW p \in Pipelines, NEW nodes, Evident(p, nodes)
  PROVE  Evident(p, nodes)'
BY DEF Evident, NodesForward, Forward, Ends

LEMMA CoversStable ==
  ASSUME AllKept, NEW p \in Pipelines, NEW v, NEW n, NEW m, Covers(p, v, n),
         \A i \in Indexes : NodeExists(p, i)' => m[i] = n[i] \/ m[i] # "Absent"
  PROVE  v.status # "Absent" =>
           Listed(p)' /\ \A i \in Indexes : NodeExists(p, i)' => m[i] # "Absent"
<1> SUFFICES ASSUME v.status # "Absent"
             PROVE  Listed(p)' /\ \A i \in Indexes : NodeExists(p, i)' => m[i] # "Absent"
  OBVIOUS
<1>1. Listed(p) /\ \A i \in Indexes : NodeExists(p, i) => n[i] # "Absent"
  BY DEF Covers
<1>2. Listed(p)' /\ \A i \in Indexes : NodeExists(p, i)' => NodeExists(p, i)
  BY <1>1 DEF AllKept, Kept, NodeExists
<1> QED
  BY <1>1, <1>2

\* A node that ended reads so for good, and none is read as open that was not.
LEMMA ReadsForward ==
  ASSUME IndexedChain, NodesForward, AllKept, NEW p \in Pipelines, Listed(p), NEW i \in Indexes
  PROVE  /\ NodeRead(p, i) \in Ends => NodeRead(p, i)' = NodeRead(p, i)
         /\ NodeRead(p, i)' \in {"Pending", "Claimed"} => NodeRead(p, i) \in {"Pending", "Claimed"}
<1>1. Forward(node'[p][i], node[p][i]) /\ Kept(p)
  BY DEF NodesForward, AllKept
<1>2. node[p][i].status \in NodeStatus
  BY AccountsTyped DEF IndexedChain, ChainInv
<1>3. NodeRead(p, i) \in Ends => NodeRead(p, i)' = NodeRead(p, i)
  BY <1>1 DEF NodeRead, NodeExists, Forward, Ends
<1>4. node'[p][i].status \in {"Pending", "Claimed"} => node[p][i].status \in {"Pending", "Claimed"}
  BY <1>1, <1>2
     DEF Kept, Forward, Ends, UnderReview, NodeStatus, OpenStatus, ActiveStatus
<1> QED
  BY <1>3, <1>4 DEF NodeRead, NodeExists

LEMMA ViewStable ==
  ASSUME IndexedChain, NodesForward, AllKept, NEW r, PollSound(r), NEW p \in Pipelines
  PROVE  ViewSound(r, p)'
<1>1. ViewSound(r, p) /\ r.raw[p] \in View /\ r.next \in Nat
  BY DEF PollSound, PollRecord, Views
<1>2. Evident(p, r.raw[p].nodes)'
  BY <1>1, EvidentStable DEF ViewSound
<1>3. Reading(r, p) => Listed(p)
  BY DEF PollSound, Reading
<1> DEFINE m == Outlook(r, p)'
           n == Outlook(r, p)
<1>4. \A i \in Indexes :
        /\ n[i] \in Ends => m[i] = n[i]
        /\ m[i] \in {"Pending", "Claimed"} => n[i] \in {"Pending", "Claimed"}
  <2> TAKE i \in Indexes
  <2>1. CASE Reading(r, p) /\ i >= r.next
    <3>1. n[i] = NodeRead(p, i) /\ m[i] = NodeRead(p, i)'
      BY <2>1 DEF Outlook, Reading
    <3> QED
      BY <1>3, <2>1, <3>1, ReadsForward
  <2>2. CASE ~(Reading(r, p) /\ i >= r.next)
    BY <2>2 DEF Outlook, Reading
  <2> QED
    BY <2>1, <2>2
<1>5. AddsUp(r.raw[p], n)
  BY <1>1 DEF ViewSound
<1> HIDE DEF m, n
<1>6. AddsUp(r.raw[p], m)
  BY <1>1, <1>4, <1>5, AddsUpLater
<1>7. AddsUp(r.raw[p], Outlook(r, p))'
  BY <1>6 DEF m, AddsUp, Shown
<1>8. Covers(p, r.raw[p], Outlook(r, p))'
  <2>1. Covers(p, r.raw[p], n)
    BY <1>1 DEF ViewSound, n
  <2>2. \A i \in Indexes : NodeExists(p, i)' => m[i] = n[i] \/ m[i] # "Absent"
    <3> SUFFICES ASSUME NEW i \in Indexes, NodeExists(p, i)' PROVE m[i] = n[i] \/ m[i] # "Absent"
      OBVIOUS
    <3>1. CASE Reading(r, p) /\ i >= r.next
      BY <3>1 DEF m, Outlook, Reading, NodeRead, NodeExists
    <3>2. CASE ~(Reading(r, p) /\ i >= r.next)
      BY <3>2 DEF m, n, Outlook, Reading
    <3> QED
      BY <3>1, <3>2
  <2>3. r.raw[p].status # "Absent" =>
          Listed(p)' /\ \A i \in Indexes : NodeExists(p, i)' => m[i] # "Absent"
    BY <2>1, <2>2, CoversStable
  <2> QED
    BY <2>3 DEF Covers, m
<1> QED
  BY <1>1, <1>2, <1>7, <1>8 DEF ViewSound, Reading

LEMMA PollStable ==
  ASSUME IndexedChain, NodesForward, AllKept, NEW r, PollSound(r)
  PROVE  PollSound(r)'
<1>1. \A p \in Pipelines : ViewSound(r, p)'
  BY ViewStable
<1>2. \A p \in Pipelines : Listed(p) => Listed(p)'
  BY DEF AllKept, Kept
<1>3. r \in PollRecord /\ r.todo \subseteq Pipelines
  BY DEF PollSound, PollRecord
<1> QED
  BY <1>1, <1>2, <1>3 DEF PollSound

LEMMA PollNext ==
  ASSUME NEW q, NEW r, poll'[q] = r, PollSound(r)'
  PROVE  PollSound(poll[q])'
<1>1. \A p : Evident(p, r.raw[p].nodes)' => Evident(p, poll[q].raw[p].nodes)'
  BY DEF Evident
<1>2. \A p : Outlook(poll[q], p)' = Outlook(r, p)'
  BY DEF Outlook, Reading
<1>3. \A p \in Pipelines : ViewSound(poll[q], p)'
  <2> TAKE p \in Pipelines
  <2>1. ViewSound(r, p)'
    BY DEF PollSound
  <2>2. Covers(p, r.raw[p], Outlook(r, p))' => Covers(p, poll[q].raw[p], Outlook(poll[q], p))'
    BY <1>2 DEF Covers
  <2> QED
    BY <1>1, <1>2, <2>1, <2>2 DEF ViewSound, Reading
<1> QED
  BY <1>3 DEF PollSound, Listed

LEMMA ViewsStable ==
  ASSUME NodesForward, AllKept, NEW views, ViewsSound(views)
  PROVE  ViewsSound(views)'
<1>1. ASSUME NEW p \in Pipelines
      PROVE  Evident(p, views[p].nodes)' /\ Covers(p, views[p], views[p].nodes)'
  <2>1. Evident(p, views[p].nodes) /\ Covers(p, views[p], views[p].nodes)
    BY DEF ViewsSound
  <2>2. views[p].status # "Absent" =>
          Listed(p)' /\ \A i \in Indexes : NodeExists(p, i)' => views[p].nodes[i] # "Absent"
    BY <2>1, CoversStable
  <2> QED
    BY <2>1, <2>2, EvidentStable DEF Covers
<1> QED
  BY <1>1 DEF ViewsSound, AddsUp, Shown

\* What holds of the views holds of the store that has them.
LEMMA StoredViews ==
  ASSUME NEW views, views = data'.pipelines, ViewsSound(views)'
  PROVE  ViewsSound(data.pipelines)'
BY DEF ViewsSound, Evident, Covers, AddsUp, Shown

(***************************************************************************)
(* Steps of the indexer                                                     *)
(***************************************************************************)
LEMMA StillChain ==
  ASSUME IndexerInv, UNCHANGED vars
  PROVE  IndexedChain' /\ NodesForward /\ AllKept
BY IndexedChainPreserved DEF IndexerInv

LEMMA StoreStable ==
  ASSUME IndexerInv, NodesForward, AllKept, UNCHANGED <<data, file>>
  PROVE  StoreInv'
<1>1. PICK views : views = data.pipelines
  OBVIOUS
<1>2. ViewsSound(views)'
  BY <1>1, ViewsStable DEF IndexerInv, StoreInv
<1>3. ViewsSound(data.pipelines)'
  BY <1>1, <1>2, StoredViews
<1> QED
  BY <1>3 DEF IndexerInv, StoreInv

\* Save writes the store and the file.
LEMMA SaveSound ==
  ASSUME IndexerInv, NodesForward, AllKept, NEW new, Save(new),
         new \in [pipelines: Views, specs: [Pipelines -> SpecEntry]],
         NEW views, views = new.pipelines, ViewsSound(views)
  PROVE  StoreInv'
<1>1. ViewsSound(views)'
  BY ViewsStable
<1>2. data' = new /\ file'.content = new
  BY DEF Save
<1>3. ViewsSound(data.pipelines)'
  BY <1>1, <1>2, StoredViews
<1> QED
  BY <1>2, <1>3 DEF StoreInv

LEMMA SamePolls ==
  ASSUME IndexerInv, IndexedChain', NodesForward, AllKept, StoreInv', UNCHANGED poll
  PROVE  IndexerInv'
<1>1. ASSUME NEW q \in Polls
      PROVE  PollSound(poll[q])'
  <2>1. PICK r : r = poll[q]
    OBVIOUS
  <2>2. PollSound(r)'
    BY <2>1, PollStable DEF IndexerInv, PollsSound
  <2> QED
    BY <2>1, <2>2, PollNext
<1> QED
  BY <1>1 DEF IndexerInv, PollsSound

LEMMA PollMoves ==
  ASSUME IndexerInv, UNCHANGED vars, StoreInv',
         NEW q \in Polls, NEW r, PollSound(r), Polling(q, r)
  PROVE  IndexerInv'
<1>1. IndexedChain' /\ NodesForward /\ AllKept
  BY StillChain
<1>2. poll' = [x \in Polls |-> poll'[x]] /\ poll'[q] = r
      /\ \A x \in Polls \ {q} : poll'[x] = poll[x]
  BY DEF IndexerInv, PollsSound, Polling
<1>3. ASSUME NEW x \in Polls
      PROVE  PollSound(poll[x])'
  <2>1. PICK y : y = poll'[x] /\ PollSound(y)
    BY <1>2 DEF IndexerInv, PollsSound
  <2>2. PollSound(y)'
    BY <1>1, <2>1, PollStable DEF IndexerInv
  <2> QED
    BY <2>1, <2>2, PollNext
<1> QED
  BY <1>1, <1>2, <1>3 DEF IndexerInv, PollsSound

\* What a poll that is between two pipelines has is what it has read.
LEMMA Rested ==
  ASSUME NEW r \in PollRecord, r.at # "reading", NEW p \in Pipelines
  PROVE  Outlook(r, p) = r.raw[p].nodes /\ ~Reading(r, p)
<1>1. r.raw[p].nodes \in [Indexes -> NodeStatus \ {"Closed"}]
  BY DEF PollRecord, Views, View
<1> QED
  BY <1>1 DEF Outlook, Reading

LEMMA RestedSound ==
  ASSUME NEW r \in PollRecord, r.at # "reading"
  PROVE  (\A p \in Pipelines : ViewSound(r, p)) <=> ViewsSound(r.raw)
BY Rested DEF ViewSound, ViewsSound, PollRecord

LEMMA NoPollSound == NoPoll \in PollRecord /\ PollSound(NoPoll)
<1>1. /\ NoPoll.at = "idle" /\ NoPoll.todo = {} /\ NoPoll.raw = EMPTY.pipelines
      /\ NoPoll \in PollRecord
  BY EmptySound DEF NoPoll, PollRecord
<1>2. \A p \in Pipelines : ViewSound(NoPoll, p)
  BY <1>1, RestedSound, EmptySound
<1> QED
  BY <1>1, <1>2 DEF PollSound

LEMMA StartPollKeeps ==
  ASSUME IndexerInv, NEW q \in Polls, StartPoll(q)
  PROVE  IndexerInv'
<1> DEFINE r == [NoPoll EXCEPT !.at = "listed", !.todo = ListPipelines]
<1>1. ListPipelines \subseteq Pipelines /\ \A p \in ListPipelines : Listed(p)
  BY DEF ListPipelines, Listed
<1>2. /\ r.at = "listed" /\ r.todo = ListPipelines /\ r.raw = EMPTY.pipelines
      /\ r \in PollRecord
  BY <1>1, NoPollSound DEF NoPoll, PollRecord
<1>3. Polling(q, r) /\ UNCHANGED <<vars, data, file>>
  BY DEF StartPoll
<1> HIDE DEF r
<1>4. PollSound(r)
  BY <1>1, <1>2, RestedSound, EmptySound DEF PollSound
<1>5. StoreInv'
  BY <1>3, StillChain, StoreStable
<1> QED
  BY <1>3, <1>4, <1>5, PollMoves

LEMMA FetchPipelineKeeps ==
  ASSUME IndexerInv, NEW q \in Polls, NEW p \in Pipelines,
         FetchPipeline(q, p)
  PROVE  IndexerInv'
<1> DEFINE h == [Unlisted EXCEPT !.status = Header(p).status,
                                 !.nodes_settled = Header(p).nodes_settled,
                                 !.nodes_expired = Header(p).nodes_expired]
           old == poll[q]
           r == [old EXCEPT !.at = "reading", !.current = p, !.next = 0, !.raw[p] = h]
<1>1. PollSound(old) /\ old \in PollRecord
  BY DEF IndexerInv, PollsSound, PollSound
<1>2. Polling(q, r) /\ UNCHANGED <<vars, data, file>>
  BY DEF FetchPipeline
<1>3. old.at = "listed" /\ p \in old.todo
  BY DEF FetchPipeline
<1>4. /\ h.status = Header(p).status /\ h.nodes_settled = Header(p).nodes_settled
      /\ h.nodes_expired = Header(p).nodes_expired
      /\ h.nodes = [i \in Indexes |-> "Absent"]
  BY DEF Unlisted
<1>5. h \in View
  <2>1. pipeline[p] \in PipelineAccount
    BY AccountsTyped DEF IndexerInv, IndexedChain, ChainInv
  <2> QED
    BY <2>1 DEF Unlisted, Header, View, PipelineAccount, NodeStatus, OpenStatus, ActiveStatus
<1> HIDE DEF h, old
<1>6. /\ r.at = "reading" /\ r.current = p /\ r.next = 0 /\ r.todo = old.todo
      /\ r.raw = [old.raw EXCEPT ![p] = h]
      /\ r \in PollRecord
  BY <1>1, <1>5 DEF PollRecord, Views
<1> HIDE DEF r
<1>7. Listed(p) /\ \A x \in r.todo : Listed(x)
  BY <1>1, <1>3, <1>6 DEF PollSound
<1>8. ViewSound(r, p)
  <2>1. Outlook(r, p) = [i \in Indexes |-> NodeRead(p, i)]
    BY <1>6 DEF Outlook, Reading, Indexes
  <2>2. AddsUp(Header(p), Outlook(r, p))
    BY <2>1, CurrentAddsUp DEF IndexerInv
  <2>3. r.raw[p] = h
    BY <1>1, <1>6 DEF PollRecord, Views
  <2>4. AddsUp(r.raw[p], Outlook(r, p))
    BY <1>4, <2>2, <2>3 DEF AddsUp
  <2>5. \A i \in Indexes : r.raw[p].nodes[i] = "Absent"
    BY <1>4, <2>3
  <2>6. Covers(p, r.raw[p], Outlook(r, p))
    BY <1>7, <2>1 DEF Covers, NodeRead, NodeExists
  <2> QED
    BY <2>4, <2>5, <2>6 DEF ViewSound, Evident
<1>9. ASSUME NEW x \in Pipelines \ {p}
      PROVE  ViewSound(r, x)
  <2>1. r.raw[x] = old.raw[x] /\ ViewSound(old, x)
    BY <1>1, <1>6 DEF PollRecord, Views, PollSound
  <2>2. Outlook(r, x) = Outlook(old, x)
    BY <1>3, <1>6, <2>1 DEF Outlook, Reading
  <2> QED
    BY <1>6, <2>1, <2>2 DEF ViewSound, Reading
<1>10. PollSound(r)
  BY <1>6, <1>7, <1>8, <1>9 DEF PollSound
<1>11. StoreInv'
  BY <1>2, StillChain, StoreStable
<1> QED
  BY <1>2, <1>10, <1>11, PollMoves

\* Reading a node puts what the chain says where the outlook had it from the chain.
LEMMA FetchNodeKeeps ==
  ASSUME IndexerInv, NEW q \in Polls, NEW p \in Pipelines,
         NEW i \in Indexes, FetchNode(q, p, i)
  PROVE  IndexerInv'
<1> DEFINE old == poll[q]
           r == [old EXCEPT !.next = i + 1, !.raw[p].nodes[i] = NodeRead(p, i)]
           v == [old.raw[p] EXCEPT !.nodes[i] = NodeRead(p, i)]
<1>1. PollSound(old) /\ old \in PollRecord
  BY DEF IndexerInv, PollsSound, PollSound
<1>2. Polling(q, r) /\ UNCHANGED <<vars, data, file>>
  BY DEF FetchNode
<1>3. Reading(old, p) /\ old.next = i
  BY DEF FetchNode, Reading
<1> HIDE DEF old
<1>4. old.raw[p] \in View /\ NodeRead(p, i) \in NodeStatus \ {"Closed"}
  BY <1>1, NodeReadTyped DEF PollRecord, Views, IndexerInv, IndexedChain, ChainInv
<1>5. /\ v \in View
      /\ v.status = old.raw[p].status /\ v.nodes_settled = old.raw[p].nodes_settled
      /\ v.nodes_expired = old.raw[p].nodes_expired
      /\ \A j \in Indexes :
           v.nodes[j] = IF j = i THEN NodeRead(p, i) ELSE old.raw[p].nodes[j]
  BY <1>4 DEF View
<1>6. /\ r.at = "reading" /\ r.current = p /\ r.next = i + 1 /\ r.todo = old.todo
      /\ r.raw = [old.raw EXCEPT ![p] = v]
  BY <1>1, <1>3 DEF PollRecord, Views, Reading
<1> HIDE DEF v
<1>7. i \in Nat /\ r \in PollRecord
  <2>1. i \in Nat
    BY DEF Indexes
  <2>2. [old.raw EXCEPT ![p] = v] \in Views
    BY <1>1, <1>5 DEF PollRecord, Views
  <2>3. r = [old EXCEPT !.next = i + 1, !.raw = [old.raw EXCEPT ![p] = v]]
    BY <1>1 DEF PollRecord, Views, v
  <2> HIDE DEF r
  <2> DEFINE views == [old.raw EXCEPT ![p] = v]
             n == i + 1
  <2>4. r = [old EXCEPT !.next = n, !.raw = views] /\ views \in Views /\ n \in Nat
    BY <2>1, <2>2, <2>3
  <2> HIDE DEF views, n
  <2>5. r \in PollRecord
    BY <1>1, <2>4 DEF PollRecord
  <2> QED
    BY <2>1, <2>5
<1> HIDE DEF r
<1>8. Listed(p) /\ \A x \in r.todo : Listed(x)
  BY <1>1, <1>3, <1>6 DEF PollSound, Reading
<1>9. ViewSound(r, p)
  <2>1. r.raw[p] = v
    BY <1>1, <1>6 DEF PollRecord, Views
  <2>2. ViewSound(old, p)
    BY <1>1 DEF PollSound
  <2>3. \A j \in Indexes : j >= i + 1 <=> j >= i /\ j # i
    BY <1>7 DEF Indexes
  <2>4. ASSUME NEW j \in Indexes
        PROVE  Outlook(r, p)[j] = Outlook(old, p)[j]
    <3>1. Outlook(r, p)[j] = IF j >= i + 1 THEN NodeRead(p, j) ELSE r.raw[p].nodes[j]
      BY <1>6 DEF Outlook, Reading
    <3>2. Outlook(old, p)[j] = IF j >= i THEN NodeRead(p, j) ELSE old.raw[p].nodes[j]
      BY <1>3 DEF Outlook, Reading
    <3>3. CASE j = i
      <4>1. j >= i /\ ~(j >= i + 1)
        BY <1>7, <3>3
      <4> QED
        BY <1>5, <2>1, <3>1, <3>2, <3>3, <4>1
    <3>4. CASE j # i
      <4>1. r.raw[p].nodes[j] = old.raw[p].nodes[j]
        BY <1>5, <2>1, <3>4
      <4> QED
        BY <2>3, <3>1, <3>2, <3>4, <4>1
    <3> QED
      BY <3>3, <3>4
  <2>5. Outlook(r, p) = Outlook(old, p)
    BY <2>4 DEF Outlook
  <2>6. AddsUp(r.raw[p], Outlook(r, p))
    BY <1>5, <2>1, <2>2, <2>5 DEF ViewSound, AddsUp
  <2>7. \A j \in Indexes : j >= i + 1 => r.raw[p].nodes[j] = "Absent"
    BY <1>3, <1>5, <2>1, <2>2, <2>3 DEF ViewSound
  <2>8. Evident(p, r.raw[p].nodes)
    BY <1>5, <2>1, <2>2 DEF ViewSound, Evident, NodeRead
  <2>9. Covers(p, r.raw[p], Outlook(r, p))
    BY <1>5, <2>1, <2>2, <2>5 DEF ViewSound, Covers
  <2> QED
    BY <1>6, <2>6, <2>7, <2>8, <2>9 DEF ViewSound
<1>10. ASSUME NEW x \in Pipelines \ {p}
       PROVE  ViewSound(r, x)
  <2>1. r.raw[x] = old.raw[x] /\ ViewSound(old, x)
    BY <1>1, <1>6 DEF PollRecord, Views, PollSound
  <2>2. Outlook(r, x) = Outlook(old, x)
    BY <1>3, <1>6, <2>1 DEF Outlook, Reading
  <2> QED
    BY <1>6, <2>1, <2>2 DEF ViewSound, Reading
<1>11. PollSound(r)
  BY <1>6, <1>7, <1>8, <1>9, <1>10 DEF PollSound
<1>12. StoreInv'
  BY <1>2, StillChain, StoreStable
<1> QED
  BY <1>2, <1>11, <1>12, PollMoves

\* After the last node there is nothing left to read, and nothing was skipped.
LEMMA PipelineReadKeeps ==
  ASSUME IndexerInv, NEW q \in Polls, NEW p \in Pipelines,
         PipelineRead(q, p)
  PROVE  IndexerInv'
<1> DEFINE old == poll[q]
           r == [old EXCEPT !.at = "listed", !.todo = @ \ {p},
                            !.raw[p] = AsRead(p, old.raw[p])]
<1>1. PollSound(old) /\ old \in PollRecord
  BY DEF IndexerInv, PollsSound, PollSound
<1>2. Polling(q, r) /\ UNCHANGED <<vars, data, file>>
  BY DEF PipelineRead
<1>3. Reading(old, p) /\ old.next = pipeline[p].total_nodes
  BY DEF PipelineRead, Reading
<1> HIDE DEF old
<1>4. r.at = "listed" /\ r.todo = old.todo \ {p} /\ r.raw = old.raw /\ r \in PollRecord
  BY <1>1 DEF PollRecord, Views, AsRead
<1> HIDE DEF r
<1>5. \A x \in r.todo : Listed(x)
  BY <1>1, <1>4 DEF PollSound
<1>6. ASSUME NEW x \in Pipelines
      PROVE  ViewSound(r, x)
  <2>1. ViewSound(old, x)
    BY <1>1 DEF PollSound
  <2>2. ASSUME Reading(old, x), NEW i \in Indexes, i >= old.next
        PROVE  NodeRead(x, i) = old.raw[x].nodes[i]
    <3>1. x = p /\ node[p][i].status = "Absent"
      BY <1>3, <2>2 DEF Reading, IndexerInv, IndexedChain, PositionInv
    <3>2. NodeRead(x, i) = "Absent"
      BY <3>1 DEF NodeRead, NodeExists
    <3> QED
      BY <2>1, <2>2, <3>2 DEF ViewSound
  <2>3. Outlook(r, x) = Outlook(old, x)
    BY <1>4, <2>2 DEF Outlook, Reading
  <2> QED
    BY <1>4, <2>1, <2>3 DEF ViewSound, Reading
<1>7. PollSound(r)
  BY <1>4, <1>5, <1>6 DEF PollSound
<1>8. StoreInv'
  BY <1>2, StillChain, StoreStable
<1> QED
  BY <1>2, <1>7, <1>8, PollMoves

LEMMA FinishPollKeeps ==
  ASSUME IndexerInv, NEW q \in Polls, FinishPoll(q)
  PROVE  IndexerInv'
<1> DEFINE raw == poll[q].raw
           new == [data EXCEPT !.pipelines = raw]
<1>1. PollSound(poll[q]) /\ poll[q] \in PollRecord /\ poll[q].at # "reading"
  BY DEF IndexerInv, PollsSound, PollSound, FinishPoll
<1>2. ViewsSound(raw)
  BY <1>1, RestedSound DEF PollSound
<1>3. new \in [pipelines: Views, specs: [Pipelines -> SpecEntry]] /\ new.pipelines = raw
  BY <1>2 DEF IndexerInv, StoreInv, ViewsSound
<1>4. Save(new) /\ Polling(q, NoPoll) /\ UNCHANGED vars
  BY DEF FinishPoll, Update
<1> HIDE DEF raw, new
<1>5. StoreInv'
  BY <1>2, <1>3, <1>4, StillChain, SaveSound
<1> QED
  BY <1>4, <1>5, NoPollSound, PollMoves

LEMMA PollErrorKeeps ==
  ASSUME IndexerInv, NEW q \in Polls, PollError(q)
  PROVE  IndexerInv'
<1>1. StoreInv'
  BY StillChain, StoreStable DEF PollError
<1> QED
  BY <1>1, NoPollSound, PollMoves DEF PollError

LEMMA PostSpecKeeps ==
  ASSUME IndexerInv, NEW p \in Pipelines, NEW consumer \in Consumers,
         NEW spec \in Specs, PostSpec(p, consumer, spec)
  PROVE  IndexerInv'
<1> DEFINE entry == [consumer |-> consumer, spec |-> spec]
           new == [data EXCEPT !.specs[p] = entry]
           views == data.pipelines
<1>1. Save(new) /\ UNCHANGED <<vars, poll>>
  BY DEF PostSpec, SetSpecs
<1>2. entry \in SpecEntry
  BY DEF SpecEntry
<1> HIDE DEF entry
<1>3. new \in [pipelines: Views, specs: [Pipelines -> SpecEntry]] /\ new.pipelines = views
  BY <1>2 DEF IndexerInv, StoreInv
<1>4. ViewsSound(views)
  BY DEF IndexerInv, StoreInv
<1> HIDE DEF new, views
<1>5. StoreInv'
  BY <1>1, <1>3, <1>4, StillChain, SaveSound
<1> QED
  BY <1>1, <1>5, StillChain, SamePolls

\* A process that starts has no poll in progress.
LEMMA AllPollsGone ==
  ASSUME IndexerInv, UNCHANGED vars, StoreInv',
         poll' = [q \in Polls |-> NoPoll]
  PROVE  IndexerInv'
<1>1. PollSound(NoPoll)'
  BY StillChain, NoPollSound, PollStable DEF IndexerInv
<1>2. \A q \in Polls : PollSound(poll[q])'
  BY <1>1, PollNext
<1> QED
  BY <1>2, StillChain DEF IndexerInv, PollsSound

LEMMA RestartKeeps ==
  ASSUME IndexerInv, Restart \/ RestartAfterTornSave
  PROVE  IndexerInv'
<1>1. UNCHANGED vars /\ poll' = [q \in Polls |-> NoPoll]
  BY DEF Restart, RestartAfterTornSave
<1>2. /\ data' \in {data, EMPTY}
      /\ file'.parses => file'.content = data'
  BY DEF Restart, RestartAfterTornSave, Load, IndexerInv, StoreInv
<1>3. PICK views : views = data'.pipelines
  OBVIOUS
<1>4. ViewsSound(views)
  BY <1>2, <1>3, EmptySound DEF IndexerInv, StoreInv
<1>5. ViewsSound(views)'
  BY <1>1, <1>4, StillChain, ViewsStable
<1>6. ViewsSound(data.pipelines)'
  BY <1>3, <1>5, StoredViews
<1>7. data' \in [pipelines: Views, specs: [Pipelines -> SpecEntry]]
  BY <1>2, EmptySound DEF IndexerInv, StoreInv
<1>8. StoreInv'
  BY <1>2, <1>6, <1>7 DEF StoreInv
<1> QED
  BY <1>1, <1>8, AllPollsGone

\* Whatever the chain does meanwhile.
LEMMA ChainStepNext ==
  ASSUME ChainStep
  PROVE  Next /\ UNCHANGED <<data, file, poll>>
<1>1. \A i \in Indexes : Indexes \ {i} \in SUBSET Indexes
  OBVIOUS
<1> QED
  BY <1>1 DEF ChainStep, Next, OperatorStep

LEMMA ChainStepKeeps ==
  ASSUME IndexerInv, ChainStep \/ UNCHANGED ivars
  PROVE  IndexerInv'
<1>1. [Next]_vars /\ UNCHANGED <<data, file, poll>>
  BY ChainStepNext DEF ivars
<1>2. IndexedChain' /\ NodesForward /\ AllKept
  BY <1>1, IndexedChainPreserved DEF IndexerInv
<1>3. StoreInv'
  BY <1>1, <1>2, StoreStable
<1> QED
  BY <1>1, <1>2, <1>3, SamePolls

LEMMA InitIndexer == IndexerInit => IndexerInv
<1> SUFFICES ASSUME IndexerInit PROVE IndexerInv
  OBVIOUS
<1>1. IndexedChain
  BY InitIndexedChain DEF IndexerInit
<1>2. StoreInv
  BY EmptySound DEF IndexerInit, StoreInv
<1>3. PollsSound
  BY NoPollSound DEF IndexerInit, PollsSound
<1> QED
  BY <1>1, <1>2, <1>3 DEF IndexerInv

LEMMA IndexerPreserved ==
  ASSUME IndexerInv, [IndexerNext]_ivars
  PROVE  IndexerInv'
<1>1. CASE ChainStep \/ UNCHANGED ivars
  BY <1>1, ChainStepKeeps
<1>2. ASSUME NEW q \in Polls, PollStep(q)
      PROVE  IndexerInv'
  BY <1>2, StartPollKeeps, FetchPipelineKeeps, FetchNodeKeeps, PipelineReadKeeps, FinishPollKeeps
     DEF PollStep
<1>3. ASSUME NEW q \in Polls, PollError(q)
      PROVE  IndexerInv'
  BY <1>3, PollErrorKeeps
<1>4. ASSUME NEW p \in Pipelines, NEW consumer \in Consumers, NEW spec \in Specs,
             PostSpec(p, consumer, spec)
      PROVE  IndexerInv'
  BY <1>4, PostSpecKeeps
<1>5. CASE Restart \/ RestartAfterTornSave
  BY <1>5, RestartKeeps
<1> QED
  BY <1>1, <1>2, <1>3, <1>4, <1>5 DEF IndexerNext

LEMMA IndexerCorrect == IndexerSpec => []IndexerInv
<1>1. IndexerInit => IndexerInv
  BY InitIndexer
<1>2. IndexerInv /\ [IndexerNext]_ivars => IndexerInv'
  BY IndexerPreserved
<1> QED
  BY <1>1, <1>2, PTL DEF IndexerSpec

\* A snapshot never claims more ends than the nodes next to it show, nor completion
\* beside a node that is not settled, however many polls overlap and whatever happens
\* to the chain between two reads (pollOnce).
THEOREM SnapshotsCorrect == IndexerSpec => []SnapshotAddsUp
<1>1. ASSUME IndexerInv PROVE SnapshotAddsUp
  <2>1. IndexerTypeOK
    BY <1>1 DEF IndexerInv, StoreInv, PollsSound, PollSound, PollRecord, Views, IndexerTypeOK
  <2>2. ASSUME NEW p \in Pipelines
        PROVE  AddsUp(data.pipelines[p], data.pipelines[p].nodes)
    BY <1>1 DEF IndexerInv, StoreInv, ViewsSound
  <2> QED
    BY <2>1, <2>2 DEF SnapshotAddsUp, AddsUp, Shown
<1> QED
  BY <1>1, IndexerCorrect, PTL

\* While the pipeline is Active on chain none of its nodes is gone, so that the list
\* has every node up to the last that was made, each at its index.
LEMMA ShownInPlace ==
  ASSUME IndexerInv, NEW p \in Pipelines, pipeline[p].status = "Active",
         StatusShown(p) # "Absent", NEW j \in ShownAs(p, {"Settled"})
  PROVE  Position(p, j) = j /\ j \in Settled(p)
<1> DEFINE view == data.pipelines[p]
           listed == {k \in Indexes : view.nodes[k] # "Absent"}
<1>1. Evident(p, view.nodes) /\ Covers(p, view, view.nodes)
  BY DEF IndexerInv, StoreInv, ViewsSound
<1>2. j \in Indexes /\ node[p][j].status = "Settled"
  BY <1>1 DEF ShownAs, Evident
<1>3. Closed(p) = {}
  BY DEF IndexerInv, IndexedChain, CountInv, Counted, Counts
<1>4. pipeline[p].total_nodes \in Nat /\ \A k \in Indexes : k \in Nat
  BY AccountsTyped DEF IndexerInv, IndexedChain, ChainInv, PipelineAccount, Indexes
<1>5. j < pipeline[p].total_nodes
  BY <1>2, <1>4 DEF IndexerInv, IndexedChain, PositionInv
<1>6. \A k \in Indexes : k < j => node[p][k].status # "Absent"
  BY <1>2, <1>4, <1>5 DEF IndexerInv, IndexedChain, PositionInv
<1>7. \A k \in Indexes : k < j => NodeExists(p, k)
  BY <1>3, <1>6 DEF Closed, NodesWith, NodeExists
<1>8. \A k \in Indexes : k < j => k \in listed
  BY <1>1, <1>7 DEF Covers, StatusShown
<1>9. Position(p, j) = Cardinality({k \in Indexes : k < j /\ k \in listed})
  <2>1. {k \in Indexes : k < j /\ view.nodes[k] # "Absent"} =
          {k \in Indexes : k < j /\ k \in listed}
    OBVIOUS
  <2> QED
    BY <2>1 DEF Position
<1> HIDE DEF listed
<1>10. Position(p, j) = j
  BY <1>2, <1>8, <1>9, PrefixPosition
<1> QED
  BY <1>2, <1>10 DEF Settled, NodesWith

\* While a pipeline is Active on chain the work page offers a node only when its
\* dependencies are settled there, however old the snapshot, and describes it with
\* what its consumer signed.
THEOREM OffersCorrect == IndexerSpec => []OffersAreReady
<1>1. ASSUME IndexerInv PROVE OffersAreReady
  <2>1. ASSUME NEW p \in Pipelines, NEW tier \in Tiers, NEW i \in Claimable(p, tier),
               pipeline[p].status = "Active"
        PROVE  DependenciesSettled(p, i)
    <3>1. StatusShown(p) # "Absent"
      BY DEF Claimable
    <3>2. PositionsShownAs(p, {"Settled"}) \subseteq Settled(p)
      <4> SUFFICES ASSUME NEW j \in ShownAs(p, {"Settled"})
                   PROVE  Position(p, j) \in Settled(p)
        BY DEF PositionsShownAs
      <4> QED
        BY <1>1, <2>1, <3>1, ShownInPlace
    <3>3. pipeline[p].settled_mask = Settled(p)
      BY <1>1 DEF IndexerInv, IndexedChain, CountInv, Counted, Counts
    <3> QED
      BY <3>2, <3>3 DEF Claimable, DepsSettled, DependenciesSettled
  <2>2. ASSUME NEW p \in Pipelines, WithSpecs(p) # NoSpec
        PROVE  WithSpecs(p).consumer = ConsumerOf[p]
    BY <2>2 DEF WithSpecs
  <2> QED
    BY <2>1, <2>2 DEF OffersAreReady
<1> QED
  BY <1>1, IndexerCorrect, PTL

(***************************************************************************)
(* Whatever lists cancel_pipeline is given: the file says what the store    *)
(* does, so that a restart forgets nothing; and the indexer only looks.     *)
(***************************************************************************)
FileInv ==
  /\ data = [pipelines |-> data.pipelines, specs |-> [p \in Pipelines |-> data.specs[p]]]
  /\ file.parses => file.content = data

\* A poll writes nothing, or the pipelines.
LEMMA PollWrites ==
  ASSUME NEW q, PollStep(q) \/ PollError(q)
  PROVE  \/ UNCHANGED <<data, file>>
         \/ Save([data EXCEPT !.pipelines = poll[q].raw])
<1>1. CASE FinishPoll(q)
  BY <1>1 DEF FinishPoll, Update
<1>2. CASE StartPoll(q) \/ PollError(q)
  BY <1>2 DEF StartPoll, PollError
<1>3. ASSUME NEW p, FetchPipeline(q, p) \/ (\E i : FetchNode(q, p, i)) \/ PipelineRead(q, p)
      PROVE  UNCHANGED <<data, file>>
  BY <1>3 DEF FetchPipeline, FetchNode, PipelineRead
<1> QED
  BY <1>1, <1>2, <1>3 DEF PollStep

LEMMA FileKept ==
  ASSUME FileInv, [IndexerNext]_ivars
  PROVE  FileInv'
<1>1. CASE ChainStep \/ UNCHANGED ivars
  BY <1>1 DEF ChainStep, ivars, FileInv
<1>2. ASSUME NEW q \in Polls, PollStep(q) \/ PollError(q)
      PROVE  FileInv'
  BY <1>2, PollWrites DEF Save, FileInv
<1>3. ASSUME NEW p \in Pipelines, NEW consumer, NEW spec, PostSpec(p, consumer, spec)
      PROVE  FileInv'
  BY <1>3 DEF PostSpec, SetSpecs, Save, FileInv
<1>4. CASE Restart \/ RestartAfterTornSave
  BY <1>4 DEF Restart, RestartAfterTornSave, Load, EMPTY, FileInv
<1> QED
  BY <1>1, <1>2, <1>3, <1>4 DEF IndexerNext

\* No poll, however it overlaps a post, and no restart loses or changes a job spec:
\* another POST /spec does, and a crash in the middle of writing the file.
THEOREM SpecsCorrect == IndexerSpec => SpecsOutlivePolls
<1>1. IndexerInit => FileInv
  BY DEF IndexerInit, FileInv, EMPTY
<1>2. FileInv /\ [IndexerNext]_ivars => FileInv'
  BY FileKept
<1>3. FileInv /\ [IndexerNext]_ivars =>
        [\A p \in Pipelines :
           data.specs[p] # data'.specs[p] =>
             \/ \E consumer \in Consumers, spec \in Specs : PostSpec(p, consumer, spec)
             \/ ~file'.parses]_ivars
  <2> SUFFICES ASSUME FileInv, IndexerNext, NEW p \in Pipelines, data.specs[p] # data'.specs[p]
               PROVE  \/ \E consumer \in Consumers, spec \in Specs : PostSpec(p, consumer, spec)
                      \/ ~file'.parses
    OBVIOUS
  <2>1. CASE ChainStep
    BY <2>1 DEF ChainStep
  <2>2. ASSUME NEW q \in Polls, PollStep(q) \/ PollError(q)
        PROVE  FALSE
    <3>1. data' = data \/ data' = [data EXCEPT !.pipelines = poll[q].raw]
      BY <2>2, PollWrites DEF Save
    <3> QED
      BY <3>1 DEF FileInv
  <2>3. ASSUME NEW x \in Pipelines, NEW consumer \in Consumers, NEW spec \in Specs,
               PostSpec(x, consumer, spec)
        PROVE  PostSpec(p, consumer, spec)
    <3>1. x = p
      BY <2>3 DEF PostSpec, SetSpecs, Save, FileInv
    <3> QED
      BY <2>3, <3>1
  <2>4. CASE Restart \/ RestartAfterTornSave
    BY <2>4 DEF Restart, RestartAfterTornSave, Load, FileInv
  <2> QED
    BY <2>1, <2>2, <2>3, <2>4 DEF IndexerNext
<1> QED
  BY <1>1, <1>2, <1>3, PTL DEF IndexerSpec, SpecsOutlivePolls

LEMMA IndexerSteps == [IndexerNext]_ivars => [Next]_vars
<1>1. ChainStep => Next
  BY ChainStepNext
<1>2. ASSUME NEW q \in Polls, PollStep(q) \/ PollError(q) PROVE UNCHANGED vars
  BY <1>2 DEF PollStep, StartPoll, FetchPipeline, FetchNode, PipelineRead, FinishPoll, PollError
<1>3. ASSUME NEW p \in Pipelines, NEW consumer, NEW spec, PostSpec(p, consumer, spec)
      PROVE  UNCHANGED vars
  BY <1>3 DEF PostSpec
<1>4. Restart \/ RestartAfterTornSave \/ UNCHANGED ivars => UNCHANGED vars
  BY DEF Restart, RestartAfterTornSave, ivars
<1> QED
  BY <1>1, <1>2, <1>3, <1>4 DEF IndexerNext

\* Beside the indexer the chain takes only steps of its own module: what is proved of
\* DagEscrow holds here as well.
THEOREM IndexerOnChain == IndexerSpec => Spec
<1>1. IndexerInit => Init
  BY DEF IndexerInit
<1> QED
  BY <1>1, IndexerSteps, PTL DEF IndexerSpec, Spec

(***************************************************************************)
(* What the pages offer is what the program accepts.  Their amounts come    *)
(* from total_usdc_locked, which create_pipeline writes and no instruction  *)
(* reads: it stays the total of the allocations, until nodes are closed,    *)
(* and never is less.  What an end leaves behind is left by no other node.  *)
(***************************************************************************)
Booked(p) ==
  /\ \A i \in Indexes :
       /\ node[p][i].status \in {"Absent", "Closed"} => Allocation(p)[i] = 0
       /\ node[p][i].status \in OpenStatus \cup {"Absent"} => left_behind[p][i] = 0
  /\ Total(Allocation(p), Indexes) <= pipeline[p].total_usdc_locked
  /\ Closed(p) = {} => Total(Allocation(p), Indexes) = pipeline[p].total_usdc_locked
BookedInv == \A p \in Pipelines : Booked(p)

LEMMA ElsewhereBooked ==
  ASSUME BookedInv, NEW p \in Pipelines, Elsewhere(p), Booked(p)'
  PROVE  BookedInv'
<1> SUFFICES ASSUME NEW q \in Pipelines \ {p} PROVE Booked(q)'
  BY DEF BookedInv
<1>1. Booked(q)
  BY DEF BookedInv
<1>2. Closed(q)' = Closed(q) /\ Allocation(q)' = Allocation(q)
  BY ElsewhereNodes
<1>3. /\ node'[q] = node[q] /\ left_behind'[q] = left_behind[q]
      /\ pipeline'[q] = pipeline[q]
  BY DEF Elsewhere
<1> QED
  BY <1>1, <1>2, <1>3 DEF Booked

\* Nodes of a pipeline move on, keeping their allocations; what ends may leave some of
\* its own behind.
LEMMA BookedStays ==
  ASSUME NEW p \in Pipelines, Booked(p), Allocation(p)' = Allocation(p), Closed(p)' = Closed(p),
         pipeline'[p].total_usdc_locked = pipeline[p].total_usdc_locked,
         \A i \in Indexes :
           /\ node'[p][i].status \in {"Absent", "Closed"} =>
                node[p][i].status \in {"Absent", "Closed"}
           /\ node'[p][i].status \in OpenStatus \cup {"Absent"} =>
                /\ node[p][i].status \in OpenStatus \cup {"Absent"}
                /\ left_behind'[p][i] = left_behind[p][i]
  PROVE  Booked(p)'
<1>1. \A i \in Indexes :
        /\ node'[p][i].status \in {"Absent", "Closed"} => Allocation(p)'[i] = 0
        /\ node'[p][i].status \in OpenStatus \cup {"Absent"} => left_behind'[p][i] = 0
  BY DEF Booked
<1> DEFINE f == Allocation(p)
<1>2. /\ Total(f, Indexes) <= pipeline'[p].total_usdc_locked
      /\ Closed(p)' = {} => Total(f, Indexes) = pipeline'[p].total_usdc_locked
  BY DEF Booked
<1> HIDE DEF f
<1>3. Allocation(p)' = f
  BY DEF f
<1> QED
  BY <1>1, <1>2, <1>3 DEF Booked

LEMMA WorkedBooked ==
  ASSUME BookedInv, Worked
  PROVE  BookedInv'
<1> SUFFICES ASSUME NEW p \in Pipelines PROVE Booked(p)'
  BY DEF BookedInv
<1>1. Allocation(p)' = Allocation(p)
  BY DEF Worked, Allocation
<1>2. pipeline' = pipeline /\ left_behind' = left_behind /\ Closed(p)' = Closed(p)
  BY WorkedNodes DEF Worked
<1>3. \A i \in Indexes :
        /\ node'[p][i].status \in {"Absent", "Closed"} => node[p][i].status \in {"Absent", "Closed"}
        /\ node'[p][i].status \in OpenStatus \cup {"Absent"} =>
             node[p][i].status \in OpenStatus \cup {"Absent"}
  BY DEF Worked, OpenStatus, ActiveStatus
<1> QED
  BY <1>1, <1>2, <1>3, BookedStays DEF BookedInv

\* A node that is paid or returned stays, with its allocation.
LEMMA RetiredBooked ==
  ASSUME TypeOK, BookedInv, NEW p \in Pipelines, NEW R, NEW mint,
         NEW fate \in {"Settled", "Expired"}, Retired(p, R, fate),
         left_behind' = LeftBehind(p, R, mint),
         pipeline'[p].total_usdc_locked = pipeline[p].total_usdc_locked
  PROVE  Booked(p)'
<1>1. Allocation(p)' = Allocation(p)
  BY DEF Retired, Allocation
<1>2. Closed(p)' = Closed(p)
  BY RetiredNodes
<1>3. \A j \in Indexes \ R : left_behind'[p][j] = left_behind[p][j]
  BY LeavingLeft
<1>4. \A j \in Indexes : node'[p][j].status = IF j \in R THEN fate ELSE node[p][j].status
  BY DEF Retired
<1>5. fate \notin OpenStatus \cup {"Absent", "Closed"}
  BY DEF OpenStatus, ActiveStatus
<1>6. \A i \in Indexes :
        /\ node'[p][i].status \in {"Absent", "Closed"} => node[p][i].status \in {"Absent", "Closed"}
        /\ node'[p][i].status \in OpenStatus \cup {"Absent"} =>
             /\ node[p][i].status \in OpenStatus \cup {"Absent"}
             /\ left_behind'[p][i] = left_behind[p][i]
  BY <1>3, <1>4, <1>5
<1> QED
  BY <1>1, <1>2, <1>6, BookedStays DEF BookedInv

LEMMA CreatedBooked ==
  ASSUME ChainInv, BookedInv, NEW p \in Pipelines, NEW node_configs \in NodeConfigLists,
         CreatePipeline(p, node_configs)
  PROVE  Booked(p)'
<1> DEFINE n == Len(node_configs)
           N == 0..(n - 1)
           f == Allocation(p)'
<1>1. /\ N \subseteq Indexes
      /\ \A i \in Indexes : node'[p][i] = IF i < n THEN PendingNode(node_configs[i + 1])
                                                   ELSE NoNode("Absent")
      /\ n \in Nat
  BY CreatedNodes DEF ChainInv
<1>2. pipeline'[p].total_usdc_locked = TotalLocked(node_configs)
  BY DEF CreatePipeline, ChainInv, TypeOK
<1>3. \A i \in Indexes : left_behind'[p][i] = 0
  <2>1. pipeline[p].status = "Absent" /\ left_behind' = left_behind
    BY DEF CreatePipeline
  <2> QED
    BY <2>1 DEF ChainInv, ReviewInv, AbsentIsEmpty, BookedInv, Booked
<1> HIDE DEF n
<1>4. \A i \in Indexes : i < n <=> i \in N
  BY <1>1 DEF Indexes
<1>5. \A i \in Indexes :
        /\ node'[p][i].status = IF i \in N THEN "Pending" ELSE "Absent"
        /\ i \notin N => f[i] = 0
  BY <1>1, <1>4, PendingNodeFields DEF Allocation
<1>6. Total(f, Indexes) = TotalLocked(node_configs) /\ TotalLocked(node_configs) \in Nat
  <2>1. \A i \in Indexes : f[i] = IF i \in N THEN Allocation(p)'[i] ELSE 0
    BY <1>5
  <2> HIDE DEF f
  <2> QED
    BY <2>1, CreatedRow DEF ChainInv, n
<1>7. \A i \in Indexes :
        /\ node'[p][i].status \in {"Absent", "Closed"} => f[i] = 0
        /\ node'[p][i].status \in OpenStatus \cup {"Absent"} => left_behind'[p][i] = 0
  BY <1>3, <1>5
<1> QED
  BY <1>2, <1>6, <1>7 DEF Booked

LEMMA CancelledBooked ==
  ASSUME TypeOK, BookedInv, NEW p \in Pipelines, NEW consumer, NEW listed, NEW mint,
         CancelPipeline(p, consumer, listed, mint)
  PROVE  Booked(p)'
<1> DEFINE f == Allocation(p)
           g == Allocation(p)'
           total == pipeline[p].total_usdc_locked
<1>1. pipeline'[p].total_usdc_locked = total
  BY AccountWritten
<1>2. \A j \in Indexes :
        node'[p][j] = IF j \in listed THEN NoNode("Closed") ELSE node[p][j]
  BY DEF CancelPipeline, TypeOK
<1>3. /\ \A j \in listed : node[p][j].status = "Pending"
      /\ left_behind' = LeftBehind(p, listed, mint)
  BY DEF CancelPipeline, Refund
<1>4. \A j \in Indexes :
        /\ f[j] \in Nat /\ g[j] = (IF j \in listed THEN 0 ELSE f[j])
        /\ node'[p][j].status = IF j \in listed THEN "Closed" ELSE node[p][j].status
  BY <1>2, AllocationTyped, PendingNodeFields DEF Allocation
<1>5. \A j \in Indexes \ listed : left_behind'[p][j] = left_behind[p][j]
  BY <1>3, LeavingLeft
<1>6. Booked(p)
  BY DEF BookedInv
<1>7. ASSUME NEW i \in Indexes
      PROVE  /\ node'[p][i].status \in {"Absent", "Closed"} => g[i] = 0
             /\ node'[p][i].status \in OpenStatus \cup {"Absent"} => left_behind'[p][i] = 0
  <2>1. "Closed" \notin OpenStatus \cup {"Absent"}
    BY DEF OpenStatus, ActiveStatus
  <2>2. /\ node[p][i].status \in {"Absent", "Closed"} => f[i] = 0
        /\ node[p][i].status \in OpenStatus \cup {"Absent"} => left_behind[p][i] = 0
    BY <1>6 DEF Booked
  <2> QED
    BY <1>4, <1>5, <2>1, <2>2
<1>8. /\ Total(f, Indexes) <= total /\ total \in Nat
      /\ Closed(p) = {} => Total(f, Indexes) = total
  <2>1. total \in Nat
    BY AccountsTyped, U64Assumption DEF PipelineAccount, Amounts
  <2> QED
    BY <1>6, <2>1 DEF Booked
<1>9. Closed(p)' = {} => Closed(p) = {} /\ \A j \in Indexes : j \notin listed
  BY <1>3, <1>4 DEF Closed, NodesWith
<1> HIDE DEF f, g, total
<1>10. Total(g, Indexes) <= Total(f, Indexes)
  <2>1. \A j \in Indexes : g[j] \in Nat /\ f[j] \in Nat /\ g[j] <= f[j]
    BY <1>4
  <2> QED
    BY <2>1, IndexesFinite, TotalMonotone
<1>11. Total(f, Indexes) \in Nat /\ Total(g, Indexes) \in Nat
  BY IndexesFinite, TotalType
<1>12. Total(g, Indexes) <= total
  BY <1>8, <1>10, <1>11
<1>13. ASSUME Closed(p)' = {}
       PROVE  Total(g, Indexes) = total
  <2>1. \A j \in Indexes : g[j] = f[j]
    BY <1>4, <1>9, <1>13
  <2>2. Total(g, Indexes) = Total(f, Indexes)
    BY <2>1, TotalSame
  <2> QED
    BY <1>8, <1>9, <1>13, <2>2
<1> QED
  BY <1>1, <1>7, <1>12, <1>13 DEF Booked, g

LEMMA BookedPreserved ==
  ASSUME ChainInv, BookedInv, [Next]_vars
  PROVE  BookedInv'
<1>0. TypeOK
  BY DEF ChainInv
<1>1. CASE Worked
  BY <1>1, WorkedBooked
<1>2. ASSUME NEW p \in Pipelines, NEW i \in Indexes, NEW mint, Paid(p, i, mint)
      PROVE  BookedInv'
  <2>1. /\ pipeline'[p].total_usdc_locked = pipeline[p].total_usdc_locked
        /\ left_behind' = LeftBehind(p, {i}, mint)
    BY <1>0, <1>2, AccountWritten DEF Paid, Settle
  <2>2. Booked(p)'
    BY <1>0, <1>2, <2>1, PaidRetired, RetiredBooked
  <2> QED
    BY <1>0, <1>2, <2>2, StepsElsewhere, ElsewhereBooked
<1>3. ASSUME NEW p \in Pipelines, NEW R \in SUBSET Indexes, NEW mint, Returned(p, R, mint)
      PROVE  BookedInv'
  <2>1. /\ pipeline'[p].total_usdc_locked = pipeline[p].total_usdc_locked
        /\ left_behind' = LeftBehind(p, R, mint)
    BY <1>0, <1>3, AccountWritten DEF Returned, Refund
  <2>2. Booked(p)'
    BY <1>0, <1>3, <2>1, ReturnedRetired, RetiredBooked
  <2> QED
    BY <1>0, <1>3, <2>2, StepsElsewhere, ElsewhereBooked
<1>4. ASSUME NEW p \in Pipelines, NEW node_configs \in NodeConfigLists,
             CreatePipeline(p, node_configs)
      PROVE  BookedInv'
  BY <1>0, <1>4, CreatedBooked, StepsElsewhere, ElsewhereBooked
<1>5. ASSUME NEW p \in Pipelines, NEW consumer, NEW listed, NEW mint,
             CancelPipeline(p, consumer, listed, mint)
      PROVE  BookedInv'
  BY <1>0, <1>5, CancelledBooked, StepsElsewhere, ElsewhereBooked
<1> QED
  BY <1>0, <1>1, <1>2, <1>3, <1>4, <1>5, StepKinds

LEMMA InitBooked == Init => BookedInv
<1> SUFFICES ASSUME Init, NEW p \in Pipelines PROVE Booked(p)
  BY DEF BookedInv
<1>1. \A i \in Indexes : Allocation(p)[i] = 0 /\ left_behind[p][i] = 0
  BY DEF Init, Allocation, NoNode
<1>2. pipeline[p].total_usdc_locked = 0
  BY DEF Init, NoPipeline
<1>3. Total(Allocation(p), Indexes) = 0
  BY <1>1, IndexesFinite, TotalZero
<1> QED
  BY <1>1, <1>2, <1>3 DEF Booked

\* A page that has a current snapshot.
Fresh(p) == data.pipelines[p] = Current(p)

PageInv == IndexerInv /\ BookedInv

LEMMA FreshShows ==
  ASSUME NEW p \in Pipelines, Fresh(p)
  PROVE  /\ StatusShown(p) = pipeline[p].status
         /\ \A statuses : "Absent" \notin statuses /\ "Closed" \notin statuses =>
              ShownAs(p, statuses) = NodesWith(p, statuses)
<1>1. /\ data.pipelines[p].status = pipeline[p].status
      /\ \A i \in Indexes : data.pipelines[p].nodes[i] = NodeRead(p, i)
  BY DEF Fresh, Current, Header
<1> QED
  BY <1>1 DEF StatusShown, ShownAs, NodesWith, NodeRead, NodeExists

LEMMA ClaimsOffered ==
  ASSUME IndexerInv, NEW p \in Pipelines, Fresh(p), NEW i \in Indexes, NEW tier \in Tiers,
         ~pipeline_config.paused
  PROVE  i \in Claimable(p, tier) <=> MayClaim(p, i, tier)
<1>1. /\ ShownAs(p, {"Pending"}) = NodesWith(p, {"Pending"})
      /\ ShownAs(p, {"Settled"}) = Settled(p)
      /\ StatusShown(p) = pipeline[p].status
  BY FreshShows DEF Settled
<1>2. pipeline[p].settled_mask = Settled(p)
  BY DEF IndexerInv, IndexedChain, CountInv, Counted, Counts
<1>3. ASSUME pipeline[p].status = "Active"
      PROVE  PositionsShownAs(p, {"Settled"}) = Settled(p)
  <2>1. \A j \in ShownAs(p, {"Settled"}) : Position(p, j) = j
    BY <1>1, <1>3, ShownInPlace
  <2> QED
    BY <1>1, <2>1 DEF PositionsShownAs
<1>4. pipeline[p].status = "Active" => (DepsSettled(p, i) <=> DependenciesSettled(p, i))
  BY <1>2, <1>3 DEF DepsSettled, DependenciesSettled
<1>5. i \in NodesWith(p, {"Pending"}) <=> node[p][i].status = "Pending"
  BY DEF NodesWith
<1>6. tier \in Nat /\ node[p][i].required_tier \in Nat
  BY ArgumentsAssumption DEF IndexerInv, IndexedChain, ChainInv, TypeOK, NodeAccount
<1>7. node[p][i].required_tier <= tier <=> tier >= node[p][i].required_tier
  BY <1>6
<1> QED
  BY <1>1, <1>4, <1>5, <1>7 DEF Claimable, MayClaim

\* A pipeline with a claimed node is running, unless another of its nodes expired or it
\* was cancelled around it.
LEMMA WorkListed ==
  ASSUME IndexerInv, NEW p \in Pipelines, Fresh(p), NEW i \in Indexes,
         StatusShown(p) \notin {"PartiallyRefunded", "Cancelled"}
  PROVE  i \in InProgress(p, node[p][i].agent) <=> node[p][i].status = "Claimed"
<1>1. ShownAs(p, {"Claimed"}) = NodesWith(p, {"Claimed"})
      /\ StatusShown(p) = pipeline[p].status
  BY FreshShows
<1>2. ASSUME node[p][i].status = "Claimed"
      PROVE  pipeline[p].status = "Active"
  <2>1. pipeline[p].status # "Absent"
    BY <1>2 DEF IndexerInv, IndexedChain, ChainInv, ReviewInv, AbsentIsEmpty
  <2>2. i \in Made(p) /\ i \notin Settled(p)
    BY <1>2 DEF Made, Settled, NodesWith
  <2>3. pipeline[p].status # "Completed"
    BY <2>2 DEF IndexerInv, IndexedChain, CountInv, Counted, Counts
  <2>4. pipeline[p].status \in PipelineStatus
    BY AccountsTyped DEF IndexerInv, IndexedChain, ChainInv, PipelineAccount
  <2> QED
    BY <1>1, <2>1, <2>3, <2>4 DEF PipelineStatus
<1> QED
  BY <1>1, <1>2 DEF InProgress, NodesWith

\* What open nodes are allocated is in a vault that is whole, and fits the 64 bits it
\* was added up in when the pipeline was created.
LEMMA WholeCovers ==
  ASSUME TypeOK, BookedInv, NEW p \in Pipelines, VaultIsWhole(p), NEW R \in SUBSET OpenNodes(p)
  PROVE  /\ Total(Allocation(p), R) \in Nat
         /\ Total(Allocation(p), R) <= vault[p]
         /\ Total(Allocation(p), R) <= U64_MAX
<1> DEFINE f == Locked(p)
           h == Allocation(p)
           total == pipeline[p].total_usdc_locked
<1>1. R \in SUBSET Indexes /\ \A i \in R : f[i] = h[i]
  BY DEF OpenNodes, NodesWith, Locked
<1>2. vault[p] = Total(f, Indexes) /\ Total(h, Indexes) <= total
  BY DEF VaultIsWhole, BookedInv, Booked
<1>3. total \in Nat /\ total <= U64_MAX
  BY AccountsTyped, U64Assumption DEF PipelineAccount, Amounts
<1> HIDE DEF f, h, total
<1>4. Total(f, R) = Total(h, R)
  BY <1>1, TotalSame
<1>5. Total(f, R) <= Total(f, Indexes) /\ Total(h, R) <= Total(h, Indexes)
  BY <1>1, IndexesFinite, TotalDifference
<1>6. /\ Total(h, R) \in Nat /\ Total(h, Indexes) \in Nat /\ Total(f, Indexes) \in Nat
  BY <1>1, IndexesFinite, FS_Subset, TotalType
<1>7. Total(h, R) <= vault[p] /\ Total(h, R) <= U64_MAX
  BY <1>2, <1>3, <1>4, <1>5, <1>6, U64Assumption
<1> QED
  BY <1>6, <1>7 DEF h

LEMMA LateListed ==
  ASSUME TypeOK, BookedInv, NEW p \in Pipelines, Fresh(p), NEW i \in Indexes,
         VaultIsWhole(p), NEW seen \in 0..slot
  PROVE  /\ slot # node[p][i].deadline_slot =>
              (i \in OverdueShown(p, seen) => MayExpire(p, i, {}, MintOf[p]))
         /\ seen = slot =>
              (MayExpire(p, i, {}, MintOf[p]) => i \in OverdueShown(p, seen))
<1>1. i \in ShownAs(p, {"Claimed", "Pending"}) <=> node[p][i].status \in {"Pending", "Claimed"}
  <2>1. ShownAs(p, {"Claimed", "Pending"}) = NodesWith(p, {"Claimed", "Pending"})
    BY FreshShows
  <2> QED
    BY <2>1 DEF NodesWith
<1>2. /\ slot \in Nat /\ slot > 0 /\ seen \in Nat /\ seen <= slot
      /\ node[p][i].deadline_slot \in Nat
  <2>1. slot \in Slots /\ node[p][i].deadline_slot \in Amounts
    BY DEF TypeOK, NodeAccount
  <2>2. slot \in Nat /\ slot > 0
    BY <2>1, BoundsAssumption DEF Slots
  <2> QED
    BY <2>1, <2>2, U64Assumption DEF Amounts
<1>3. /\ slot # node[p][i].deadline_slot /\ seen >= node[p][i].deadline_slot => Overdue(p, i)
      /\ seen = slot /\ Overdue(p, i) => seen > 0 /\ seen >= node[p][i].deadline_slot
  BY <1>2 DEF Overdue
<1>4. ASSUME node[p][i].status \in {"Pending", "Claimed"}, Overdue(p, i)
      PROVE  MayExpire(p, i, {}, MintOf[p])
  <2> DEFINE refund == Total(Allocation(p), ExpiredBy(p, i, {}))
  <2>1. refund \in Nat /\ refund <= vault[p] /\ refund <= U64_MAX
    <3>1. {} \in SUBSET Indexes
      OBVIOUS
    <3>2. ExpiredBy(p, i, {}) \in SUBSET OpenNodes(p)
      BY <1>4, <3>1, ExpiredAreOpen
    <3> QED
      BY <3>2, WholeCovers
  <2>2. vault[p] \in Nat
    BY DEF TypeOK
  <2> HIDE DEF refund
  <2>3. vault[p] >= OwnMint(p, MintOf[p], refund)
    BY <2>1, <2>2 DEF OwnMint
  <2> QED
    BY <1>4, <2>1, <2>3 DEF MayExpire, refund
<1>5. MayExpire(p, i, {}, MintOf[p]) =>
        node[p][i].status \in {"Pending", "Claimed"} /\ Overdue(p, i)
  BY DEF MayExpire
<1> QED
  BY <1>1, <1>3, <1>4, <1>5 DEF OverdueShown

\* The panel adds the default window to the slot of the submission.
LEMMA WindowShown ==
  ASSUME TypeOK, NEW p \in Pipelines, NEW i \in Indexes, settlement[p][i].open,
         NEW seen \in 0..slot
  PROVE  LET window == settlement[p][i].dispute_slots IN
         /\ window <= DISPUTE_SLOTS /\ slot # DisputeUntil(p, i) /\ slot <= DisputeUntil(p, i) =>
              WindowOpenShown(p, i, seen, TRUE)
         /\ window >= DISPUTE_SLOTS /\ WindowOver(p, i) =>
              ~WindowOpenShown(p, i, slot, TRUE)
<1> DEFINE window == settlement[p][i].dispute_slots
           since == settlement[p][i].submitted_at_slot
           until == DisputeUntil(p, i)
<1>1. settlement[p][i] \in SettlementAccount
  BY DEF TypeOK
<1>2. window \in Amounts /\ since \in Amounts /\ slot \in Amounts /\ DISPUTE_SLOTS \in Amounts
  BY <1>1, SlotIsAmount, ProgramConstants DEF SettlementAccount, TypeOK
<1>3. /\ window \in Nat /\ since \in Nat /\ slot \in Nat /\ DISPUTE_SLOTS \in Nat
      /\ slot <= U64_MAX /\ U64_MAX \in Nat
  BY <1>2, U64Assumption DEF Amounts
<1>4. until = IF since + window <= U64_MAX THEN since + window ELSE U64_MAX
  BY DEF DisputeUntil, SaturatingAdd
<1>5. \A s : WindowOpenShown(p, i, s, TRUE) <=> s < since + DISPUTE_SLOTS
  BY DEF WindowOpenShown, Got, DisputeUntilShown
<1>6. WindowOver(p, i) <=> slot > until
  BY DEF WindowOver
<1>7. seen \in Nat /\ seen <= slot
  BY <1>3
<1> HIDE DEF window, since, until
<1>8. window <= DISPUTE_SLOTS /\ slot # until /\ slot <= until => seen < since + DISPUTE_SLOTS
  BY <1>3, <1>4, <1>7
<1>9. window >= DISPUTE_SLOTS /\ slot > until => ~(slot < since + DISPUTE_SLOTS)
  BY <1>3, <1>4
<1> QED
  BY <1>5, <1>6, <1>8, <1>9 DEF window, until

LEMMA ReviewsOffered ==
  ASSUME TypeOK, ReviewInv, NEW p \in Pipelines, Fresh(p), NEW i \in Indexes,
         NEW seen \in 0..slot, NEW answered \in BOOLEAN
  PROVE  LET window == settlement[p][i].dispute_slots IN
         /\ window <= DISPUTE_SLOTS /\ slot # DisputeUntil(p, i) =>
              (DisputeOpen(p, i) => i \in DisputeOffered(p, seen, TRUE))
         /\ window >= DISPUTE_SLOTS =>
              (MayFinalize(p, i, MintOf[p]) =>
                 (seen = slot \/ ~answered => i \in FinalizeOffered(p, seen, answered)))
<1>1. ShownAs(p, {"Submitted"}) = NodesWith(p, {"Submitted"})
  BY FreshShows
<1>2. ASSUME node[p][i].status = "Submitted"
      PROVE  /\ settlement[p][i].open
             /\ i \in Undisputed(p, TRUE) /\ i \in Undisputed(p, answered)
  BY <1>1, <1>2, WindowOrDispute DEF Undisputed, Got, NodesWith
<1>3. DisputeOpen(p, i) => node[p][i].status = "Submitted" /\ slot <= DisputeUntil(p, i)
  BY DEF DisputeOpen
<1>4. MayFinalize(p, i, MintOf[p]) => node[p][i].status = "Submitted" /\ WindowOver(p, i)
  BY DEF MayFinalize
<1>5. ASSUME settlement[p][i].dispute_slots <= DISPUTE_SLOTS, slot # DisputeUntil(p, i),
             DisputeOpen(p, i)
      PROVE  i \in DisputeOffered(p, seen, TRUE)
  BY <1>2, <1>3, <1>5, WindowShown DEF DisputeOffered
<1>6. ASSUME settlement[p][i].dispute_slots >= DISPUTE_SLOTS, MayFinalize(p, i, MintOf[p]),
             seen = slot \/ ~answered
      PROVE  i \in FinalizeOffered(p, seen, answered)
  <2>1. CASE ~answered
    BY <1>2, <1>4, <1>6, <2>1 DEF FinalizeOffered, WindowOpenShown, Got
  <2>2. CASE answered /\ seen = slot
    <3>1. ~WindowOpenShown(p, i, slot, TRUE)
      BY <1>2, <1>4, <1>6, WindowShown
    <3>2. answered = TRUE
      BY <2>2
    <3> QED
      BY <1>2, <1>4, <1>6, <2>2, <3>1, <3>2 DEF FinalizeOffered
  <2> QED
    BY <1>6, <2>1, <2>2
<1> QED
  BY <1>5, <1>6

\* What is shown as in escrow: with all nodes there and the vault whole it is what the
\* open nodes were allocated.
LEMMA BalanceShown ==
  ASSUME IndexerInv, BookedInv, NEW p \in Pipelines, Fresh(p), NodesAreThere(p), VaultIsWhole(p)
  PROVE  InEscrowShown(p) = vault[p] - Total(left_behind[p], Indexes)
<1> DEFINE done == Settled(p) \cup Expired(p)
           open == OpenNodes(p)
           amount == Allocation(p)
           held == Locked(p)
           left == left_behind[p]
<1>1. TypeOK /\ PositionInv /\ Booked(p)
  BY DEF IndexerInv, IndexedChain, ChainInv, BookedInv
<1>2. \A i \in Indexes : node[p][i].status \in NodeStatus \ {"Closed"}
  <2>1. \A i \in Indexes : i \in Nat /\ node[p][i].status \in NodeStatus
    BY <1>1, AccountsTyped DEF Indexes
  <2>2. pipeline[p].total_nodes \in Nat
    BY <1>1, AccountsTyped DEF PipelineAccount
  <2>3. \A i \in Indexes : i < pipeline[p].total_nodes \/ i >= pipeline[p].total_nodes
    BY <2>1, <2>2
  <2> QED
    BY <1>1, <2>1, <2>3 DEF NodesAreThere, NodeExists, PositionInv
<1>3. Closed(p) = {}
  BY <1>2 DEF Closed, NodesWith
<1>4. InEscrowShown(p) = Total(amount, Indexes) - Total(amount, done)
  <2>1. ShownAs(p, {"Settled", "Expired"}) = NodesWith(p, {"Settled", "Expired"})
    BY FreshShows
  <2>2. NodesWith(p, {"Settled", "Expired"}) = done
    BY DEF Settled, Expired, NodesWith
  <2> QED
    BY <1>1, <1>3, <2>1, <2>2 DEF InEscrowShown, Booked
<1>5. vault[p] = Total(held, Indexes)
  BY DEF VaultIsWhole
<1>6. /\ done \in SUBSET Indexes /\ open \in SUBSET Indexes
      /\ open \subseteq Indexes \ done
      /\ \A i \in (Indexes \ done) \ open : node[p][i].status = "Absent"
  BY <1>2 DEF Settled, Expired, OpenNodes, NodesWith, NodeStatus, OpenStatus, ActiveStatus
<1>7. ASSUME NEW i \in Indexes
      PROVE  /\ i \in open => held[i] = amount[i] /\ left[i] = 0
             /\ i \notin open => held[i] = left[i]
             /\ i \in (Indexes \ done) \ open => amount[i] = 0
  BY <1>1, <1>6 DEF OpenNodes, NodesWith, Locked, Booked
<1> HIDE DEF done, open, amount, held, left
<1>8. /\ IsFiniteSet(Indexes) /\ IsFiniteSet(open) /\ IsFiniteSet(Indexes \ done)
  BY <1>6, IndexesFinite, FS_Subset
<1>9. Total(amount, Indexes \ done) = Total(amount, Indexes) - Total(amount, done)
  BY <1>6, <1>8, TotalDifference
<1>10. Total(amount, Indexes \ done) = Total(amount, open)
  <2> DEFINE rest == Indexes \ done
  <2>1. Total(amount, rest \ open) = Total(amount, rest) - Total(amount, open)
    BY <1>6, <1>8, TotalDifference
  <2>2. IsFiniteSet(rest \ open)
    BY <1>8, FS_Subset
  <2>3. Total(amount, rest \ open) = 0
    BY <1>7, <2>2, TotalZero
  <2>4. Total(amount, rest) \in Nat /\ Total(amount, open) \in Nat
    BY <1>8, TotalType
  <2> QED
    BY <2>1, <2>3, <2>4
<1>11. Total(held, open) = Total(amount, open) /\ Total(left, open) = 0
  <2>1. \A i \in open : held[i] = amount[i] /\ left[i] = 0
    BY <1>6, <1>7
  <2> QED
    BY <1>8, <2>1, TotalSame, TotalZero
<1>12. Total(held, Indexes \ open) = Total(left, Indexes \ open)
  BY <1>7, TotalSame
<1>13. /\ Total(held, Indexes \ open) = Total(held, Indexes) - Total(held, open)
       /\ Total(left, Indexes \ open) = Total(left, Indexes) - Total(left, open)
  BY <1>6, <1>8, TotalDifference
<1>14. /\ Total(held, Indexes) \in Nat /\ Total(left, Indexes) \in Nat
       /\ Total(amount, open) \in Nat
  BY <1>8, TotalType
<1>15. Total(amount, open) = Total(held, Indexes) - Total(left, Indexes)
  <2>1. Total(held, Indexes \ open) = Total(held, Indexes) - Total(amount, open)
    BY <1>11, <1>13
  <2>2. Total(held, Indexes \ open) = Total(left, Indexes) - 0
    BY <1>11, <1>12, <1>13
  <2> QED
    BY <1>14, <2>1, <2>2
<1> QED
  BY <1>4, <1>5, <1>9, <1>10, <1>15 DEF left

LEMMA PagesAgree == PageInv => PagesAgreeWithProgram
<1> SUFFICES ASSUME PageInv, NEW p \in Pipelines, NEW i \in Indexes, Fresh(p)
             PROVE  LET window == settlement[p][i].dispute_slots IN
                    /\ \A tier \in Tiers :
                         ~pipeline_config.paused =>
                           (i \in Claimable(p, tier) <=> MayClaim(p, i, tier))
                    /\ StatusShown(p) \notin {"PartiallyRefunded", "Cancelled"} =>
                         (i \in InProgress(p, node[p][i].agent) <=> node[p][i].status = "Claimed")
                    /\ VaultIsWhole(p) => \A seen \in 0..slot :
                         /\ slot # node[p][i].deadline_slot =>
                              (i \in OverdueShown(p, seen) => MayExpire(p, i, {}, MintOf[p]))
                         /\ seen = slot =>
                              (MayExpire(p, i, {}, MintOf[p]) => i \in OverdueShown(p, seen))
                    /\ window <= DISPUTE_SLOTS /\ slot # DisputeUntil(p, i) =>
                         (DisputeOpen(p, i) =>
                            \A seen \in 0..slot : i \in DisputeOffered(p, seen, TRUE))
                    /\ window >= DISPUTE_SLOTS =>
                         (MayFinalize(p, i, MintOf[p]) =>
                            \A seen \in 0..slot, answered \in BOOLEAN :
                              seen = slot \/ ~answered =>
                                i \in FinalizeOffered(p, seen, answered))
                    /\ NodesAreThere(p) /\ VaultIsWhole(p) =>
                         InEscrowShown(p) = vault[p] - Total(left_behind[p], Indexes)
  BY DEF PagesAgreeWithProgram, Fresh
<1>1. IndexerInv /\ BookedInv /\ TypeOK /\ ReviewInv
  BY DEF PageInv, IndexerInv, IndexedChain, ChainInv
<1>2. \A seen \in 0..slot : \A answered \in BOOLEAN :
        LET window == settlement[p][i].dispute_slots IN
        /\ window <= DISPUTE_SLOTS /\ slot # DisputeUntil(p, i) =>
             (DisputeOpen(p, i) => i \in DisputeOffered(p, seen, TRUE))
        /\ window >= DISPUTE_SLOTS =>
             (MayFinalize(p, i, MintOf[p]) =>
                (seen = slot \/ ~answered => i \in FinalizeOffered(p, seen, answered)))
  BY <1>1, ReviewsOffered
<1>3. TRUE \in BOOLEAN
  OBVIOUS
<1> QED
  BY <1>1, <1>2, <1>3, ClaimsOffered, WorkListed, LateListed, BalanceShown

\* With a current snapshot the pages' own copies of the program's conditions offer
\* the claims, refunds, disputes and payouts it accepts, and show what its vault
\* holds for open nodes, save in the places PagesAgreeWithProgram names: whatever the
\* programs' constants are, whatever was tuned on the way, whatever slot the page knows
\* and whatever cancel_pipeline was given.
THEOREM PagesCorrect == IndexerSpec => []PagesAgreeWithProgram
<1>1. IndexerInit => PageInv
  BY InitIndexer, InitBooked DEF PageInv, IndexerInit
<1>2. PageInv /\ [IndexerNext]_ivars => PageInv'
  <2> SUFFICES ASSUME PageInv, [IndexerNext]_ivars PROVE PageInv'
    OBVIOUS
  <2>1. IndexerInv'
    BY IndexerPreserved DEF PageInv
  <2>2. BookedInv'
    BY IndexerSteps, BookedPreserved DEF PageInv, IndexerInv, IndexedChain
  <2> QED
    BY <2>1, <2>2 DEF PageInv
<1>3. PageInv => PagesAgreeWithProgram
  BY PagesAgree
<1> QED
  BY <1>1, <1>2, <1>3, PTL DEF IndexerSpec
=============================================================================
