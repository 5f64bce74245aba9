------------------------------ MODULE Indexer -------------------------------
(***************************************************************************)
(* The indexer (src/indexer/src): a poller that copies the pipelines of the *)
(* chain into a store every few seconds, reading one account at a time; job *)
(* specs that consumers sign and post; a file that holds the store across   *)
(* restarts.  A poll that takes longer than the interval overlaps the next. *)
(*                                                                          *)
(* The chain is module DagEscrow; staked agents, which a poll copies        *)
(* likewise, are left out.                                                  *)
(***************************************************************************)
EXTENDS DagEscrow

CONSTANTS
  Polls,    \* the polls that may overlap
  Specs     \* what a consumer may ask of a node: skill, description, input

VARIABLES
  data,     \* Store.data
  file,     \* what the store's file holds
  poll      \* the polls in progress

ivars == <<vars, data, file, poll>>

NoSpec == [consumer |-> Nobody, spec |-> "none"]
Unlisted == [status |-> "Absent", nodes_settled |-> 0, nodes_expired |-> 0,
             nodes |-> [i \in Indexes |-> "Absent"]]
EMPTY == [pipelines |-> [p \in Pipelines |-> Unlisted],
          specs |-> [p \in Pipelines |-> NoSpec]]

NoPoll == [at |-> "idle", todo |-> {}, current |-> CHOOSE p \in Pipelines : TRUE,
           next |-> 0, raw |-> EMPTY.pipelines]

\* What the Pipeline account says, and a node account (getPipeline leaves out the
\* nodes that are not there any more).
Header(p) ==
  [status |-> pipeline[p].status, nodes_settled |-> pipeline[p].nodes_settled,
   nodes_expired |-> pipeline[p].nodes_expired]
NodeRead(p, i) == IF NodeExists(p, i) THEN node[p][i].status ELSE "Absent"

\* A pipeline read in one go.
Current(p) ==
  [status |-> Header(p).status, nodes_settled |-> Header(p).nodes_settled,
   nodes_expired |-> Header(p).nodes_expired, nodes |-> [i \in Indexes |-> NodeRead(p, i)]]

(***************************************************************************)
(* The store                                                                *)
(***************************************************************************)
\* Memory first, then the file, in one go of the event loop.
Save(new) == data' = new /\ file' = [parses |-> TRUE, content |-> new]

\* A file that does not parse is taken for an empty store.
Load == IF file.parses THEN file.content ELSE EMPTY

\* A seeded fault: the poll's result is all there is.
UpdateAll(pipelines) == Save([EMPTY EXCEPT !.pipelines = pipelines])

Update(pipelines) == Save([data EXCEPT !.pipelines = pipelines])

SetSpecs(p, consumer, spec) ==
  Save([data EXCEPT !.specs[p] = [consumer |-> consumer, spec |-> spec]])

(***************************************************************************)
(* pollOnce, one read at a time                                             *)
(***************************************************************************)
Polling(q, new) == poll' = [poll EXCEPT ![q] = new]

\* A seeded fault: only active pipelines are polled.
ListActive == {p \in Pipelines : pipeline[p].status = "Active"}

\* dag.account.pipeline.all()
ListPipelines == {p \in Pipelines : pipeline[p].status # "Absent"}

StartPoll(q) ==
  /\ poll[q].at = "idle"
  /\ Polling(q, [NoPoll EXCEPT !.at = "listed", !.todo = ListPipelines])
  /\ UNCHANGED <<vars, data, file>>

FetchPipeline(q, p) ==
  /\ poll[q].at = "listed" /\ p \in poll[q].todo
  /\ Polling(q, [poll[q] EXCEPT
       !.at = "reading", !.current = p, !.next = 0,
       !.raw[p] = [Unlisted EXCEPT !.status = Header(p).status,
                                   !.nodes_settled = Header(p).nodes_settled,
                                   !.nodes_expired = Header(p).nodes_expired]])
  /\ UNCHANGED <<vars, data, file>>

FetchNode(q, p, i) ==
  /\ poll[q].at = "reading" /\ poll[q].current = p /\ poll[q].next = i
  /\ i < pipeline[p].total_nodes
  /\ Polling(q, [poll[q] EXCEPT !.next = i + 1, !.raw[p].nodes[i] = NodeRead(p, i)])
  /\ UNCHANGED <<vars, data, file>>

\* A seeded fault: the counters come from a second read of the account.
ReadAgain(p, read) == [Current(p) EXCEPT !.nodes = read.nodes]
AsRead(p, read) == read

PipelineRead(q, p) ==
  /\ poll[q].at = "reading" /\ poll[q].current = p
  /\ poll[q].next = pipeline[p].total_nodes
  /\ Polling(q, [poll[q] EXCEPT !.at = "listed", !.todo = @ \ {p},
                                !.raw[p] = AsRead(p, poll[q].raw[p])])
  /\ UNCHANGED <<vars, data, file>>

FinishPoll(q) ==
  /\ poll[q].at = "listed" /\ poll[q].todo = {}
  /\ Update(poll[q].raw)
  /\ Polling(q, NoPoll)
  /\ UNCHANGED vars

\* A read fails: the poll's result is dropped, the timer runs on.
PollError(q) ==
  /\ poll[q].at # "idle"
  /\ Polling(q, NoPoll)
  /\ UNCHANGED <<vars, data, file>>

(***************************************************************************)
(* The API                                                                  *)
(***************************************************************************)
\* A spec signed by the consumer it names; the pipeline need not be known.
PostSpec(p, consumer, spec) ==
  /\ SetSpecs(p, consumer, spec)
  /\ UNCHANGED <<vars, poll>>

\* withSpecs: merged only if the signer is the pipeline's consumer.
WithSpecs(p) ==
  IF data.pipelines[p].status # "Absent" /\ data.specs[p].consumer = ConsumerOf[p]
  THEN data.specs[p] ELSE NoSpec

(***************************************************************************)
(* Crashes                                                                  *)
(***************************************************************************)
Restart ==
  /\ data' = Load
  /\ poll' = [q \in Polls |-> NoPoll]
  /\ UNCHANGED <<vars, file>>

\* writeFileSync truncates, then writes: a crash in between leaves half a file.
RestartAfterTornSave ==
  /\ file' = [parses |-> FALSE, content |-> EMPTY]
  /\ data' = EMPTY
  /\ poll' = [q \in Polls |-> NoPoll]
  /\ UNCHANGED vars

-----------------------------------------------------------------------------
IndexerInit ==
  /\ Init
  /\ data = EMPTY
  /\ file = [parses |-> TRUE, content |-> EMPTY]
  /\ poll = [q \in Polls |-> NoPoll]

\* The instructions but those that hand over keys.
ChainStep ==
  /\ \/ Tick
     \/ \E operator \in Keys :
          \/ \E paused \in BOOLEAN : SetPaused(operator, paused)
          \/ \E window \in DisputeWindows : SetDisputeWindow(operator, window)
     \/ \E p \in Pipelines :
          \/ ConsumerStep(p)
          \/ \E i \in Indexes :
               \/ \E agent \in Agents, tier \in Tiers : ClaimNode(p, i, agent, tier)
               \/ FacilitatorStep(p, i)
               \/ \E mint \in Mints :
                    \/ FinalizeNode(p, i, mint)
                    \/ \E listed \in SUBSET Indexes : ExpireNode(p, i, listed, mint)
  /\ UNCHANGED <<data, file, poll>>

PollStep(q) ==
  \/ StartPoll(q)
  \/ \E p \in Pipelines :
       \/ FetchPipeline(q, p)
       \/ \E i \in Indexes : FetchNode(q, p, i)
       \/ PipelineRead(q, p)
  \/ FinishPoll(q)

IndexerNext ==
  \/ ChainStep
  \/ \E q \in Polls : PollStep(q) \/ PollError(q)
  \/ \E p \in Pipelines, consumer \in Consumers, spec \in Specs : PostSpec(p, consumer, spec)
  \/ Restart
  \/ RestartAfterTornSave

IndexerSpec == IndexerInit /\ [][IndexerNext]_ivars

\* The timer keeps firing and reads get their answers; from some time on none
\* fails and the process stays up.
Undisturbed ==
  \/ ChainStep
  \/ \E q \in Polls : PollStep(q)
  \/ \E p \in Pipelines, consumer \in Consumers, spec \in Specs : PostSpec(p, consumer, spec)

FairIndexer ==
  /\ IndexerSpec
  /\ \A q \in Polls : WF_ivars(PollStep(q))
  /\ <>[][Undisturbed]_ivars

(***************************************************************************)
(*                               Properties                                *)
(***************************************************************************)
View == [status: PipelineStatus, nodes_settled: Nat, nodes_expired: Nat,
         nodes: [Indexes -> NodeStatus \ {"Closed"}]]
SpecEntry == {NoSpec} \cup [consumer: Consumers, spec: Specs]

\* Store and polls have their types.
IndexerTypeOK ==
  /\ data \in [pipelines: [Pipelines -> View], specs: [Pipelines -> SpecEntry]]
  /\ file.parses => file.content = data
  /\ \A q \in Polls :
       /\ poll[q].at \in {"idle", "listed", "reading"}
       /\ poll[q].todo \subseteq Pipelines
       /\ poll[q].raw \in [Pipelines -> View]

\* A snapshot is put together from reads at different times.  It may lag, but it
\* never claims more settled or expired nodes than the node list next to it shows,
\* and a pipeline shown completed shows every node settled, since pollOnce reads a
\* pipeline before its nodes and their ends are final.
SnapshotAddsUp ==
  IndexerTypeOK /\ \A p \in Pipelines :
    LET v == data.pipelines[p]
        shown(status) == {i \in Indexes : v.nodes[i] = status}
    IN
    /\ v.nodes_settled <= Cardinality(shown("Settled"))
    /\ v.nodes_expired <= Cardinality(shown("Expired"))
    /\ v.status = "Completed" => shown("Pending") \cup shown("Claimed") = {}
    /\ v.status = "Active" => v.nodes_expired = 0

\* No poll, however it overlaps a post, and no restart changes or loses a spec: another
\* POST /spec does, whoever signed it, and a crash in the middle of writing the file.
SpecsOutlivePolls ==
  [][\A p \in Pipelines :
       data.specs[p] # data'.specs[p] =>
         \/ \E consumer \in Consumers, spec \in Specs : PostSpec(p, consumer, spec)
         \/ ~file'.parses]_ivars

\* store.ts: "In-memory store with JSON-file persistence across restarts": a spec is
\* replaced by another, never lost.
SpecsPersist ==
  [][\A p \in Pipelines : data.specs[p] # NoSpec => data'.specs[p] # NoSpec]_ivars

\* Polls that overlap may show an older state after a newer one; still, once reads
\* stop failing, the store comes to show the chain as it is and stays that way
\* when the chain rests.
CatchesUp == <>[](\A p \in Pipelines : data.pipelines[p] = Current(p))
=============================================================================
