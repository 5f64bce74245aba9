---------------------------- MODULE CascadeLoop -----------------------------
(***************************************************************************)
(* The fixpoint loop of expire_node, account by account: passes over        *)
(* remaining_accounts, in the order the caller lists them, until one pass   *)
(* expires nothing.  An account may be listed twice, and the target's own   *)
(* account may be listed.                                                   *)
(***************************************************************************)
EXTENDS Tokens, Sequences, Cascade

CONSTANTS
  MAX_NODES,
  AllocationUsdc,   \* allocation_usdc of each node
  AccountLists      \* the remaining_accounts a caller may pass, by node index

Indexes == 0..(MAX_NODES - 1)

CascadeLoopAssumption ==
  /\ MAX_NODES \in Nat
  /\ AllocationUsdc \in [Indexes -> Amounts]
  /\ AccountLists \subseteq Seq(Indexes)

VARIABLES
  target, mask, pending, remaining_accounts,   \* the call's inputs
  expired_bits, refund_total, expired_count,   \* what the loop accumulates
  changed, position, running

inputs == <<target, mask, pending, remaining_accounts>>
vars == <<inputs, expired_bits, refund_total, expired_count, changed, position, running>>

\* create_pipeline admits no other dependency masks.
Dags == {m \in [Indexes -> SUBSET Indexes] : \A i \in Indexes : m[i] \subseteq 0..(i - 1)}

Init ==
  /\ target \in Indexes
  /\ mask \in Dags
  /\ pending \in SUBSET (Indexes \ {target})
  /\ remaining_accounts \in AccountLists
  /\ expired_bits = {target}
  /\ refund_total = AllocationUsdc[target]
  /\ expired_count = 1
  /\ changed = FALSE
  /\ position = 1
  /\ running = TRUE

Expires(j) ==
  /\ j \notin expired_bits        \* "already handled"
  /\ j \in pending
  /\ mask[j] \cap expired_bits # {}

VisitAccount ==
  /\ running /\ position <= Len(remaining_accounts)
  /\ LET j == remaining_accounts[position] IN
       \/ /\ Expires(j)
          /\ refund_total + AllocationUsdc[j] <= U64_MAX   \* checked_add
          /\ expired_bits' = expired_bits \cup {j}
          /\ refund_total' = refund_total + AllocationUsdc[j]
          /\ expired_count' = expired_count + 1
          /\ changed' = TRUE
       \/ /\ ~Expires(j)
          /\ UNCHANGED <<expired_bits, refund_total, expired_count, changed>>
  /\ position' = position + 1
  /\ UNCHANGED <<inputs, running>>

\* Seeded faults: one pass only; changed is not cleared.
EndPassForGood ==
  /\ running /\ position > Len(remaining_accounts)
  /\ running' = FALSE /\ changed' = FALSE /\ position' = 1
  /\ UNCHANGED <<inputs, expired_bits, refund_total, expired_count>>
EndPassStillChanged ==
  /\ running /\ position > Len(remaining_accounts)
  /\ running' = changed /\ changed' = changed /\ position' = 1
  /\ UNCHANGED <<inputs, expired_bits, refund_total, expired_count>>

EndPass ==
  /\ running /\ position > Len(remaining_accounts)
  /\ running' = changed
  /\ changed' = FALSE
  /\ position' = 1
  /\ UNCHANGED <<inputs, expired_bits, refund_total, expired_count>>

Next == VisitAccount \/ EndPass

Spec == Init /\ [][Next]_vars /\ WF_vars(Next)

-----------------------------------------------------------------------------
Listed == {remaining_accounts[k] : k \in DOMAIN remaining_accounts}
Eligible == Listed \cap pending

TypeOK ==
  /\ target \in Indexes
  /\ mask \in [Indexes -> SUBSET Indexes]
  /\ pending \in SUBSET Indexes /\ target \notin pending
  /\ remaining_accounts \in Seq(Indexes)
  /\ expired_bits \in SUBSET Indexes
  /\ refund_total \in Nat /\ expired_count \in Nat
  /\ changed \in BOOLEAN /\ running \in BOOLEAN
  /\ position \in Nat \ {0}

\* When the loop stops it has expired exactly the pending listed nodes that
\* depend on the target directly or through one another: no listing order, no
\* duplicate and no early stop of a pass misses one or adds one.  At any time a
\* node is refunded and counted once, however often it is listed and however
\* many passes meet it.
LoopComputesCascade ==
  /\ ~running => expired_bits = CascadeSet(target, mask, Eligible)
  /\ refund_total = Total(AllocationUsdc, expired_bits)
  /\ expired_count = Cardinality(expired_bits)

\* The loop stops: each further pass expires one more node.
Terminates == <>~running
=============================================================================
