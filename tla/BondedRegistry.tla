--------------------------- MODULE BondedRegistry ---------------------------
(***************************************************************************)
(* The bonded_registry program (src/programs/bonded_registry/src/lib.rs):   *)
(* each agent puts a stake in a vault of its own, which sets its tier; the  *)
(* stake stays while the agent has open jobs and pays for the jobs it       *)
(* fails.  Jobs are opened and closed by dag_escrow, whose dag_authority    *)
(* PDA signs the calls.                                                     *)
(*                                                                          *)
(* An instruction is one step, enabled exactly when it returns Ok.          *)
(* execute_unstake and slash_stake insist on the stake's own mint;          *)
(* add_stake takes any.                                                     *)
(***************************************************************************)
EXTENDS Tokens

CONSTANTS
  Agents, Consumers, Keys, Nobody,
  Successors,       \* new_operator arguments of propose_operator
  Mints,
  Authorities,      \* keys dag_escrow_authority may be set to
  SlashBps,         \* slash_bps arguments of initialize
  MaxSlashBps,      \* arguments of set_max_slash_bps
  CooldownSlots,    \* cooldown_slots arguments of initialize
  StakeAmounts,     \* amounts agents pass to stake_and_register and add_stake
  TIER1_MIN, TIER2_MIN, TIER3_MIN,
  StakeBudget,      \* what an agent's token account holds at first
  MaxJobs,          \* bound: jobs an agent ever takes
  MaxSlot           \* bound: the clock stops here

ASSUME BondedRegistryAssumption ==
  /\ Nobody \notin Keys
  /\ Successors \subseteq Keys \cup {Nobody}
  /\ SlashBps \subseteq 0..BPS
  /\ CooldownSlots \subseteq Nat
  /\ StakeAmounts \subseteq Amounts /\ StakeBudget \in Amounts
  /\ {TIER1_MIN, TIER2_MIN, TIER3_MIN} \subseteq Nat
  /\ 0 < TIER1_MIN /\ TIER1_MIN <= TIER2_MIN /\ TIER2_MIN <= TIER3_MIN
  /\ MaxJobs \in Nat /\ MaxSlot \in Nat \ {0}
  /\ MaxSlashBps \subseteq Nat

\* The token program mints at most u64::MAX units in all.
ASSUME StakeSupplyAssumption ==
  /\ IsFiniteSet(Agents) /\ IsFiniteSet(Consumers)
  /\ Cardinality(Agents) * StakeBudget <= U64_MAX

VARIABLES
  slot,
  registry_config,
  agent_stake,     \* AgentStake accounts
  stake_vault,     \* what each agent's stake vault holds
  foreign_vault,   \* what was deposited beside it, in other mints
  agent_wallet,    \* what each agent keeps outside its vault
  slash_proceeds   \* what each consumer received from slashed stakes

brvars == <<registry_config, agent_stake, stake_vault, foreign_vault, agent_wallet,
            slash_proceeds>>
vars == <<slot, brvars>>

NoStake ==
  [registered |-> FALSE, stake_mint |-> Nobody, stake_amount |-> 0, tier |-> 0,
   open_jobs |-> 0, total_settled |-> 0, total_slashed |-> 0, unstake_requested_at |-> 0]

\* tier_for_lenient; tier_for gives the same tier and rejects what has none.
TierForLenient(amount) ==
  CASE amount >= TIER3_MIN -> 3
    [] amount >= TIER2_MIN /\ amount < TIER3_MIN -> 2
    [] amount >= TIER1_MIN /\ amount < TIER2_MIN -> 1
    [] OTHER -> 0
HasTier(amount) == TierForLenient(amount) > 0

\* The state initialize leaves.
Init ==
  /\ slot = 1
  /\ registry_config \in
       [operator: Keys, dag_escrow_authority: Authorities, slash_bps: SlashBps,
        cooldown_slots: CooldownSlots, max_slash_bps: {BPS}, pending_operator: {Nobody}]
  /\ agent_stake = [a \in Agents |-> NoStake]
  /\ stake_vault = [a \in Agents |-> 0]
  /\ foreign_vault = [a \in Agents |-> 0]
  /\ agent_wallet = [a \in Agents |-> StakeBudget]
  /\ slash_proceeds = [c \in Consumers |-> 0]

Tick == slot < MaxSlot /\ slot' = slot + 1 /\ UNCHANGED brvars

(***************************************************************************)
(* Operator instructions                                                    *)
(***************************************************************************)
IsOperator(key) == key = registry_config.operator

ConfigUnchangedElse ==
  UNCHANGED <<slot, agent_stake, stake_vault, foreign_vault, agent_wallet, slash_proceeds>>

SetDagEscrowAuthority(operator, authority) ==
  /\ IsOperator(operator)
  /\ registry_config' = [registry_config EXCEPT !.dag_escrow_authority = authority]
  /\ ConfigUnchangedElse

SetMaxSlashBps(operator, max_slash_bps) ==
  /\ IsOperator(operator)
  /\ max_slash_bps <= BPS
  /\ registry_config' = [registry_config EXCEPT !.max_slash_bps = max_slash_bps]
  /\ ConfigUnchangedElse

ProposeOperator(operator, new_operator) ==
  /\ IsOperator(operator)
  /\ registry_config' = [registry_config EXCEPT !.pending_operator = new_operator]
  /\ ConfigUnchangedElse

AcceptOperator(new_operator) ==
  /\ registry_config.pending_operator # Nobody
  /\ new_operator = registry_config.pending_operator
  /\ registry_config' =
       [registry_config EXCEPT !.operator = new_operator, !.pending_operator = Nobody]
  /\ ConfigUnchangedElse

(***************************************************************************)
(* Agent instructions                                                       *)
(***************************************************************************)
\* Moves amount from the agent's token account into its vault.
Deposit(a, amount) ==
  /\ amount <= agent_wallet[a]
  /\ agent_wallet' = [agent_wallet EXCEPT ![a] = @ - amount]
  /\ stake_vault' = [stake_vault EXCEPT ![a] = @ + amount]
  /\ UNCHANGED <<slot, registry_config, foreign_vault, slash_proceeds>>

\* Deposits another mint, of which an agent may own any amount.
DepositForeign(a, amount) ==
  /\ foreign_vault' = [foreign_vault EXCEPT ![a] = @ + amount]
  /\ UNCHANGED <<slot, registry_config, stake_vault, agent_wallet, slash_proceeds>>

StakeAndRegister(a, mint, amount) ==
  /\ ~agent_stake[a].registered    \* the account is created with init
  /\ HasTier(amount)
  /\ Deposit(a, amount)
  /\ agent_stake' = [agent_stake EXCEPT ![a] =
       [NoStake EXCEPT !.registered = TRUE, !.stake_mint = mint,
                       !.stake_amount = amount, !.tier = TierForLenient(amount)]]

AddStake(a, mint, amount) ==
  LET total == agent_stake[a].stake_amount + amount IN
  /\ agent_stake[a].registered
  /\ amount > 0
  /\ total <= U64_MAX /\ HasTier(total)
  /\ \/ mint = agent_stake[a].stake_mint /\ Deposit(a, amount)
     \/ mint # agent_stake[a].stake_mint /\ DepositForeign(a, amount)
  /\ agent_stake' = [agent_stake EXCEPT
       ![a].stake_amount = total, ![a].tier = TierForLenient(total)]

RequestUnstake(a) ==
  /\ agent_stake[a].registered
  /\ agent_stake[a].tier > 0
  /\ agent_stake[a].open_jobs = 0
  /\ agent_stake' = [agent_stake EXCEPT ![a].unstake_requested_at = slot]
  /\ UNCHANGED <<slot, registry_config, stake_vault, foreign_vault, agent_wallet, slash_proceeds>>

\* A seeded fault: open jobs were checked when the unstake was requested.
MayLeaveOnceAsked(s) ==
  /\ s.unstake_requested_at > 0
  /\ slot >= s.unstake_requested_at + registry_config.cooldown_slots

MayLeave(s) ==
  /\ s.unstake_requested_at > 0
  /\ s.open_jobs = 0
  /\ slot >= s.unstake_requested_at + registry_config.cooldown_slots

ExecuteUnstake(a) ==
  LET s == agent_stake[a] IN
  /\ s.registered
  /\ MayLeave(s)
  /\ stake_vault[a] >= s.stake_amount
  /\ stake_vault' = [stake_vault EXCEPT ![a] = @ - s.stake_amount]
  /\ agent_wallet' = [agent_wallet EXCEPT ![a] = @ + s.stake_amount]
  /\ agent_stake' = [agent_stake EXCEPT
       ![a].stake_amount = 0, ![a].tier = 0, ![a].unstake_requested_at = 0]
  /\ UNCHANGED <<slot, registry_config, foreign_vault, slash_proceeds>>

(***************************************************************************)
(* Calls of dag_escrow.  It calls decrement_open_jobs(false) and slash_stake *)
(* one after the other in one transaction, and never slash_stake alone.     *)
(***************************************************************************)
Authorized(authority) == authority = registry_config.dag_escrow_authority

IncrementOpenJobs(authority, a) ==
  LET s == agent_stake[a] IN
  /\ Authorized(authority)
  /\ s.registered
  /\ s.open_jobs + s.total_settled + s.total_slashed < MaxJobs
  /\ agent_stake' = [agent_stake EXCEPT ![a].open_jobs = @ + 1]
  /\ UNCHANGED <<slot, registry_config, stake_vault, foreign_vault, agent_wallet, slash_proceeds>>

\* Seeded faults: the counter is not kept from going below 0; a failed job stays
\* open.
DecrementedBelowZero(s, settled) ==
  [s EXCEPT !.open_jobs = @ - 1, !.total_settled = IF settled THEN @ + 1 ELSE @]
DecrementedIfSettled(s, settled) ==
  [s EXCEPT !.open_jobs = IF settled /\ @ > 0 THEN @ - 1 ELSE @,
            !.total_settled = IF settled THEN @ + 1 ELSE @]

\* What decrement_open_jobs makes of an AgentStake.
Decremented(s, settled) ==
  [s EXCEPT !.open_jobs = IF @ = 0 THEN 0 ELSE @ - 1,
            !.total_settled = IF settled THEN @ + 1 ELSE @]

SettleJob(authority, a) ==
  /\ Authorized(authority)
  /\ agent_stake[a].registered
  /\ agent_stake[a].total_settled + agent_stake[a].total_slashed < MaxJobs
  /\ agent_stake' = [agent_stake EXCEPT ![a] = Decremented(@, TRUE)]
  /\ UNCHANGED <<slot, registry_config, stake_vault, foreign_vault, agent_wallet, slash_proceeds>>

\* slash_stake clamps the rate it is given to the operator's ceiling.
SlashRate(slash_bps) ==
  IF slash_bps <= registry_config.max_slash_bps THEN slash_bps
  ELSE registry_config.max_slash_bps

\* A seeded fault: the slash is at least one unit.
SlashAmountAtLeastOne(s, slash_bps) == ShareOf(s.stake_amount, SlashRate(slash_bps)) + 1

SlashAmount(s, slash_bps) == ShareOf(s.stake_amount, SlashRate(slash_bps))

\* A seeded fault: the account forgets to shrink.
SlashedVaultOnly(s, amount) == [s EXCEPT !.total_slashed = @ + 1]

Slashed(s, amount) ==
  [s EXCEPT !.stake_amount = @ - amount,
            !.tier = TierForLenient(s.stake_amount - amount),
            !.total_slashed = @ + 1]

\* Every condition of the two calls, the transfer's included.
MayFail(authority, a, mint) ==
  LET s == agent_stake[a] IN
  /\ Authorized(authority)
  /\ s.registered
  /\ s.total_settled + s.total_slashed < MaxJobs
  /\ mint = s.stake_mint           \* has_one = stake_mint
  /\ stake_vault[a] >= SlashAmount(s, registry_config.slash_bps)

FailJob(authority, a, mint, consumer) ==
  LET amount == SlashAmount(agent_stake[a], registry_config.slash_bps) IN
  /\ MayFail(authority, a, mint)
  /\ stake_vault' = [stake_vault EXCEPT ![a] = @ - amount]
  /\ slash_proceeds' = [slash_proceeds EXCEPT ![consumer] = @ + amount]
  /\ agent_stake' = [agent_stake EXCEPT ![a] = Slashed(Decremented(@, FALSE), amount)]
  /\ UNCHANGED <<slot, registry_config, foreign_vault, agent_wallet>>

-----------------------------------------------------------------------------
OperatorStep ==
  \E operator \in Keys :
    \/ \E authority \in Authorities : SetDagEscrowAuthority(operator, authority)
    \/ \E max_slash_bps \in MaxSlashBps : SetMaxSlashBps(operator, max_slash_bps)
    \/ \E key \in Successors : ProposeOperator(operator, key)
    \/ AcceptOperator(operator)

AgentStep(a) ==
  \/ \E mint \in Mints, amount \in StakeAmounts :
       StakeAndRegister(a, mint, amount) \/ AddStake(a, mint, amount)
  \/ RequestUnstake(a)
  \/ ExecuteUnstake(a)

EscrowCall(authority, a) ==
  \/ IncrementOpenJobs(authority, a)
  \/ SettleJob(authority, a)
  \/ \E mint \in Mints, consumer \in Consumers : FailJob(authority, a, mint, consumer)

Next ==
  \/ Tick
  \/ OperatorStep
  \/ \E a \in Agents :
       \/ AgentStep(a)
       \/ \E authority \in Authorities : EscrowCall(authority, a)

Spec == Init /\ [][Next]_vars

(***************************************************************************)
(*                               Properties                                *)
(***************************************************************************)

RegistryConfig ==
  [operator: Keys, dag_escrow_authority: Authorities, slash_bps: 0..BPS,
   cooldown_slots: Nat, max_slash_bps: 0..BPS, pending_operator: Keys \cup {Nobody}]
AgentStake ==
  [registered: BOOLEAN, stake_mint: Mints \cup {Nobody}, stake_amount: Amounts,
   tier: 0..3, open_jobs: 0..MaxJobs, total_settled: 0..MaxJobs,
   total_slashed: 0..MaxJobs, unstake_requested_at: 0..MaxSlot]

\* Every account holds values of its type.
TypeOK ==
  /\ slot \in 1..MaxSlot
  /\ registry_config \in RegistryConfig
  /\ agent_stake \in [Agents -> AgentStake]
  /\ stake_vault \in [Agents -> Nat]
  /\ foreign_vault \in [Agents -> Nat]
  /\ agent_wallet \in [Agents -> Nat]
  /\ slash_proceeds \in [Consumers -> Nat]

\* What the AgentStake account says was deposited, in the stake's mint or another.
Deposited(a) == stake_vault[a] + foreign_vault[a]

\* The vaults hold what the AgentStake account says, and every token an agent
\* owned is in its wallet, its vault or with a consumer it failed.
StakeIsThere ==
  /\ \A a \in Agents : agent_stake[a].stake_amount = Deposited(a)
  /\ Total(agent_wallet, Agents) + Total(stake_vault, Agents)
       + Total(slash_proceeds, Consumers) = Cardinality(Agents) * StakeBudget

\* The tier claim_node trusts is backed by tokens: deposits, slashes (rounded down,
\* clamped) and the full withdrawal write vault, account and tier so that they
\* agree, whichever came last, and only what add_stake was told to take in another
\* mint stands between the account and the vault.
VaultBacksStake ==
  /\ StakeIsThere
  /\ \A a \in Agents : agent_stake[a].tier = TierForLenient(Deposited(a))

\* While an agent has open jobs its stake shrinks only by the slash for a failed
\* job, within the operator's ceiling: an unstake asked for before it claimed
\* cannot be carried out under an open job.
StakeHeldWhileWorking ==
  [][\A a \in Agents :
       LET s == agent_stake[a] IN
       s.open_jobs > 0 /\ agent_stake'[a].stake_amount < s.stake_amount =>
         /\ agent_stake'[a].total_slashed = s.total_slashed + 1
         /\ (s.stake_amount - agent_stake'[a].stake_amount) * BPS
              <= s.stake_amount * registry_config.max_slash_bps]_vars

\* dag_escrow can report a failed job of a registered agent, whatever ceiling and
\* rate the operator set and whatever is left of the stake: the slash clamps and
\* rounds, it does not reject (lib.rs:239-241), unless the stake it is computed from
\* counts tokens of another mint.
FailureAlwaysReportable ==
  \A a \in Agents :
    agent_stake[a].registered /\ agent_stake[a].open_jobs > 0 =>
      \/ foreign_vault[a] > 0
      \/ MayFail(registry_config.dag_escrow_authority, a, agent_stake[a].stake_mint)
=============================================================================
