--------------------------- MODULE RegistryProofs ---------------------------
(***************************************************************************)
(* Theorems of BondedRegistry, for any agents, any stakes they can afford,  *)
(* any tiers and any rates the operators set.                               *)
(***************************************************************************)
EXTENDS BondedRegistry, TokenTheorems

(***************************************************************************)
(* Types                                                                    *)
(***************************************************************************)
LEMMA BPSType == BPS \in Nat
BY DEF BPS

LEMMA TierTyped == \A amount \in Nat : TierForLenient(amount) \in 0..3
BY BondedRegistryAssumption DEF TierForLenient

LEMMA NoStakeTyped == NoStake \in AgentStake /\ NoStake.stake_amount = 0 /\ NoStake.tier = 0
BY BondedRegistryAssumption, U64Assumption DEF NoStake, AgentStake, Amounts

\* Nothing staked, no tier: tier 1 has a positive minimum.
LEMMA NoStakeNoTier == TierForLenient(0) = 0
BY BondedRegistryAssumption DEF TierForLenient

LEMMA StakeFields ==
  ASSUME TypeOK, NEW a \in Agents
  PROVE  /\ agent_stake[a] \in AgentStake
         /\ agent_stake[a].stake_amount \in Amounts /\ agent_stake[a].stake_amount \in Nat
         /\ agent_stake[a].open_jobs \in Nat
         /\ agent_stake[a].total_settled \in Nat /\ agent_stake[a].total_slashed \in Nat
BY U64Assumption, BondedRegistryAssumption DEF TypeOK, AgentStake, Amounts

\* A slash takes no more than the stake, and no more than the operator's ceiling
\* of it.
LEMMA SlashBound ==
  ASSUME TypeOK, NEW a \in Agents, NEW rate \in 0..BPS
  PROVE  /\ SlashRate(rate) \in 0..BPS /\ SlashRate(rate) <= registry_config.max_slash_bps
         /\ SlashAmount(agent_stake[a], rate) \in 0..agent_stake[a].stake_amount
         /\ SlashAmount(agent_stake[a], rate) * BPS
              <= agent_stake[a].stake_amount * registry_config.max_slash_bps
<1>1. registry_config.max_slash_bps \in 0..BPS
  BY DEF TypeOK, RegistryConfig
<1>2. SlashRate(rate) \in 0..BPS /\ SlashRate(rate) <= registry_config.max_slash_bps
  BY <1>1, BPSType DEF SlashRate
<1>3. SlashAmount(agent_stake[a], rate) \in 0..agent_stake[a].stake_amount
  BY <1>2, StakeFields, ShareBound DEF SlashAmount
<1>4. SlashRate(rate) \in Nat /\ registry_config.max_slash_bps \in Nat
  BY <1>1, <1>2, BPSType
<1>5. SlashAmount(agent_stake[a], rate) * BPS
        <= agent_stake[a].stake_amount * registry_config.max_slash_bps
  BY <1>2, <1>4, StakeFields, ShareRoundsDown DEF SlashAmount
<1> QED
  BY <1>2, <1>3, <1>5

LEMMA InitTyped == Init => TypeOK
<1> SUFFICES ASSUME Init PROVE TypeOK
  OBVIOUS
<1>1. registry_config \in RegistryConfig
  <2>1. BPS \in 0..BPS /\ SlashBps \subseteq 0..BPS /\ CooldownSlots \subseteq Nat
    BY BondedRegistryAssumption, BPSType
  <2> QED
    BY <2>1 DEF Init, RegistryConfig
<1>2. agent_stake \in [Agents -> AgentStake]
  BY NoStakeTyped DEF Init
<1> QED
  BY <1>1, <1>2, BondedRegistryAssumption, U64Assumption DEF Init, TypeOK, Amounts

LEMMA OperatorStepTyped ==
  ASSUME TypeOK, OperatorStep
  PROVE  TypeOK'
<1>1. registry_config \in RegistryConfig
  BY DEF TypeOK
<1>2. PICK operator \in Keys :
        \/ \E authority \in Authorities : SetDagEscrowAuthority(operator, authority)
        \/ \E max_slash_bps \in MaxSlashBps : SetMaxSlashBps(operator, max_slash_bps)
        \/ \E key \in Successors : ProposeOperator(operator, key)
        \/ AcceptOperator(operator)
  BY DEF OperatorStep
<1>3. registry_config' \in RegistryConfig
  <2>1. CASE \E authority \in Authorities : SetDagEscrowAuthority(operator, authority)
    BY <1>1, <2>1 DEF SetDagEscrowAuthority, RegistryConfig
  <2>2. CASE \E max_slash_bps \in MaxSlashBps : SetMaxSlashBps(operator, max_slash_bps)
    <3>1. PICK max_slash_bps \in MaxSlashBps : SetMaxSlashBps(operator, max_slash_bps)
      BY <2>2
    <3>2. max_slash_bps \in 0..BPS
      BY <3>1, BondedRegistryAssumption, BPSType DEF SetMaxSlashBps
    <3> QED
      BY <1>1, <3>1, <3>2 DEF SetMaxSlashBps, RegistryConfig
  <2>3. CASE \E key \in Successors : ProposeOperator(operator, key)
    BY <1>1, <2>3, BondedRegistryAssumption DEF ProposeOperator, RegistryConfig
  <2>4. CASE AcceptOperator(operator)
    BY <1>1, <2>4 DEF AcceptOperator, RegistryConfig
  <2> QED
    BY <1>2, <2>1, <2>2, <2>3, <2>4
<1>4. ConfigUnchangedElse
  BY <1>2 DEF SetDagEscrowAuthority, SetMaxSlashBps, ProposeOperator, AcceptOperator
<1> QED
  BY <1>3, <1>4 DEF TypeOK, ConfigUnchangedElse

(***************************************************************************)
(* What each instruction makes of the AgentStake account                    *)
(***************************************************************************)
\* The account a becomes s.
Becomes(a, s) == agent_stake' = [agent_stake EXCEPT ![a] = s]

LEMMA StakeAndRegisterEffect ==
  ASSUME TypeOK, NEW a \in Agents, NEW mint \in Mints, NEW amount \in StakeAmounts,
         StakeAndRegister(a, mint, amount)
  PROVE  \E s \in AgentStake :
           /\ Becomes(a, s) /\ s.registered /\ s.open_jobs = 0
           /\ s.stake_amount = amount /\ s.tier = TierForLenient(amount)
<1> DEFINE s == [NoStake EXCEPT !.registered = TRUE, !.stake_mint = mint,
                   !.stake_amount = amount, !.tier = TierForLenient(amount)]
<1>1. amount \in Amounts /\ amount \in Nat
  BY BondedRegistryAssumption, U64Assumption DEF Amounts
<1>2. TierForLenient(amount) \in 0..3
  BY <1>1, TierTyped
<1>3. /\ s \in AgentStake /\ s.registered /\ s.open_jobs = 0
      /\ s.stake_amount = amount /\ s.tier = TierForLenient(amount)
  <2> DEFINE tier == TierForLenient(amount)
  <2> HIDE DEF tier
  <2>1. LET t == [NoStake EXCEPT !.registered = TRUE, !.stake_mint = mint,
                    !.stake_amount = amount, !.tier = tier] IN
        /\ t \in AgentStake /\ t.registered /\ t.open_jobs = 0
        /\ t.stake_amount = amount /\ t.tier = tier
    <3>1. tier \in 0..3
      BY <1>2 DEF tier
    <3> QED
      BY <1>1, <3>1, NoStakeTyped DEF NoStake, AgentStake
  <2> QED
    BY <2>1 DEF tier
<1>4. Becomes(a, s)
  BY DEF StakeAndRegister, Becomes
<1> HIDE DEF s
<1> QED
  BY <1>3, <1>4

LEMMA AddStakeEffect ==
  ASSUME TypeOK, NEW a \in Agents, NEW mint, NEW amount \in StakeAmounts, AddStake(a, mint, amount)
  PROVE  LET total == agent_stake[a].stake_amount + amount IN
         \E s \in AgentStake :
           /\ Becomes(a, s) /\ s.registered
           /\ s.stake_amount = total /\ s.tier = TierForLenient(total)
<1> DEFINE total == agent_stake[a].stake_amount + amount
           tier == TierForLenient(total)
           s == [agent_stake[a] EXCEPT !.stake_amount = total, !.tier = tier]
<1>1. amount \in Nat
  BY BondedRegistryAssumption, U64Assumption DEF Amounts
<1>2. total \in Amounts /\ total \in Nat
  BY <1>1, StakeFields, U64Assumption DEF AddStake, Amounts
<1>3. tier \in 0..3
  BY <1>2, TierTyped
<1>4. agent_stake[a].registered
  BY DEF AddStake
<1>5. agent_stake' = [agent_stake EXCEPT ![a].stake_amount = total, ![a].tier = tier]
  BY DEF AddStake
<1> HIDE DEF total, tier
<1>6. /\ s \in AgentStake /\ s.registered /\ s.stake_amount = total /\ s.tier = tier
  BY <1>2, <1>3, <1>4, StakeFields DEF AgentStake
<1>7. Becomes(a, s)
  BY <1>5 DEF Becomes, TypeOK
<1> HIDE DEF s
<1>8. \E t \in AgentStake : /\ Becomes(a, t) /\ t.registered
                            /\ t.stake_amount = total /\ t.tier = tier
  BY <1>6, <1>7
<1> QED
  BY <1>8 DEF total, tier

\* The account keeps its stake, its tier and its registration.
KeepsStake(a, s) ==
  /\ Becomes(a, s)
  /\ s.registered = agent_stake[a].registered
  /\ s.stake_amount = agent_stake[a].stake_amount /\ s.tier = agent_stake[a].tier

LEMMA RequestUnstakeEffect ==
  ASSUME TypeOK, NEW a \in Agents, RequestUnstake(a)
  PROVE  \E s \in AgentStake : KeepsStake(a, s)
<1> DEFINE s == [agent_stake[a] EXCEPT !.unstake_requested_at = slot]
<1>1. slot \in 0..MaxSlot
  BY BondedRegistryAssumption DEF TypeOK
<1>2. /\ s \in AgentStake /\ s.registered = agent_stake[a].registered
      /\ s.stake_amount = agent_stake[a].stake_amount /\ s.tier = agent_stake[a].tier
  BY <1>1, StakeFields DEF AgentStake
<1>3. Becomes(a, s)
  BY DEF RequestUnstake, Becomes, TypeOK
<1> HIDE DEF s
<1> QED
  BY <1>2, <1>3 DEF KeepsStake

LEMMA ExecuteUnstakeEffect ==
  ASSUME TypeOK, NEW a \in Agents, ExecuteUnstake(a)
  PROVE  \E s \in AgentStake :
           /\ Becomes(a, s) /\ s.registered /\ s.stake_amount = 0 /\ s.tier = 0
<1> DEFINE s == [agent_stake[a] EXCEPT !.stake_amount = 0, !.tier = 0,
                                       !.unstake_requested_at = 0]
<1>1. 0 \in Amounts /\ 0 \in 0..MaxSlot /\ 0 \in 0..3
  BY U64Assumption, BondedRegistryAssumption DEF Amounts
<1>2. agent_stake[a].registered
  BY DEF ExecuteUnstake
<1>3. s \in AgentStake /\ s.registered /\ s.stake_amount = 0 /\ s.tier = 0
  BY <1>1, <1>2, StakeFields DEF AgentStake
<1>4. Becomes(a, s)
  BY DEF ExecuteUnstake, Becomes, TypeOK
<1> HIDE DEF s
<1> QED
  BY <1>3, <1>4

LEMMA IncrementOpenJobsEffect ==
  ASSUME TypeOK, NEW a \in Agents, NEW authority, IncrementOpenJobs(authority, a)
  PROVE  \E s \in AgentStake : KeepsStake(a, s)
<1> DEFINE open == agent_stake[a].open_jobs + 1
           s == [agent_stake[a] EXCEPT !.open_jobs = open]
<1>1. open \in 0..MaxJobs
  BY StakeFields, BondedRegistryAssumption DEF IncrementOpenJobs
<1>2. agent_stake' = [agent_stake EXCEPT ![a].open_jobs = open]
  BY DEF IncrementOpenJobs
<1> HIDE DEF open
<1>3. /\ s \in AgentStake /\ s.registered = agent_stake[a].registered
      /\ s.stake_amount = agent_stake[a].stake_amount /\ s.tier = agent_stake[a].tier
  BY <1>1, StakeFields DEF AgentStake
<1>4. Becomes(a, s)
  BY <1>2 DEF Becomes, TypeOK
<1> HIDE DEF s
<1> QED
  BY <1>3, <1>4 DEF KeepsStake

\* Ending a job touches the counters only.
LEMMA DecrementedFields ==
  ASSUME NEW s \in AgentStake, NEW settled \in BOOLEAN,
         settled => s.total_settled + s.total_slashed < MaxJobs
  PROVE  LET t == Decremented(s, settled) IN
         /\ t \in AgentStake
         /\ t.registered = s.registered /\ t.stake_amount = s.stake_amount
         /\ t.tier = s.tier /\ t.total_slashed = s.total_slashed
         /\ ~settled => t.total_settled = s.total_settled
<1> DEFINE open == IF s.open_jobs = 0 THEN 0 ELSE s.open_jobs - 1
           total == IF settled THEN s.total_settled + 1 ELSE s.total_settled
           t == [s EXCEPT !.open_jobs = open, !.total_settled = total]
<1>1. /\ s.open_jobs \in 0..MaxJobs /\ s.total_settled \in 0..MaxJobs
      /\ s.total_slashed \in 0..MaxJobs /\ MaxJobs \in Nat
  BY BondedRegistryAssumption DEF AgentStake
<1>2. open \in 0..MaxJobs /\ total \in 0..MaxJobs
  BY <1>1
<1>3. Decremented(s, settled) = t
  BY DEF Decremented, AgentStake
<1>4. ~settled => total = s.total_settled
  OBVIOUS
<1> HIDE DEF open, total
<1>5. /\ t \in AgentStake
      /\ t.registered = s.registered /\ t.stake_amount = s.stake_amount
      /\ t.tier = s.tier /\ t.total_slashed = s.total_slashed
      /\ t.total_settled = total
  BY <1>2 DEF AgentStake
<1> QED
  BY <1>3, <1>4, <1>5

LEMMA SettleJobEffect ==
  ASSUME TypeOK, NEW a \in Agents, NEW authority, SettleJob(authority, a)
  PROVE  \E s \in AgentStake : KeepsStake(a, s)
<1> DEFINE s == Decremented(agent_stake[a], TRUE)
<1>1. agent_stake[a].total_settled + agent_stake[a].total_slashed < MaxJobs
  BY DEF SettleJob
<1>2. /\ s \in AgentStake /\ s.registered = agent_stake[a].registered
      /\ s.stake_amount = agent_stake[a].stake_amount /\ s.tier = agent_stake[a].tier
  BY <1>1, StakeFields, DecrementedFields
<1>3. Becomes(a, s)
  BY DEF SettleJob, Becomes
<1> HIDE DEF s
<1> QED
  BY <1>2, <1>3 DEF KeepsStake

LEMMA SlashedFields ==
  ASSUME NEW t \in AgentStake, NEW amount \in 0..t.stake_amount, t.total_slashed < MaxJobs
  PROVE  LET s == Slashed(t, amount) IN
         /\ s \in AgentStake /\ s.registered = t.registered
         /\ s.stake_amount = t.stake_amount - amount
         /\ s.tier = TierForLenient(t.stake_amount - amount)
         /\ s.total_slashed = t.total_slashed + 1
<1> DEFINE left == t.stake_amount - amount
           slashed == t.total_slashed + 1
           tier == TierForLenient(left)
           s == [t EXCEPT !.stake_amount = left, !.tier = tier, !.total_slashed = slashed]
<1>1. t.stake_amount \in 0..U64_MAX /\ t.total_slashed \in 0..MaxJobs /\ MaxJobs \in Nat
  BY BondedRegistryAssumption DEF AgentStake, Amounts
<1>2. left \in 0..U64_MAX /\ left \in Nat /\ slashed \in 0..MaxJobs
  BY <1>1, U64Assumption
<1>3. tier \in 0..3
  BY <1>2, TierTyped
<1>4. Slashed(t, amount) = s
  BY DEF Slashed, AgentStake
<1> HIDE DEF left, slashed, tier
<1>5. /\ s \in AgentStake /\ s.registered = t.registered
      /\ s.stake_amount = left /\ s.tier = tier /\ s.total_slashed = slashed
  BY <1>2, <1>3 DEF AgentStake, Amounts
<1> QED
  BY <1>4, <1>5 DEF left, slashed, tier

LEMMA FailJobEffect ==
  ASSUME TypeOK, NEW a \in Agents, NEW authority, NEW mint, NEW consumer,
         FailJob(authority, a, mint, consumer)
  PROVE  LET amount == SlashAmount(agent_stake[a], registry_config.slash_bps)
             left == agent_stake[a].stake_amount - amount
         IN
         /\ amount \in 0..agent_stake[a].stake_amount
         /\ amount * BPS <= agent_stake[a].stake_amount * registry_config.max_slash_bps
         /\ \E s \in AgentStake :
              /\ Becomes(a, s) /\ s.registered
              /\ s.stake_amount = left /\ s.tier = TierForLenient(left)
              /\ s.total_slashed = agent_stake[a].total_slashed + 1
<1> DEFINE amount == SlashAmount(agent_stake[a], registry_config.slash_bps)
           t == Decremented(agent_stake[a], FALSE)
           s == Slashed(t, amount)
<1>1. registry_config.slash_bps \in 0..BPS
  BY DEF TypeOK, RegistryConfig
<1>2. /\ amount \in 0..agent_stake[a].stake_amount
      /\ amount * BPS <= agent_stake[a].stake_amount * registry_config.max_slash_bps
  BY <1>1, SlashBound
<1>3. /\ t \in AgentStake /\ t.registered = agent_stake[a].registered
      /\ t.stake_amount = agent_stake[a].stake_amount
      /\ t.total_slashed = agent_stake[a].total_slashed
  BY StakeFields, DecrementedFields
<1>4. agent_stake[a].total_slashed < MaxJobs /\ agent_stake[a].registered
  BY StakeFields, BondedRegistryAssumption DEF FailJob, MayFail
<1>5. Becomes(a, s)
  BY DEF FailJob, Becomes
<1> HIDE DEF amount, t
<1>6. /\ s \in AgentStake /\ s.registered = t.registered
      /\ s.stake_amount = t.stake_amount - amount
      /\ s.tier = TierForLenient(t.stake_amount - amount)
      /\ s.total_slashed = t.total_slashed + 1
  BY <1>2, <1>3, <1>4, SlashedFields
<1> HIDE DEF s
<1>7. \E r \in AgentStake :
        /\ Becomes(a, r) /\ r.registered
        /\ r.stake_amount = agent_stake[a].stake_amount - amount
        /\ r.tier = TierForLenient(agent_stake[a].stake_amount - amount)
        /\ r.total_slashed = agent_stake[a].total_slashed + 1
  BY <1>3, <1>4, <1>5, <1>6
<1> QED
  BY <1>2, <1>7 DEF amount

(***************************************************************************)
(* The invariant.  VaultBacksStake alone is not inductive: registering puts *)
(* the first stake into a vault that must be empty, so an account that does *)
(* not exist has nothing deposited; and a deposit may not run past the   *)
(* end of u64, so no account holds more than all agents ever had.           *)
(***************************************************************************)
Agrees(s, held) ==
  /\ s.stake_amount = held /\ s.tier = TierForLenient(held)
  /\ ~s.registered => held = 0

\* What a deposited becomes held, and nobody else's deposit changes.
Moves(a, held) ==
  /\ Deposited(a)' = held
  /\ \A b \in Agents \ {a} : Deposited(b)' = Deposited(b)

StakesAgree == \A a \in Agents : Agrees(agent_stake[a], Deposited(a))

Supply == Cardinality(Agents) * StakeBudget

Balanced ==
  /\ agent_wallet \in [Agents -> Amounts]
  /\ stake_vault \in [Agents -> Amounts]
  /\ slash_proceeds \in [Consumers -> Amounts]
  /\ Total(agent_wallet, Agents) + Total(stake_vault, Agents)
       + Total(slash_proceeds, Consumers) = Supply

StakeInv == TypeOK /\ StakesAgree /\ Balanced

LEMMA StakeInvImplies == StakeInv => VaultBacksStake
BY DEF StakeInv, StakesAgree, Agrees, Balanced, Supply, VaultBacksStake, StakeIsThere

LEMMA TotalsTyped ==
  /\ Total(agent_wallet, Agents) \in Nat /\ Total(agent_wallet, Agents)' \in Nat
  /\ Total(stake_vault, Agents) \in Nat /\ Total(stake_vault, Agents)' \in Nat
  /\ Total(slash_proceeds, Consumers) \in Nat /\ Total(slash_proceeds, Consumers)' \in Nat
<1>1. IsFiniteSet(Agents) /\ IsFiniteSet(Consumers)
  BY StakeSupplyAssumption
<1>2. \A f : Total(f, Agents) \in Nat /\ Total(f, Consumers) \in Nat
  BY <1>1, TotalType
<1> QED
  BY <1>2

LEMMA InitStakes == Init => StakeInv
<1> SUFFICES ASSUME Init PROVE StakeInv
  OBVIOUS
<1>1. TypeOK
  BY InitTyped
<1>2. StakesAgree
  <2>1. Agrees(NoStake, 0)
    BY NoStakeTyped, NoStakeNoTier DEF Agrees
  <2>2. ASSUME NEW a \in Agents PROVE agent_stake[a] = NoStake /\ Deposited(a) = 0
    BY DEF Init, Deposited
  <2> QED
    BY <2>1, <2>2 DEF StakesAgree
<1>3. /\ agent_wallet \in [Agents -> Amounts] /\ stake_vault \in [Agents -> Amounts]
      /\ slash_proceeds \in [Consumers -> Amounts]
  BY BondedRegistryAssumption, U64Assumption DEF Init, Amounts
<1>4. Total(agent_wallet, Agents) = Cardinality(Agents) * StakeBudget
  BY StakeSupplyAssumption, BondedRegistryAssumption, TotalConstant DEF Init
<1>5. Total(stake_vault, Agents) = 0 /\ Total(slash_proceeds, Consumers) = 0
  BY StakeSupplyAssumption, TotalZero DEF Init
<1>6. Total(agent_wallet, Agents) \in Nat
  BY TotalsTyped
<1>7. Balanced
  BY <1>3, <1>4, <1>5, <1>6 DEF Balanced, Supply
<1> QED
  BY <1>1, <1>2, <1>7 DEF StakeInv

(***************************************************************************)
(* Three ways tokens move                                                   *)
(***************************************************************************)
LEMMA SupplyBound ==
  ASSUME Balanced
  PROVE  /\ Total(agent_wallet, Agents) + Total(stake_vault, Agents) <= U64_MAX
         /\ Total(stake_vault, Agents) + Total(agent_wallet, Agents) <= U64_MAX
         /\ Total(stake_vault, Agents) + Total(slash_proceeds, Consumers) <= U64_MAX
<1>1. Supply <= U64_MAX /\ U64_MAX \in Nat
  BY StakeSupplyAssumption, U64Assumption DEF Supply
<1>2. Total(agent_wallet, Agents) + Total(stake_vault, Agents)
       + Total(slash_proceeds, Consumers) = Supply
  BY DEF Balanced
<1> QED
  BY <1>1, <1>2, TotalsTyped

LEMMA DepositBalanced ==
  ASSUME Balanced, NEW a \in Agents, NEW amount \in Nat, Deposit(a, amount)
  PROVE  Balanced' /\ stake_vault' = [stake_vault EXCEPT ![a] = stake_vault[a] + amount]
<1> DEFINE wallet == agent_wallet'
           held == stake_vault'
<1>1. /\ agent_wallet[a] \in Amounts /\ stake_vault[a] \in Amounts
      /\ amount \in 0..agent_wallet[a]
  BY U64Assumption DEF Balanced, Deposit, Amounts
<1>2. /\ agent_wallet' = [agent_wallet EXCEPT ![a] = agent_wallet[a] - amount]
      /\ stake_vault' = [stake_vault EXCEPT ![a] = stake_vault[a] + amount]
      /\ slash_proceeds' = slash_proceeds
  BY DEF Deposit
<1>3. /\ wallet[a] = agent_wallet[a] - amount
      /\ held[a] = stake_vault[a] + amount
      /\ \A b \in Agents \ {a} : wallet[b] = agent_wallet[b]
      /\ \A b \in Agents \ {a} : held[b] = stake_vault[b]
  BY <1>2 DEF Balanced
<1> HIDE DEF wallet, held
<1>4. /\ wallet[a] \in Amounts /\ held[a] \in Amounts
      /\ Total(wallet, Agents) + Total(held, Agents) =
           Total(agent_wallet, Agents) + Total(stake_vault, Agents)
  <2>1. /\ Debited(agent_wallet, wallet, Agents, a, amount)
        /\ Credited(stake_vault, held, Agents, a, amount)
    BY <1>1, <1>3, StakeSupplyAssumption DEF Debited, Credited
  <2> QED
    BY <2>1, SupplyBound, TotalTransfer
<1>5. agent_wallet' \in [Agents -> Amounts] /\ stake_vault' \in [Agents -> Amounts]
  <2>1. agent_wallet[a] - amount \in Amounts /\ stake_vault[a] + amount \in Amounts
    BY <1>3, <1>4
  <2> QED
    BY <1>2, <2>1 DEF Balanced
<1>6. Total(agent_wallet, Agents)' + Total(stake_vault, Agents)' =
        Total(agent_wallet, Agents) + Total(stake_vault, Agents)
  BY <1>4 DEF wallet, held
<1>7. Total(slash_proceeds, Consumers)' = Total(slash_proceeds, Consumers)
  BY <1>2
<1> QED
  BY <1>2, <1>5, <1>6, <1>7 DEF Balanced, Supply

LEMMA VaultMoves ==
  ASSUME TypeOK, NEW a \in Agents, NEW held,
         stake_vault' = [stake_vault EXCEPT ![a] = held], foreign_vault' = foreign_vault
  PROVE  Moves(a, held + foreign_vault[a])
<1>1. stake_vault'[a] = held /\ \A b \in Agents \ {a} : stake_vault'[b] = stake_vault[b]
  BY DEF TypeOK
<1> QED
  BY <1>1 DEF Moves, Deposited

\* Tokens of another mint: none of the stake's own moves.
LEMMA ForeignBalanced ==
  ASSUME TypeOK, Balanced, NEW a \in Agents, NEW amount \in Nat, DepositForeign(a, amount)
  PROVE  /\ Balanced' /\ foreign_vault' \in [Agents -> Nat]
         /\ Moves(a, Deposited(a) + amount)
<1>1. foreign_vault' = [foreign_vault EXCEPT ![a] = foreign_vault[a] + amount]
  BY DEF DepositForeign
<1>2. UNCHANGED <<stake_vault, agent_wallet, slash_proceeds>>
  BY DEF DepositForeign
<1>3. Balanced'
  BY <1>2 DEF Balanced, Supply
<1>4. /\ foreign_vault'[a] = foreign_vault[a] + amount
      /\ \A b \in Agents \ {a} : foreign_vault'[b] = foreign_vault[b]
      /\ foreign_vault[a] \in Nat /\ stake_vault[a] \in Nat
  BY <1>1 DEF TypeOK
<1>5. foreign_vault' \in [Agents -> Nat]
  BY <1>1, <1>4 DEF TypeOK
<1>6. stake_vault[a] + (foreign_vault[a] + amount) = (stake_vault[a] + foreign_vault[a]) + amount
  BY <1>4
<1>7. Moves(a, Deposited(a) + amount)
  BY <1>2, <1>4, <1>6 DEF Moves, Deposited
<1> QED
  BY <1>3, <1>5, <1>7

\* A stake that can be withdrawn is all of the stake's own mint: the vault holds
\* as much as the account says was deposited.
LEMMA UnstakeBalanced ==
  ASSUME StakeInv, NEW a \in Agents, ExecuteUnstake(a)
  PROVE  Balanced' /\ Moves(a, 0)
<1> DEFINE amount == agent_stake[a].stake_amount
           wallet == agent_wallet'
           held == stake_vault'
<1>0. TypeOK /\ stake_vault[a] \in Nat /\ foreign_vault[a] \in Nat
  BY DEF StakeInv, TypeOK
<1>1. Balanced /\ amount = stake_vault[a] /\ foreign_vault[a] = 0
  <2>1. amount = stake_vault[a] + foreign_vault[a] /\ stake_vault[a] >= amount
    BY DEF StakeInv, StakesAgree, Agrees, Deposited, ExecuteUnstake
  <2> HIDE DEF amount
  <2> QED
    BY <1>0, <2>1 DEF StakeInv
<1>2. /\ agent_wallet[a] \in Amounts /\ stake_vault[a] \in Amounts
      /\ amount \in 0..stake_vault[a]
  BY <1>1, U64Assumption DEF Balanced, Amounts
<1>3. /\ agent_wallet' = [agent_wallet EXCEPT ![a] = agent_wallet[a] + amount]
      /\ stake_vault' = [stake_vault EXCEPT ![a] = stake_vault[a] - amount]
      /\ slash_proceeds' = slash_proceeds
  BY DEF ExecuteUnstake
<1>4. stake_vault[a] - amount = 0
  BY <1>1, <1>2, U64Assumption DEF Amounts
<1> HIDE DEF amount
<1>5. /\ held[a] = stake_vault[a] - amount
      /\ wallet[a] = agent_wallet[a] + amount
      /\ \A b \in Agents \ {a} : wallet[b] = agent_wallet[b]
      /\ \A b \in Agents \ {a} : held[b] = stake_vault[b]
  BY <1>1, <1>3 DEF Balanced
<1> HIDE DEF wallet, held
<1>6. /\ held[a] \in Amounts /\ wallet[a] \in Amounts
      /\ Total(held, Agents) + Total(wallet, Agents) =
           Total(stake_vault, Agents) + Total(agent_wallet, Agents)
  <2>1. /\ Debited(stake_vault, held, Agents, a, amount)
        /\ Credited(agent_wallet, wallet, Agents, a, amount)
    BY <1>2, <1>5, StakeSupplyAssumption DEF Debited, Credited
  <2> QED
    BY <1>1, <2>1, SupplyBound, TotalTransfer
<1>7. agent_wallet' \in [Agents -> Amounts] /\ stake_vault' \in [Agents -> Amounts]
  <2>1. agent_wallet[a] + amount \in Amounts /\ stake_vault[a] - amount \in Amounts
    BY <1>5, <1>6
  <2> QED
    BY <1>1, <1>3, <2>1 DEF Balanced
<1>8. Total(stake_vault, Agents)' + Total(agent_wallet, Agents)' =
        Total(stake_vault, Agents) + Total(agent_wallet, Agents)
  BY <1>6 DEF wallet, held
<1>9. Total(slash_proceeds, Consumers)' = Total(slash_proceeds, Consumers)
  BY <1>3
<1>10. Balanced'
  BY <1>1, <1>3, <1>7, <1>8, <1>9, TotalsTyped DEF Balanced, Supply
<1>11. stake_vault' = [stake_vault EXCEPT ![a] = 0] /\ foreign_vault' = foreign_vault
  BY <1>3, <1>4 DEF ExecuteUnstake
<1>12. Moves(a, 0 + foreign_vault[a])
  BY <1>0, <1>11, VaultMoves
<1>13. 0 + foreign_vault[a] = 0
  BY <1>1
<1> QED
  BY <1>10, <1>12, <1>13

LEMMA SlashBalanced ==
  ASSUME StakeInv, NEW a \in Agents, NEW authority, NEW mint, NEW consumer \in Consumers,
         FailJob(authority, a, mint, consumer)
  PROVE  LET amount == SlashAmount(agent_stake[a], registry_config.slash_bps) IN
         Balanced' /\ Moves(a, agent_stake[a].stake_amount - amount)
<1> DEFINE amount == SlashAmount(agent_stake[a], registry_config.slash_bps)
           proceeds == slash_proceeds'
           held == stake_vault'
<1>1. /\ Balanced /\ TypeOK
      /\ agent_stake[a].stake_amount = stake_vault[a] + foreign_vault[a]
      /\ stake_vault[a] \in Nat /\ foreign_vault[a] \in Nat
  BY DEF StakeInv, StakesAgree, Agrees, Deposited, TypeOK
<1>2. /\ slash_proceeds[consumer] \in Amounts /\ stake_vault[a] \in Amounts
      /\ amount \in 0..stake_vault[a]
  <2>1. amount \in 0..agent_stake[a].stake_amount /\ agent_stake[a].stake_amount \in Nat
    BY <1>1, FailJobEffect, StakeFields
  <2>2. stake_vault[a] >= amount
    BY DEF FailJob, MayFail
  <2> HIDE DEF amount
  <2> QED
    BY <1>1, <2>1, <2>2 DEF Balanced
<1>3. /\ slash_proceeds' = [slash_proceeds EXCEPT ![consumer] = slash_proceeds[consumer] + amount]
      /\ stake_vault' = [stake_vault EXCEPT ![a] = stake_vault[a] - amount]
      /\ agent_wallet' = agent_wallet
  BY DEF FailJob
<1> HIDE DEF amount
<1>4. /\ held[a] = stake_vault[a] - amount
      /\ \A b \in Agents \ {a} : held[b] = stake_vault[b]
      /\ proceeds[consumer] = slash_proceeds[consumer] + amount
      /\ \A c \in Consumers \ {consumer} : proceeds[c] = slash_proceeds[c]
  BY <1>1, <1>3 DEF Balanced
<1> HIDE DEF proceeds, held
<1>5. /\ held[a] \in Amounts /\ proceeds[consumer] \in Amounts
      /\ Total(held, Agents) + Total(proceeds, Consumers) =
           Total(stake_vault, Agents) + Total(slash_proceeds, Consumers)
  <2>1. /\ Debited(stake_vault, held, Agents, a, amount)
        /\ Credited(slash_proceeds, proceeds, Consumers, consumer, amount)
    BY <1>2, <1>4, StakeSupplyAssumption DEF Debited, Credited
  <2> QED
    BY <1>1, <2>1, SupplyBound, TotalTransfer
<1>6. slash_proceeds' \in [Consumers -> Amounts] /\ stake_vault' \in [Agents -> Amounts]
  <2>1. slash_proceeds[consumer] + amount \in Amounts /\ stake_vault[a] - amount \in Amounts
    BY <1>4, <1>5
  <2> QED
    BY <1>1, <1>3, <2>1 DEF Balanced
<1>7. Total(stake_vault, Agents)' + Total(slash_proceeds, Consumers)' =
        Total(stake_vault, Agents) + Total(slash_proceeds, Consumers)
  BY <1>5 DEF proceeds, held
<1>8. Total(agent_wallet, Agents)' = Total(agent_wallet, Agents)
  BY <1>3
<1>9. Balanced'
  BY <1>1, <1>3, <1>6, <1>7, <1>8, TotalsTyped DEF Balanced, Supply
<1>10. Moves(a, agent_stake[a].stake_amount - amount)
  <2>1. foreign_vault' = foreign_vault
    BY DEF FailJob
  <2>2. Moves(a, (stake_vault[a] - amount) + foreign_vault[a])
    BY <1>1, <1>3, <2>1, VaultMoves
  <2>3. (stake_vault[a] - amount) + foreign_vault[a] = agent_stake[a].stake_amount - amount
    BY <1>1, <1>2
  <2> QED
    BY <2>2, <2>3
<1> QED
  BY <1>9, <1>10 DEF amount

(***************************************************************************)
(* Every instruction keeps the invariant                                    *)
(***************************************************************************)
LEMMA StakeChanged ==
  ASSUME StakeInv, NEW a \in Agents, NEW s \in AgentStake, NEW held, Becomes(a, s),
         foreign_vault' \in [Agents -> Nat], Moves(a, held), Agrees(s, held), Balanced',
         UNCHANGED <<slot, registry_config>>
  PROVE  StakeInv'
<1>1. TypeOK /\ StakesAgree
  BY DEF StakeInv
<1>2. StakesAgree'
  <2> SUFFICES ASSUME NEW b \in Agents PROVE Agrees(agent_stake'[b], Deposited(b)')
    BY DEF StakesAgree, Agrees
  <2>1. CASE b = a
    BY <1>1, <2>1 DEF Becomes, TypeOK, Moves
  <2>2. CASE b # a
    <3>1. agent_stake'[b] = agent_stake[b] /\ Deposited(b)' = Deposited(b)
      BY <1>1, <2>2 DEF Becomes, TypeOK, Moves
    <3> QED
      BY <1>1, <3>1 DEF StakesAgree
  <2> QED
    BY <2>1, <2>2
<1>3. agent_stake' \in [Agents -> AgentStake]
  BY <1>1 DEF Becomes, TypeOK
<1>4. /\ stake_vault' \in [Agents -> Nat] /\ agent_wallet' \in [Agents -> Nat]
      /\ slash_proceeds' \in [Consumers -> Nat]
  BY U64Assumption DEF Balanced, Amounts
<1>5. TypeOK'
  BY <1>1, <1>3, <1>4 DEF TypeOK
<1> QED
  BY <1>2, <1>5 DEF StakeInv

\* Instructions that leave the tokens alone.
LEMMA StakeKept ==
  ASSUME StakeInv, NEW a \in Agents, NEW s \in AgentStake, KeepsStake(a, s),
         UNCHANGED <<slot, registry_config, stake_vault, foreign_vault, agent_wallet,
                     slash_proceeds>>
  PROVE  StakeInv'
<1>1. Agrees(s, Deposited(a))
  BY DEF StakeInv, StakesAgree, Agrees, KeepsStake
<1>2. Moves(a, Deposited(a)) /\ foreign_vault' \in [Agents -> Nat]
  BY DEF Moves, Deposited, StakeInv, TypeOK
<1>3. Balanced'
  BY DEF StakeInv, Balanced, Supply
<1> QED
  BY <1>1, <1>2, <1>3, StakeChanged DEF KeepsStake

LEMMA SameStakes ==
  ASSUME StakeInv, TypeOK',
         UNCHANGED <<agent_stake, stake_vault, foreign_vault, agent_wallet, slash_proceeds>>
  PROVE  StakeInv'
<1>1. StakesAgree' /\ Balanced'
  BY DEF StakeInv, StakesAgree, Agrees, Deposited, Balanced, Supply
<1> QED
  BY <1>1 DEF StakeInv

LEMMA AgentStepStakes ==
  ASSUME StakeInv, NEW a \in Agents, AgentStep(a)
  PROVE  StakeInv'
<1>1. /\ TypeOK /\ Balanced /\ Agrees(agent_stake[a], Deposited(a))
      /\ stake_vault[a] \in Nat /\ foreign_vault[a] \in Nat
  BY DEF StakeInv, StakesAgree, TypeOK
<1>2. \A amount \in StakeAmounts : amount \in Nat
  BY BondedRegistryAssumption, U64Assumption DEF Amounts
<1>3. ASSUME NEW mint \in Mints, NEW amount \in StakeAmounts, StakeAndRegister(a, mint, amount)
      PROVE  StakeInv'
  <2>1. PICK s \in AgentStake :
          /\ Becomes(a, s) /\ s.registered /\ s.open_jobs = 0
          /\ s.stake_amount = amount /\ s.tier = TierForLenient(amount)
    BY <1>1, <1>3, StakeAndRegisterEffect
  <2>2. Deposit(a, amount) /\ stake_vault[a] = 0 /\ foreign_vault[a] = 0
    BY <1>1, <1>3 DEF StakeAndRegister, Agrees, Deposited
  <2>3. Balanced' /\ Moves(a, amount)
    <3>1. (stake_vault[a] + amount) + foreign_vault[a] = amount
      BY <1>2, <2>2
    <3>2. Balanced' /\ stake_vault' = [stake_vault EXCEPT ![a] = stake_vault[a] + amount]
      BY <1>1, <1>2, <2>2, DepositBalanced
    <3>3. foreign_vault' = foreign_vault
      BY <2>2 DEF Deposit
    <3>4. Moves(a, (stake_vault[a] + amount) + foreign_vault[a])
      BY <1>1, <3>2, <3>3, VaultMoves
    <3> QED
      BY <3>1, <3>2, <3>4
  <2>4. /\ Agrees(s, amount) /\ UNCHANGED <<slot, registry_config>>
        /\ foreign_vault' \in [Agents -> Nat]
    BY <1>1, <2>1, <2>2 DEF Agrees, Deposit, TypeOK
  <2> QED
    BY <2>1, <2>3, <2>4, StakeChanged
<1>4. ASSUME NEW mint, NEW amount \in StakeAmounts, AddStake(a, mint, amount)
      PROVE  StakeInv'
  <2> DEFINE total == agent_stake[a].stake_amount + amount
  <2>1. PICK s \in AgentStake :
          /\ Becomes(a, s) /\ s.registered
          /\ s.stake_amount = total /\ s.tier = TierForLenient(total)
    BY <1>1, <1>4, AddStakeEffect
  <2>2. total = Deposited(a) + amount
    BY <1>1 DEF Agrees
  <2> HIDE DEF total
  <2>3. /\ Balanced' /\ Moves(a, total) /\ foreign_vault' \in [Agents -> Nat]
        /\ UNCHANGED <<slot, registry_config>>
    <3>1. CASE Deposit(a, amount)
      <4>1. Balanced' /\ stake_vault' = [stake_vault EXCEPT ![a] = stake_vault[a] + amount]
        BY <1>1, <1>2, <3>1, DepositBalanced
      <4>2. foreign_vault' = foreign_vault /\ UNCHANGED <<slot, registry_config>>
        BY <3>1 DEF Deposit
      <4>3. Moves(a, (stake_vault[a] + amount) + foreign_vault[a])
        BY <1>1, <4>1, <4>2, VaultMoves
      <4>4. (stake_vault[a] + amount) + foreign_vault[a] = total
        BY <1>1, <1>2, <2>2 DEF Deposited
      <4> QED
        BY <1>1, <4>1, <4>2, <4>3, <4>4 DEF TypeOK
    <3>2. CASE DepositForeign(a, amount)
      <4>1. UNCHANGED <<slot, registry_config>>
        BY <3>2 DEF DepositForeign
      <4> QED
        BY <1>1, <1>2, <2>2, <3>2, <4>1, ForeignBalanced
    <3> QED
      BY <1>4, <3>1, <3>2 DEF AddStake
  <2>4. Agrees(s, total)
    BY <2>1 DEF Agrees
  <2> QED
    BY <2>1, <2>3, <2>4, StakeChanged
<1>5. CASE RequestUnstake(a)
  <2>1. PICK s \in AgentStake : KeepsStake(a, s)
    BY <1>1, <1>5, RequestUnstakeEffect
  <2> QED
    BY <1>5, <2>1, StakeKept DEF RequestUnstake
<1>6. CASE ExecuteUnstake(a)
  <2>1. PICK s \in AgentStake :
          Becomes(a, s) /\ s.registered /\ s.stake_amount = 0 /\ s.tier = 0
    BY <1>1, <1>6, ExecuteUnstakeEffect
  <2>2. Balanced' /\ Moves(a, 0)
    BY <1>6, UnstakeBalanced
  <2>3. /\ Agrees(s, 0) /\ UNCHANGED <<slot, registry_config>>
        /\ foreign_vault' \in [Agents -> Nat]
    BY <1>1, <1>6, <2>1, NoStakeNoTier DEF Agrees, ExecuteUnstake, TypeOK
  <2> QED
    BY <2>1, <2>2, <2>3, StakeChanged
<1> QED
  BY <1>3, <1>4, <1>5, <1>6 DEF AgentStep

LEMMA EscrowCallStakes ==
  ASSUME StakeInv, NEW a \in Agents, NEW authority, EscrowCall(authority, a)
  PROVE  StakeInv'
<1>1. TypeOK
  BY DEF StakeInv
<1>2. CASE IncrementOpenJobs(authority, a)
  <2>1. PICK s \in AgentStake : KeepsStake(a, s)
    BY <1>1, <1>2, IncrementOpenJobsEffect
  <2> QED
    BY <1>2, <2>1, StakeKept DEF IncrementOpenJobs
<1>3. CASE SettleJob(authority, a)
  <2>1. PICK s \in AgentStake : KeepsStake(a, s)
    BY <1>1, <1>3, SettleJobEffect
  <2> QED
    BY <1>3, <2>1, StakeKept DEF SettleJob
<1>4. ASSUME NEW mint \in Mints, NEW consumer \in Consumers,
             FailJob(authority, a, mint, consumer)
      PROVE  StakeInv'
  <2> DEFINE left == agent_stake[a].stake_amount
                       - SlashAmount(agent_stake[a], registry_config.slash_bps)
  <2>1. PICK s \in AgentStake :
          Becomes(a, s) /\ s.registered /\ s.stake_amount = left /\ s.tier = TierForLenient(left)
    BY <1>1, <1>4, FailJobEffect
  <2>2. Balanced' /\ Moves(a, left)
    BY <1>4, SlashBalanced
  <2> HIDE DEF left
  <2>3. /\ Agrees(s, left) /\ UNCHANGED <<slot, registry_config>>
        /\ foreign_vault' \in [Agents -> Nat]
    BY <1>1, <1>4, <2>1 DEF Agrees, FailJob, TypeOK
  <2> QED
    BY <2>1, <2>2, <2>3, StakeChanged
<1> QED
  BY <1>2, <1>3, <1>4 DEF EscrowCall

LEMMA StakePreserved == StakeInv /\ [Next]_vars => StakeInv'
<1> SUFFICES ASSUME StakeInv, [Next]_vars PROVE StakeInv'
  OBVIOUS
<1>1. TypeOK
  BY DEF StakeInv
<1>2. CASE Tick
  <2>1. slot + 1 \in 1..MaxSlot
    BY <1>1, <1>2, BondedRegistryAssumption DEF Tick, TypeOK
  <2>2. TypeOK'
    BY <1>1, <1>2, <2>1 DEF Tick, brvars, TypeOK
  <2> QED
    BY <1>2, <2>2, SameStakes DEF Tick, brvars
<1>3. CASE OperatorStep
  <2>1. TypeOK'
    BY <1>1, <1>3, OperatorStepTyped
  <2>2. ConfigUnchangedElse
    BY <1>3 DEF OperatorStep, SetDagEscrowAuthority, SetMaxSlashBps, ProposeOperator,
                AcceptOperator
  <2> QED
    BY <2>1, <2>2, SameStakes DEF ConfigUnchangedElse
<1>4. CASE UNCHANGED vars
  <2>1. TypeOK'
    BY <1>1, <1>4 DEF vars, brvars, TypeOK
  <2> QED
    BY <1>4, <2>1, SameStakes DEF vars, brvars
<1> QED
  BY <1>2, <1>3, <1>4, AgentStepStakes, EscrowCallStakes DEF Next

\* Every account of the registry holds values of its type.
THEOREM RegistryTyped == Spec => []TypeOK
<1>1. StakeInv => TypeOK
  BY DEF StakeInv
<1> QED
  BY <1>1, InitStakes, StakePreserved, PTL DEF Spec

\* The stake an AgentStake account shows is what was deposited, in the stake's own
\* vault or beside it in whatever mint add_stake was given; the tier is the one that
\* amount earns; and no token of the stake's mint is lost between wallets, vaults and
\* the consumers of failed jobs, whichever order deposits, slashes and withdrawals
\* come in.
THEOREM StakeBacked == Spec => []VaultBacksStake
BY InitStakes, StakePreserved, StakeInvImplies, PTL DEF Spec

(***************************************************************************)
(* What may shrink a stake                                                  *)
(***************************************************************************)
StakeHeld(a) ==
  LET s == agent_stake[a] IN
  s.open_jobs > 0 /\ agent_stake'[a].stake_amount < s.stake_amount =>
    /\ agent_stake'[a].total_slashed = s.total_slashed + 1
    /\ (s.stake_amount - agent_stake'[a].stake_amount) * BPS
         <= s.stake_amount * registry_config.max_slash_bps

LEMMA NotLessHeld ==
  ASSUME TypeOK, NEW a \in Agents,
         agent_stake'[a].stake_amount \in Nat,
         agent_stake'[a].stake_amount >= agent_stake[a].stake_amount
  PROVE  StakeHeld(a)
BY StakeFields DEF StakeHeld

\* An instruction for a concerns no other agent.
LEMMA OthersHeld ==
  ASSUME TypeOK, NEW a \in Agents, NEW s, Becomes(a, s), NEW b \in Agents, b # a
  PROVE  StakeHeld(b)
<1>1. agent_stake'[b] = agent_stake[b]
  BY DEF Becomes, TypeOK
<1> QED
  BY <1>1, StakeFields DEF StakeHeld

LEMMA GrownHeld ==
  ASSUME TypeOK, NEW a \in Agents, NEW s, Becomes(a, s), s.stake_amount \in Nat,
         s.stake_amount >= agent_stake[a].stake_amount, NEW b \in Agents
  PROVE  StakeHeld(b)
<1>1. CASE b = a
  <2>1. agent_stake'[a] = s
    BY DEF Becomes, TypeOK
  <2> QED
    BY <1>1, <2>1, NotLessHeld
<1>2. CASE b # a
  BY <1>2, OthersHeld
<1> QED
  BY <1>1, <1>2

LEMMA KeptHeld ==
  ASSUME TypeOK, NEW a \in Agents, NEW s, KeepsStake(a, s), NEW b \in Agents
  PROVE  StakeHeld(b)
<1>1. /\ Becomes(a, s) /\ s.stake_amount \in Nat
      /\ s.stake_amount >= agent_stake[a].stake_amount
  BY StakeFields DEF KeepsStake
<1> QED
  BY <1>1, GrownHeld

LEMMA AgentStepHeld ==
  ASSUME StakeInv, NEW a \in Agents, AgentStep(a), NEW b \in Agents
  PROVE  StakeHeld(b)
<1>1. TypeOK /\ Agrees(agent_stake[a], Deposited(a))
  BY DEF StakeInv, StakesAgree
<1>2. \A amount \in StakeAmounts : amount \in Nat
  BY BondedRegistryAssumption, U64Assumption DEF Amounts
<1>3. ASSUME NEW mint \in Mints, NEW amount \in StakeAmounts, StakeAndRegister(a, mint, amount)
      PROVE  StakeHeld(b)
  <2>1. PICK s \in AgentStake : Becomes(a, s) /\ s.stake_amount = amount
    BY <1>1, <1>3, StakeAndRegisterEffect
  <2>2. agent_stake[a].stake_amount = 0
    BY <1>1, <1>3 DEF StakeAndRegister, Agrees
  <2>3. s.stake_amount \in Nat /\ s.stake_amount >= agent_stake[a].stake_amount
    BY <1>2, <2>1, <2>2
  <2> QED
    BY <1>1, <2>1, <2>3, GrownHeld
<1>4. ASSUME NEW mint, NEW amount \in StakeAmounts, AddStake(a, mint, amount)
      PROVE  StakeHeld(b)
  <2>1. PICK s \in AgentStake :
          Becomes(a, s) /\ s.stake_amount = agent_stake[a].stake_amount + amount
    BY <1>1, <1>4, AddStakeEffect
  <2>2. s.stake_amount \in Nat /\ s.stake_amount >= agent_stake[a].stake_amount
    BY <1>1, <1>2, <2>1, StakeFields
  <2> QED
    BY <1>1, <2>1, <2>2, GrownHeld
<1>5. CASE RequestUnstake(a)
  BY <1>1, <1>5, RequestUnstakeEffect, KeptHeld
<1>6. CASE ExecuteUnstake(a)
  <2>1. agent_stake[a].open_jobs = 0
    BY <1>6 DEF ExecuteUnstake, MayLeave
  <2>2. PICK s \in AgentStake : Becomes(a, s)
    BY <1>1, <1>6, ExecuteUnstakeEffect
  <2>3. StakeHeld(a)
    BY <2>1 DEF StakeHeld
  <2> QED
    BY <1>1, <2>2, <2>3, OthersHeld
<1> QED
  BY <1>3, <1>4, <1>5, <1>6 DEF AgentStep

LEMMA EscrowCallHeld ==
  ASSUME TypeOK, NEW a \in Agents, NEW authority, EscrowCall(authority, a), NEW b \in Agents
  PROVE  StakeHeld(b)
<1>1. CASE IncrementOpenJobs(authority, a)
  BY <1>1, IncrementOpenJobsEffect, KeptHeld
<1>2. CASE SettleJob(authority, a)
  BY <1>2, SettleJobEffect, KeptHeld
<1>3. ASSUME NEW mint \in Mints, NEW consumer \in Consumers,
             FailJob(authority, a, mint, consumer)
      PROVE  StakeHeld(b)
  <2> DEFINE amount == SlashAmount(agent_stake[a], registry_config.slash_bps)
  <2>1. /\ amount \in 0..agent_stake[a].stake_amount
        /\ amount * BPS <= agent_stake[a].stake_amount * registry_config.max_slash_bps
    BY <1>3, FailJobEffect
  <2>2. PICK s \in AgentStake :
          /\ Becomes(a, s) /\ s.stake_amount = agent_stake[a].stake_amount - amount
          /\ s.total_slashed = agent_stake[a].total_slashed + 1
    BY <1>3, FailJobEffect
  <2> HIDE DEF amount
  <2>3. agent_stake'[a] = s
    BY <2>2 DEF Becomes, TypeOK
  <2>4. agent_stake[a].stake_amount - s.stake_amount = amount
    BY <2>1, <2>2, StakeFields
  <2>5. StakeHeld(a)
    BY <2>1, <2>2, <2>3, <2>4 DEF StakeHeld
  <2> QED
    BY <2>2, <2>5, OthersHeld
<1> QED
  BY <1>1, <1>2, <1>3 DEF EscrowCall

LEMMA StepHeld ==
  ASSUME StakeInv, [Next]_vars, NEW b \in Agents
  PROVE  StakeHeld(b)
<1>1. TypeOK
  BY DEF StakeInv
<1>2. CASE Tick \/ OperatorStep \/ UNCHANGED vars
  <2>1. agent_stake' = agent_stake
    BY <1>2 DEF Tick, OperatorStep, SetDagEscrowAuthority, SetMaxSlashBps, ProposeOperator,
                AcceptOperator, ConfigUnchangedElse, vars, brvars
  <2> QED
    BY <1>1, <2>1, StakeFields DEF StakeHeld
<1> QED
  BY <1>1, <1>2, AgentStepHeld, EscrowCallHeld DEF Next

\* Under an open job a stake shrinks by a slash only, counted as one, and by no
\* more than the operator's ceiling at that moment: no unstake asked for before
\* the job was taken, and no slash rate, takes more.
THEOREM StakeHeldCorrect == Spec => StakeHeldWhileWorking
<1>1. StakeInv /\ [Next]_vars => [\A a \in Agents : StakeHeld(a)]_vars
  BY StepHeld
<1>2. [\A a \in Agents : StakeHeld(a)]_vars =>
        [\A a \in Agents :
           LET s == agent_stake[a] IN
           s.open_jobs > 0 /\ agent_stake'[a].stake_amount < s.stake_amount =>
             /\ agent_stake'[a].total_slashed = s.total_slashed + 1
             /\ (s.stake_amount - agent_stake'[a].stake_amount) * BPS
                  <= s.stake_amount * registry_config.max_slash_bps]_vars
  BY DEF StakeHeld
<1> QED
  BY <1>1, <1>2, InitStakes, StakePreserved, PTL DEF Spec, StakeHeldWhileWorking

(***************************************************************************)
(* The jobs an account counts.  Only dag_escrow's calls move its counters;  *)
(* an agent that registers starts from zero, where an account that does not *)
(* exist already is.                                                        *)
(***************************************************************************)
SameTally(t, s) ==
  /\ t.open_jobs = s.open_jobs
  /\ t.total_settled = s.total_settled /\ t.total_slashed = s.total_slashed

TalliesKept == \A a \in Agents : SameTally(agent_stake'[a], agent_stake[a])
OtherTalliesKept(a) == \A b \in Agents \ {a} : SameTally(agent_stake'[b], agent_stake[b])

\* What an agent does itself: its stake goes up, or it has no open job.
OwnDoing == \A a \in Agents : stake_vault'[a] >= stake_vault[a] \/ agent_stake[a].open_jobs = 0

NewcomersFresh == \A a \in Agents : ~agent_stake[a].registered => SameTally(agent_stake[a], NoStake)

TallyInv == StakeInv /\ NewcomersFresh

\* One account moves.
LEMMA OneTally ==
  ASSUME TypeOK, NEW a \in Agents, NEW s, Becomes(a, s)
  PROVE  agent_stake'[a] = s /\ \A b \in Agents \ {a} : agent_stake'[b] = agent_stake[b]
BY DEF TypeOK, Becomes

LEMMA RegisteredTally ==
  ASSUME TallyInv, NEW a \in Agents, NEW mint, NEW amount, StakeAndRegister(a, mint, amount)
  PROVE  \E s : Becomes(a, s) /\ SameTally(s, agent_stake[a]) /\ s.registered
<1> DEFINE tier == TierForLenient(amount)
           s == [NoStake EXCEPT !.registered = TRUE, !.stake_mint = mint,
                                !.stake_amount = amount, !.tier = tier]
<1>1. Becomes(a, s)
  BY DEF StakeAndRegister, Becomes
<1>2. SameTally(agent_stake[a], NoStake)
  BY DEF TallyInv, NewcomersFresh, StakeAndRegister
<1> HIDE DEF tier
<1>3. SameTally(s, NoStake) /\ s.registered
  BY DEF SameTally, NoStake
<1> HIDE DEF s
<1> QED
  BY <1>1, <1>2, <1>3 DEF SameTally

LEMMA OwnTally ==
  ASSUME TypeOK, NEW a \in Agents,
         \/ \E mint, amount : AddStake(a, mint, amount)
         \/ RequestUnstake(a)
         \/ ExecuteUnstake(a)
  PROVE  \E s : /\ Becomes(a, s) /\ SameTally(s, agent_stake[a])
                /\ s.registered = agent_stake[a].registered
<1>1. agent_stake[a] \in AgentStake /\ agent_stake \in [Agents -> AgentStake]
  BY DEF TypeOK
<1>2. ASSUME NEW mint, NEW amount, AddStake(a, mint, amount)
      PROVE  \E s : /\ Becomes(a, s) /\ SameTally(s, agent_stake[a])
                    /\ s.registered = agent_stake[a].registered
  <2> DEFINE total == agent_stake[a].stake_amount + amount
             tier == TierForLenient(total)
             s == [agent_stake[a] EXCEPT !.stake_amount = total, !.tier = tier]
  <2>1. agent_stake' = [agent_stake EXCEPT ![a].stake_amount = total, ![a].tier = tier]
    BY <1>2 DEF AddStake
  <2> HIDE DEF total, tier
  <2>2. Becomes(a, s) /\ SameTally(s, agent_stake[a]) /\ s.registered = agent_stake[a].registered
    BY <1>1, <2>1 DEF Becomes, SameTally, AgentStake
  <2> HIDE DEF s
  <2> QED
    BY <2>2
<1>3. CASE RequestUnstake(a)
  <2> DEFINE s == [agent_stake[a] EXCEPT !.unstake_requested_at = slot]
  <2>1. Becomes(a, s) /\ SameTally(s, agent_stake[a]) /\ s.registered = agent_stake[a].registered
    BY <1>1, <1>3 DEF RequestUnstake, Becomes, SameTally, AgentStake
  <2> HIDE DEF s
  <2> QED
    BY <2>1
<1>4. CASE ExecuteUnstake(a)
  <2> DEFINE s == [agent_stake[a] EXCEPT !.stake_amount = 0, !.tier = 0,
                                         !.unstake_requested_at = 0]
  <2>1. Becomes(a, s) /\ SameTally(s, agent_stake[a]) /\ s.registered = agent_stake[a].registered
    BY <1>1, <1>4 DEF ExecuteUnstake, Becomes, SameTally, AgentStake
  <2> HIDE DEF s
  <2> QED
    BY <2>1
<1> QED
  BY <1>2, <1>3, <1>4

\* Steps of the operator and of the clock.
LEMMA QuietTallies ==
  ASSUME TallyInv, Tick \/ OperatorStep \/ UNCHANGED vars
  PROVE  TalliesKept /\ OwnDoing /\ NewcomersFresh'
<1>1. agent_stake' = agent_stake /\ stake_vault' = stake_vault
  BY DEF Tick, OperatorStep, SetDagEscrowAuthority, SetMaxSlashBps, ProposeOperator,
         AcceptOperator, ConfigUnchangedElse, vars, brvars
<1>2. \A a \in Agents : stake_vault[a] \in Nat
  BY DEF TallyInv, StakeInv, TypeOK
<1> QED
  BY <1>1, <1>2 DEF TalliesKept, SameTally, OwnDoing, TallyInv, NewcomersFresh

LEMMA AgentStepTallies ==
  ASSUME TallyInv, NEW a \in Agents, AgentStep(a)
  PROVE  TalliesKept /\ OwnDoing /\ NewcomersFresh'
<1>1. TypeOK
  BY DEF TallyInv, StakeInv
<1>2. PICK s : /\ Becomes(a, s) /\ SameTally(s, agent_stake[a])
               /\ s.registered \/ s.registered = agent_stake[a].registered
  BY <1>1, RegisteredTally, OwnTally DEF AgentStep
<1>3. agent_stake'[a] = s /\ \A b \in Agents \ {a} : agent_stake'[b] = agent_stake[b]
  BY <1>1, <1>2, OneTally
<1>4. TalliesKept
  BY <1>2, <1>3 DEF TalliesKept, SameTally
<1>5. NewcomersFresh'
  BY <1>2, <1>3 DEF TallyInv, NewcomersFresh, SameTally
<1>6. OwnDoing
  <2>1. \A b \in Agents : stake_vault[b] \in Nat
    BY <1>1 DEF TypeOK
  <2>2. ASSUME NEW amount \in StakeAmounts, Deposit(a, amount)
        PROVE  OwnDoing
    <3>1. amount \in Nat
      BY BondedRegistryAssumption, U64Assumption DEF Amounts
    <3>2. \A b \in Agents : stake_vault'[b] = IF b = a THEN stake_vault[b] + amount
                                                       ELSE stake_vault[b]
      BY <1>1, <2>2 DEF Deposit, TypeOK
    <3> QED
      BY <2>1, <3>1, <3>2 DEF OwnDoing
  <2>3. CASE RequestUnstake(a)
    BY <2>1, <2>3 DEF RequestUnstake, OwnDoing
  <2>4. CASE ExecuteUnstake(a)
    <3>1. agent_stake[a].open_jobs = 0
      BY <2>4 DEF ExecuteUnstake, MayLeave
    <3>2. \A b \in Agents \ {a} : stake_vault'[b] = stake_vault[b]
      BY <1>1, <2>4 DEF ExecuteUnstake, TypeOK
    <3> QED
      BY <2>1, <3>1, <3>2 DEF OwnDoing
  <2>5. ASSUME NEW amount, DepositForeign(a, amount)
        PROVE  OwnDoing
    BY <2>1, <2>5 DEF DepositForeign, OwnDoing
  <2> QED
    BY <2>2, <2>3, <2>4, <2>5 DEF AgentStep, StakeAndRegister, AddStake
<1> QED
  BY <1>4, <1>5, <1>6

(***************************************************************************)
(* dag_escrow's calls                                                       *)
(***************************************************************************)
LEMMA IncrementTally ==
  ASSUME TallyInv, NEW a \in Agents, NEW authority, IncrementOpenJobs(authority, a)
  PROVE  /\ OtherTalliesKept(a) /\ NewcomersFresh' /\ stake_vault' = stake_vault
         /\ agent_stake'[a].open_jobs = agent_stake[a].open_jobs + 1
         /\ agent_stake'[a].total_settled = agent_stake[a].total_settled
         /\ agent_stake'[a].total_slashed = agent_stake[a].total_slashed
<1> DEFINE open == agent_stake[a].open_jobs + 1
           s == [agent_stake[a] EXCEPT !.open_jobs = open]
<1>1. /\ agent_stake' = [agent_stake EXCEPT ![a].open_jobs = open]
      /\ agent_stake[a].registered /\ stake_vault' = stake_vault
  BY DEF IncrementOpenJobs
<1>2. TypeOK
  BY DEF TallyInv, StakeInv
<1> HIDE DEF open
<1>3. /\ Becomes(a, s) /\ s.registered /\ s.open_jobs = open
      /\ s.total_settled = agent_stake[a].total_settled
      /\ s.total_slashed = agent_stake[a].total_slashed
  BY <1>1, <1>2 DEF Becomes, TypeOK, AgentStake
<1> HIDE DEF s
<1>4. agent_stake'[a] = s /\ \A b \in Agents \ {a} : agent_stake'[b] = agent_stake[b]
  BY <1>2, <1>3, OneTally
<1>5. OtherTalliesKept(a) /\ NewcomersFresh'
  BY <1>3, <1>4 DEF OtherTalliesKept, SameTally, TallyInv, NewcomersFresh
<1> QED
  BY <1>1, <1>3, <1>4, <1>5 DEF open

\* Ends a job, if one is open.
LEMMA DecrementedTally ==
  ASSUME NEW s \in AgentStake, NEW settled \in BOOLEAN
  PROVE  LET t == Decremented(s, settled) IN
         /\ s.open_jobs > 0 => t.open_jobs = s.open_jobs - 1
         /\ s.open_jobs = 0 => t.open_jobs = 0
         /\ t.total_settled = IF settled THEN s.total_settled + 1 ELSE s.total_settled
         /\ t.total_slashed = s.total_slashed /\ t.registered = s.registered
<1> DEFINE open == IF s.open_jobs = 0 THEN 0 ELSE s.open_jobs - 1
           total == IF settled THEN s.total_settled + 1 ELSE s.total_settled
           t == [s EXCEPT !.open_jobs = open, !.total_settled = total]
<1>1. Decremented(s, settled) = t
  BY DEF Decremented, AgentStake
<1>2. (s.open_jobs > 0 => open = s.open_jobs - 1) /\ (s.open_jobs = 0 => open = 0)
  BY DEF AgentStake
<1> HIDE DEF open
<1>3. /\ t.open_jobs = open /\ t.total_slashed = s.total_slashed
      /\ t.registered = s.registered
  BY DEF AgentStake
<1> HIDE DEF total
<1>4. t.total_settled = total
  BY DEF AgentStake
<1> QED
  BY <1>1, <1>2, <1>3, <1>4 DEF total

LEMMA SettleTally ==
  ASSUME TallyInv, NEW a \in Agents, NEW authority, SettleJob(authority, a)
  PROVE  /\ OtherTalliesKept(a) /\ NewcomersFresh' /\ stake_vault' = stake_vault
         /\ agent_stake[a].open_jobs > 0 =>
              agent_stake'[a].open_jobs = agent_stake[a].open_jobs - 1
         /\ agent_stake[a].open_jobs = 0 => agent_stake'[a].open_jobs = 0
         /\ agent_stake'[a].total_settled = agent_stake[a].total_settled + 1
         /\ agent_stake'[a].total_slashed = agent_stake[a].total_slashed
<1> DEFINE s == Decremented(agent_stake[a], TRUE)
<1>1. TypeOK /\ agent_stake[a] \in AgentStake
  BY DEF TallyInv, StakeInv, TypeOK
<1>2. Becomes(a, s) /\ agent_stake[a].registered /\ stake_vault' = stake_vault
  BY DEF SettleJob, Becomes
<1>3. /\ agent_stake[a].open_jobs > 0 => s.open_jobs = agent_stake[a].open_jobs - 1
      /\ agent_stake[a].open_jobs = 0 => s.open_jobs = 0
      /\ s.total_settled = agent_stake[a].total_settled + 1
      /\ s.total_slashed = agent_stake[a].total_slashed
      /\ s.registered = agent_stake[a].registered
  BY <1>1, DecrementedTally
<1> HIDE DEF s
<1>4. agent_stake'[a] = s /\ \A b \in Agents \ {a} : agent_stake'[b] = agent_stake[b]
  BY <1>1, <1>2, OneTally
<1>5. OtherTalliesKept(a) /\ NewcomersFresh'
  BY <1>2, <1>3, <1>4 DEF OtherTalliesKept, SameTally, TallyInv, NewcomersFresh
<1> QED
  BY <1>2, <1>3, <1>4, <1>5

LEMMA SlashedTally ==
  ASSUME NEW t \in AgentStake, NEW amount
  PROVE  LET s == Slashed(t, amount) IN
         /\ s.open_jobs = t.open_jobs /\ s.total_settled = t.total_settled
         /\ s.total_slashed = t.total_slashed + 1 /\ s.registered = t.registered
<1> DEFINE left == t.stake_amount - amount
           tier == TierForLenient(left)
           slashed == t.total_slashed + 1
           s == [t EXCEPT !.stake_amount = left, !.tier = tier, !.total_slashed = slashed]
<1>1. Slashed(t, amount) = s
  BY DEF Slashed, AgentStake
<1> HIDE DEF left, tier, slashed
<1>2. /\ s.open_jobs = t.open_jobs /\ s.total_settled = t.total_settled
      /\ s.total_slashed = slashed /\ s.registered = t.registered
  BY DEF AgentStake
<1> QED
  BY <1>1, <1>2 DEF slashed

LEMMA FailTally ==
  ASSUME TallyInv, NEW a \in Agents, NEW authority, NEW mint, NEW consumer,
         FailJob(authority, a, mint, consumer)
  PROVE  /\ OtherTalliesKept(a) /\ NewcomersFresh'
         /\ \A b \in Agents \ {a} : stake_vault'[b] = stake_vault[b]
         /\ agent_stake[a].open_jobs > 0 =>
              agent_stake'[a].open_jobs = agent_stake[a].open_jobs - 1
         /\ agent_stake[a].open_jobs = 0 => agent_stake'[a].open_jobs = 0
         /\ agent_stake'[a].total_settled = agent_stake[a].total_settled
         /\ agent_stake'[a].total_slashed = agent_stake[a].total_slashed + 1
<1> DEFINE t == Decremented(agent_stake[a], FALSE)
           amount == SlashAmount(agent_stake[a], registry_config.slash_bps)
           s == Slashed(t, amount)
<1>1. TypeOK /\ agent_stake[a] \in AgentStake /\ stake_vault \in [Agents -> Nat]
  BY DEF TallyInv, StakeInv, TypeOK
<1>2. /\ Becomes(a, s) /\ agent_stake[a].registered
      /\ \A b \in Agents \ {a} : stake_vault'[b] = stake_vault[b]
  BY <1>1 DEF FailJob, MayFail, Becomes
<1>3. t \in AgentStake
  BY <1>1, DecrementedFields
<1>4. /\ agent_stake[a].open_jobs > 0 => t.open_jobs = agent_stake[a].open_jobs - 1
      /\ agent_stake[a].open_jobs = 0 => t.open_jobs = 0
      /\ t.total_settled = agent_stake[a].total_settled
      /\ t.total_slashed = agent_stake[a].total_slashed
      /\ t.registered = agent_stake[a].registered
  BY <1>1, DecrementedTally
<1> HIDE DEF t, amount
<1>5. /\ s.open_jobs = t.open_jobs /\ s.total_settled = t.total_settled
      /\ s.total_slashed = t.total_slashed + 1 /\ s.registered = t.registered
  BY <1>3, SlashedTally
<1> HIDE DEF s
<1>6. agent_stake'[a] = s /\ \A b \in Agents \ {a} : agent_stake'[b] = agent_stake[b]
  BY <1>1, <1>2, OneTally
<1>7. OtherTalliesKept(a) /\ NewcomersFresh'
  BY <1>2, <1>4, <1>5, <1>6 DEF OtherTalliesKept, SameTally, TallyInv, NewcomersFresh
<1> QED
  BY <1>2, <1>4, <1>5, <1>6, <1>7

LEMMA InitTallies == Init => TallyInv
BY InitStakes DEF Init, TallyInv, NewcomersFresh, SameTally

LEMMA TalliesPreserved == TallyInv /\ [Next]_vars => TallyInv'
<1> SUFFICES ASSUME TallyInv, [Next]_vars PROVE TallyInv'
  OBVIOUS
<1>1. StakeInv'
  BY StakePreserved DEF TallyInv
<1>2. NewcomersFresh'
  BY QuietTallies, AgentStepTallies, IncrementTally, SettleTally, FailTally DEF Next, EscrowCall
<1> QED
  BY <1>1, <1>2 DEF TallyInv

(***************************************************************************)
(* What dag_escrow can always report.  The counters of an account that has  *)
(* an open job have room for its end, and its vault holds whatever the      *)
(* slash comes to.                                                          *)
(***************************************************************************)
RoomFor(s) == s.open_jobs + s.total_settled + s.total_slashed <= MaxJobs

ReportInv == TallyInv /\ \A a \in Agents : RoomFor(agent_stake[a])

LEMMA InitReports == Init => ReportInv
BY InitTallies, BondedRegistryAssumption DEF Init, ReportInv, RoomFor, NoStake

LEMMA SameRoom ==
  ASSUME NEW s, NEW t, SameTally(t, s), RoomFor(s)
  PROVE  RoomFor(t)
BY DEF SameTally, RoomFor

\* One account gains a job or ends one.
LEMMA OthersRoom ==
  ASSUME ReportInv, NEW a \in Agents, OtherTalliesKept(a), RoomFor(agent_stake'[a])
  PROVE  \A b \in Agents : RoomFor(agent_stake'[b])
BY SameRoom DEF ReportInv, OtherTalliesKept

LEMMA EscrowCallRoom ==
  ASSUME ReportInv, NEW a \in Agents, NEW authority, EscrowCall(authority, a)
  PROVE  \A b \in Agents : RoomFor(agent_stake'[b])
<1> DEFINE s == agent_stake[a]
           t == agent_stake'[a]
<1>1. TallyInv /\ TypeOK /\ MaxJobs \in Nat
  BY BondedRegistryAssumption DEF ReportInv, TallyInv, StakeInv
<1>2. /\ s.open_jobs \in Nat /\ s.total_settled \in Nat /\ s.total_slashed \in Nat
      /\ s.open_jobs + s.total_settled + s.total_slashed <= MaxJobs
  BY <1>1, StakeFields DEF ReportInv, RoomFor
<1>3. CASE IncrementOpenJobs(authority, a)
  <2>1. s.open_jobs + s.total_settled + s.total_slashed < MaxJobs
    BY <1>3 DEF IncrementOpenJobs
  <2>2. /\ OtherTalliesKept(a) /\ t.open_jobs = s.open_jobs + 1
        /\ t.total_settled = s.total_settled /\ t.total_slashed = s.total_slashed
    BY <1>1, <1>3, IncrementTally
  <2> HIDE DEF s, t
  <2>3. t.open_jobs + t.total_settled + t.total_slashed <= MaxJobs
    BY <1>1, <1>2, <2>1, <2>2
  <2> QED
    BY <2>2, <2>3, OthersRoom DEF RoomFor, t
<1>4. ASSUME NEW ended \in {<<1, 0>>, <<0, 1>>}, OtherTalliesKept(a),
             s.total_settled + s.total_slashed < MaxJobs,
             s.open_jobs > 0 => t.open_jobs = s.open_jobs - 1,
             s.open_jobs = 0 => t.open_jobs = 0,
             t.total_settled = s.total_settled + ended[1],
             t.total_slashed = s.total_slashed + ended[2]
      PROVE  \A b \in Agents : RoomFor(agent_stake'[b])
  <2> HIDE DEF s, t
  <2>1. t.open_jobs + t.total_settled + t.total_slashed <= MaxJobs
    BY <1>1, <1>2, <1>4
  <2> QED
    BY <1>4, <2>1, OthersRoom DEF RoomFor, t
<1>5. CASE SettleJob(authority, a)
  <2>1. s.total_settled + s.total_slashed < MaxJobs
    BY <1>5 DEF SettleJob
  <2>2. /\ OtherTalliesKept(a)
        /\ s.open_jobs > 0 => t.open_jobs = s.open_jobs - 1
        /\ s.open_jobs = 0 => t.open_jobs = 0
        /\ t.total_settled = s.total_settled + 1 /\ t.total_slashed = s.total_slashed
    BY <1>1, <1>5, SettleTally
  <2> HIDE DEF s, t
  <2>3. t.total_slashed = s.total_slashed + 0
    BY <1>2, <2>2
  <2> QED
    BY <1>4, <2>1, <2>2, <2>3
<1>6. ASSUME NEW mint \in Mints, NEW consumer \in Consumers,
             FailJob(authority, a, mint, consumer)
      PROVE  \A b \in Agents : RoomFor(agent_stake'[b])
  <2>1. s.total_settled + s.total_slashed < MaxJobs
    BY <1>6 DEF FailJob, MayFail
  <2>2. /\ OtherTalliesKept(a)
        /\ s.open_jobs > 0 => t.open_jobs = s.open_jobs - 1
        /\ s.open_jobs = 0 => t.open_jobs = 0
        /\ t.total_settled = s.total_settled /\ t.total_slashed = s.total_slashed + 1
    BY <1>1, <1>6, FailTally
  <2> HIDE DEF s, t
  <2>3. t.total_settled = s.total_settled + 0
    BY <1>2, <2>2
  <2> QED
    BY <1>4, <2>1, <2>2, <2>3
<1> QED
  BY <1>3, <1>5, <1>6 DEF EscrowCall

LEMMA ReportsPreserved == ReportInv /\ [Next]_vars => ReportInv'
<1> SUFFICES ASSUME ReportInv, [Next]_vars PROVE ReportInv'
  OBVIOUS
<1>1. TallyInv /\ TallyInv'
  BY TalliesPreserved DEF ReportInv
<1>2. TalliesKept => \A a \in Agents : RoomFor(agent_stake'[a])
  BY SameRoom DEF ReportInv, TalliesKept
<1>3. \A a \in Agents : RoomFor(agent_stake'[a])
  BY <1>1, <1>2, QuietTallies, AgentStepTallies, EscrowCallRoom DEF Next
<1> QED
  BY <1>1, <1>3 DEF ReportInv

\* The slash is there when nothing of another mint was deposited, and there is room
\* for one more failure.
LEMMA CoveredFailure ==
  ASSUME StakeInv, NEW a \in Agents, agent_stake[a].registered,
         agent_stake[a].total_settled + agent_stake[a].total_slashed < MaxJobs,
         foreign_vault[a] = 0
  PROVE  MayFail(registry_config.dag_escrow_authority, a, agent_stake[a].stake_mint)
<1> DEFINE amount == SlashAmount(agent_stake[a], registry_config.slash_bps)
<1>1. TypeOK /\ registry_config.slash_bps \in 0..BPS
  BY DEF StakeInv, TypeOK, RegistryConfig
<1>2. amount \in 0..agent_stake[a].stake_amount /\ agent_stake[a].stake_amount \in Nat
  BY <1>1, SlashBound, StakeFields
<1>3. stake_vault[a] = agent_stake[a].stake_amount
  <2>1. agent_stake[a].stake_amount = stake_vault[a] + foreign_vault[a]
    BY DEF StakeInv, StakesAgree, Agrees, Deposited
  <2> QED
    BY <1>1, <2>1 DEF TypeOK
<1> HIDE DEF amount
<1>4. stake_vault[a] >= amount
  BY <1>2, <1>3
<1> QED
  BY <1>4 DEF MayFail, Authorized, amount

LEMMA ReportInvImplies == ReportInv => FailureAlwaysReportable
<1> SUFFICES ASSUME ReportInv, NEW a \in Agents, agent_stake[a].registered,
                    agent_stake[a].open_jobs > 0, ~(foreign_vault[a] > 0)
             PROVE  MayFail(registry_config.dag_escrow_authority, a, agent_stake[a].stake_mint)
  BY DEF FailureAlwaysReportable
<1>1. StakeInv /\ RoomFor(agent_stake[a])
  BY DEF ReportInv, TallyInv
<1>2. agent_stake[a].total_settled + agent_stake[a].total_slashed < MaxJobs
  BY <1>1, StakeFields, BondedRegistryAssumption DEF StakeInv, RoomFor
<1>3. foreign_vault[a] = 0
  BY <1>1 DEF StakeInv, TypeOK
<1> QED
  BY <1>1, <1>2, <1>3, CoveredFailure

\* fail_job is its guard and what it writes: nothing else keeps it from happening.
LEMMA FailGuard ==
  \A authority, a, mint, consumer :
    LET amount == SlashAmount(agent_stake[a], registry_config.slash_bps) IN
    FailJob(authority, a, mint, consumer) <=>
      /\ MayFail(authority, a, mint)
      /\ vars' = <<slot,
                   <<registry_config,
                     [agent_stake EXCEPT ![a] = Slashed(Decremented(@, FALSE), amount)],
                     [stake_vault EXCEPT ![a] = @ - amount],
                     foreign_vault,
                     agent_wallet,
                     [slash_proceeds EXCEPT ![consumer] = @ + amount]>>>>
BY DEF FailJob, vars, brvars

\* dag_escrow can report the failure of the open job of any registered agent that
\* staked in one mint only, whatever the operator's rate and ceiling and however little
\* of the stake is left: slash_stake rounds and clamps, and asks the vault for more
\* than it holds only when the stake counts tokens of another mint.
THEOREM FailureReportCorrect == Spec => []FailureAlwaysReportable
BY InitReports, ReportsPreserved, ReportInvImplies, PTL DEF Spec

(***************************************************************************)
(* The mint of a stake is chosen once, when the agent registers.            *)
(***************************************************************************)
MintSet(s) == s.registered => s.stake_mint \in Mints
MintInv == TypeOK /\ \A a \in Agents : MintSet(agent_stake[a])

SameMint(t, s) == t.registered = s.registered /\ t.stake_mint = s.stake_mint

LEMMA RegisteredMint ==
  ASSUME NEW a \in Agents, NEW mint \in Mints, NEW amount, StakeAndRegister(a, mint, amount)
  PROVE  \E s : Becomes(a, s) /\ MintSet(s)
<1> DEFINE tier == TierForLenient(amount)
           s == [NoStake EXCEPT !.registered = TRUE, !.stake_mint = mint,
                                !.stake_amount = amount, !.tier = tier]
<1>1. Becomes(a, s)
  BY DEF StakeAndRegister, Becomes
<1> HIDE DEF tier
<1>2. MintSet(s)
  BY DEF MintSet, NoStake
<1> HIDE DEF s
<1> QED
  BY <1>1, <1>2

LEMMA OwnMint ==
  ASSUME TypeOK, NEW a \in Agents,
         \/ \E mint, amount : AddStake(a, mint, amount)
         \/ RequestUnstake(a)
         \/ ExecuteUnstake(a)
  PROVE  \E s : Becomes(a, s) /\ SameMint(s, agent_stake[a])
<1>1. agent_stake[a] \in AgentStake /\ agent_stake \in [Agents -> AgentStake]
  BY DEF TypeOK
<1>2. ASSUME NEW mint, NEW amount, AddStake(a, mint, amount)
      PROVE  \E s : Becomes(a, s) /\ SameMint(s, agent_stake[a])
  <2> DEFINE total == agent_stake[a].stake_amount + amount
             tier == TierForLenient(total)
             s == [agent_stake[a] EXCEPT !.stake_amount = total, !.tier = tier]
  <2>1. agent_stake' = [agent_stake EXCEPT ![a].stake_amount = total, ![a].tier = tier]
    BY <1>2 DEF AddStake
  <2> HIDE DEF total, tier
  <2>2. Becomes(a, s) /\ SameMint(s, agent_stake[a])
    BY <1>1, <2>1 DEF Becomes, SameMint, AgentStake
  <2> HIDE DEF s
  <2> QED
    BY <2>2
<1>3. CASE RequestUnstake(a)
  <2> DEFINE s == [agent_stake[a] EXCEPT !.unstake_requested_at = slot]
  <2>1. Becomes(a, s) /\ SameMint(s, agent_stake[a])
    BY <1>1, <1>3 DEF RequestUnstake, Becomes, SameMint, AgentStake
  <2> HIDE DEF s
  <2> QED
    BY <2>1
<1>4. CASE ExecuteUnstake(a)
  <2> DEFINE s == [agent_stake[a] EXCEPT !.stake_amount = 0, !.tier = 0,
                                         !.unstake_requested_at = 0]
  <2>1. Becomes(a, s) /\ SameMint(s, agent_stake[a])
    BY <1>1, <1>4 DEF ExecuteUnstake, Becomes, SameMint, AgentStake
  <2> HIDE DEF s
  <2> QED
    BY <2>1
<1> QED
  BY <1>2, <1>3, <1>4

LEMMA CallMint ==
  ASSUME TypeOK, NEW a \in Agents, NEW authority, EscrowCall(authority, a)
  PROVE  \E s : Becomes(a, s) /\ SameMint(s, agent_stake[a])
<1>1. agent_stake[a] \in AgentStake /\ agent_stake \in [Agents -> AgentStake]
  BY DEF TypeOK
<1>2. ASSUME NEW settled \in BOOLEAN
      PROVE  SameMint(Decremented(agent_stake[a], settled), agent_stake[a])
  BY <1>1 DEF Decremented, SameMint, AgentStake
<1>3. \A amount : \A t \in AgentStake : SameMint(Slashed(t, amount), t)
  BY DEF Slashed, SameMint, AgentStake
<1>4. CASE IncrementOpenJobs(authority, a)
  <2> DEFINE open == agent_stake[a].open_jobs + 1
             s == [agent_stake[a] EXCEPT !.open_jobs = open]
  <2>1. agent_stake' = [agent_stake EXCEPT ![a].open_jobs = open]
    BY <1>4 DEF IncrementOpenJobs
  <2> HIDE DEF open
  <2>2. Becomes(a, s) /\ SameMint(s, agent_stake[a])
    BY <1>1, <2>1 DEF Becomes, SameMint, AgentStake
  <2> HIDE DEF s
  <2> QED
    BY <2>2
<1>5. CASE SettleJob(authority, a)
  <2>1. Becomes(a, Decremented(agent_stake[a], TRUE))
    BY <1>5 DEF SettleJob, Becomes
  <2> QED
    BY <1>2, <2>1
<1>6. ASSUME NEW mint, NEW consumer, FailJob(authority, a, mint, consumer)
      PROVE  \E s : Becomes(a, s) /\ SameMint(s, agent_stake[a])
  <2> DEFINE amount == SlashAmount(agent_stake[a], registry_config.slash_bps)
             t == Decremented(agent_stake[a], FALSE)
  <2>1. Becomes(a, Slashed(t, amount))
    BY <1>6 DEF FailJob, Becomes
  <2>2. t \in AgentStake /\ SameMint(t, agent_stake[a])
    BY <1>1, <1>2, DecrementedFields
  <2> HIDE DEF t, amount
  <2> QED
    BY <1>3, <2>1, <2>2 DEF SameMint
<1> QED
  BY <1>4, <1>5, <1>6 DEF EscrowCall

LEMMA MintsPreserved == MintInv /\ [Next]_vars /\ TypeOK' => MintInv'
<1> SUFFICES ASSUME MintInv, [Next]_vars, TypeOK' PROVE MintInv'
  OBVIOUS
<1>1. TypeOK
  BY DEF MintInv
<1>2. ASSUME NEW a \in Agents, NEW s, Becomes(a, s), MintSet(s) \/ SameMint(s, agent_stake[a])
      PROVE  \A b \in Agents : MintSet(agent_stake'[b])
  BY <1>1, <1>2, OneTally DEF MintInv, MintSet, SameMint
<1>3. CASE Tick \/ OperatorStep \/ UNCHANGED vars
  BY <1>3 DEF MintInv, Tick, OperatorStep, SetDagEscrowAuthority, SetMaxSlashBps,
         ProposeOperator, AcceptOperator, ConfigUnchangedElse, vars, brvars
<1>4. ASSUME NEW a \in Agents, AgentStep(a)
      PROVE  \A b \in Agents : MintSet(agent_stake'[b])
  BY <1>1, <1>2, <1>4, RegisteredMint, OwnMint DEF AgentStep
<1>5. ASSUME NEW a \in Agents, NEW authority, EscrowCall(authority, a)
      PROVE  \A b \in Agents : MintSet(agent_stake'[b])
  BY <1>1, <1>2, <1>5, CallMint
<1>6. \A b \in Agents : MintSet(agent_stake'[b])
  BY <1>3, <1>4, <1>5 DEF Next, MintInv
<1> QED
  BY <1>6 DEF MintInv

\* All that is known of the accounts a failure is reported to.
AccountsInv == ReportInv /\ MintInv

LEMMA AccountsInvariant == Spec => []AccountsInv
<1>1. Init => AccountsInv
  <2>1. Init => ReportInv /\ TypeOK
    BY InitReports DEF ReportInv, TallyInv, StakeInv
  <2>2. MintSet(NoStake)
    BY DEF MintSet, NoStake
  <2>3. Init => \A a \in Agents : agent_stake[a] = NoStake
    BY DEF Init
  <2> QED
    BY <2>1, <2>2, <2>3 DEF AccountsInv, MintInv
<1>2. AccountsInv /\ [Next]_vars => AccountsInv'
  BY ReportsPreserved, MintsPreserved DEF AccountsInv, ReportInv, TallyInv, StakeInv
<1> QED
  BY <1>1, <1>2, PTL DEF Spec
=============================================================================
