--------------------------- MODULE EscrowPromise ----------------------------
(***************************************************************************)
(* What the escrow promises, without accounts, authorities, time or         *)
(* disputes.  Each pipeline is a set of lots of the consumer's money.  A    *)
(* lot is held until it is either paid to one agent, minus the operator's   *)
(* fee and only after the lots it needs have been paid, or refunded.  Who   *)
(* ends a lot may do so in another currency: then the lot keeps its amount, *)
(* for good, and nobody gets any of it.                                     *)
(***************************************************************************)
EXTENDS Tokens

CONSTANTS Pipelines, Indexes, Consumers, ConsumerOf, Agents, Keys, Budget, FeeBps

VARIABLES
  lots,     \* lots[p][i]: fate, the amount locked, the lots it needs paid first
  fee_bps,
  wallet,   \* what each consumer, agent and operator owns
  paid,
  fees

pvars == <<lots, fee_bps, wallet, paid, fees>>

Emptied(fate) == [fate |-> fate, amount |-> 0, needs |-> {}]

Held(p) == {i \in Indexes : lots[p][i].fate = "held"}

Share(amount) == ShareOf(amount, fee_bps)

Init ==
  /\ lots = [p \in Pipelines |-> [i \in Indexes |-> Emptied("none")]]
  /\ fee_bps \in FeeBps
  /\ wallet = [c \in Consumers |-> Budget]
  /\ paid = [a \in Agents |-> 0]
  /\ fees = [k \in Keys |-> 0]

\* The consumer locks new lots; a lot needs only lots before it.
Lock(p) ==
  /\ \A i \in Indexes : lots[p][i].fate = "none"
  /\ lots' = [lots EXCEPT ![p] = [i \in Indexes |-> lots'[p][i]]]
  /\ \A i \in Indexes :
       \/ lots'[p][i] = Emptied("none")
       \/ /\ lots'[p][i].fate = "held"
          /\ lots'[p][i].needs \subseteq {j \in 0..(i - 1) : lots'[p][j].fate = "held"}
  /\ LET locked == Total([i \in Indexes |-> lots'[p][i].amount], Indexes) IN
     /\ locked > 0 /\ locked <= wallet[ConsumerOf[p]]
     /\ wallet' = [wallet EXCEPT ![ConsumerOf[p]] = @ - locked]
  /\ UNCHANGED <<fee_bps, paid, fees>>

\* A lot may be paid once the lots it needs are.
Due(p, i) ==
  /\ i \in Held(p)
  /\ \A j \in lots[p][i].needs : lots[p][j].fate = "paid"

Pay(p, i, agent, operator) ==
  /\ Due(p, i)
  /\ paid' = [paid EXCEPT ![agent] = @ + lots[p][i].amount - Share(lots[p][i].amount)]
  /\ fees' = [fees EXCEPT ![operator] = @ + Share(lots[p][i].amount)]
  /\ lots' = [lots EXCEPT ![p][i] = Emptied("paid")]
  /\ UNCHANGED <<fee_bps, wallet>>

\* Several lots may come back at once.
ReturnLots(p, S) ==
  /\ S # {} /\ S \subseteq Held(p)
  /\ wallet' = [wallet EXCEPT
       ![ConsumerOf[p]] = @ + Total([i \in Indexes |-> lots[p][i].amount], S)]
  /\ lots' = [lots EXCEPT ![p] =
       [i \in Indexes |-> IF i \in S THEN Emptied("refunded") ELSE lots[p][i]]]
  /\ UNCHANGED <<fee_bps, paid, fees>>

\* The same endings in another currency.
Keep(p, S, fate) ==
  /\ lots' = [lots EXCEPT ![p] = [i \in Indexes |->
       IF i \in S THEN [fate |-> fate, amount |-> lots[p][i].amount, needs |-> {}]
                  ELSE lots[p][i]]]
  /\ UNCHANGED <<fee_bps, wallet, paid, fees>>

PayElsewhere(p, i) == Due(p, i) /\ Keep(p, {i}, "paid")

ReturnElsewhere(p, S) == S # {} /\ S \subseteq Held(p) /\ Keep(p, S, "refunded")

Next ==
  \E p \in Pipelines :
    \/ Lock(p)
    \/ \E i \in Indexes :
         \/ \E agent \in Agents, operator \in Keys : Pay(p, i, agent, operator)
         \/ PayElsewhere(p, i)
    \/ \E S \in SUBSET Indexes : ReturnLots(p, S) \/ ReturnElsewhere(p, S)

Spec == Init /\ [][Next]_pvars
=============================================================================
