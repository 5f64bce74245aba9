---------------------------- MODULE PartsProofs -----------------------------
(***************************************************************************)
(* Theorems of three parts that need nobody else to run: the fixpoint loop  *)
(* of expire_node (CascadeLoop), for any number of nodes, any dependency    *)
(* masks and any list of accounts; the scripts that create and migrate the  *)
(* configs (Deployment), for any operators, any calls made by hand and any  *)
(* number of killed runs and lost answers; a client's call (Client), for    *)
(* any agents, whatever the builder read and was asked for.                 *)
(***************************************************************************)
EXTENDS CascadeLoop, TokenTheorems

(***************************************************************************)
(* The cascade loop                                                         *)
(*                                                                          *)
(* A pass that has changed nothing so far leaves no node behind it that     *)
(* still expires; so the pass that ends the loop, which changed nothing at  *)
(* all, leaves none in the whole list.                                      *)
(***************************************************************************)
NothingExpiresBehind ==
  \A k \in 1..Len(remaining_accounts) : k < position => ~Expires(remaining_accounts[k])

LoopInv ==
  /\ TypeOK
  /\ target \in expired_bits
  /\ expired_bits \subseteq CascadeSet(target, mask, Eligible)
  /\ refund_total = Total(AllocationUsdc, expired_bits)
  /\ expired_count = Cardinality(expired_bits)
  /\ running /\ ~changed => NothingExpiresBehind
  /\ ~running => CascadeClosed(mask, Eligible, expired_bits)

LEMMA IndexesFinite ==
  ASSUME CascadeLoopAssumption, NEW S \in SUBSET Indexes
  PROVE  IsFiniteSet(S)
<1>1. 0 \in Int /\ MAX_NODES - 1 \in Int
  BY DEF CascadeLoopAssumption
<1>2. IsFiniteSet(Indexes)
  BY <1>1, FS_Interval DEF Indexes
<1> QED
  BY <1>2, FS_Subset

\* What the target's expiry pulls in is in the cascade ...
LEMMA CascadeGrows ==
  ASSUME NEW t, NEW m, NEW E, NEW S, S \subseteq CascadeSet(t, m, E),
         NEW j \in E, m[j] \cap S # {}
  PROVE  S \cup {j} \subseteq CascadeSet(t, m, E)
<1> DEFINE N == E \cup {t}
<1>1. SUFFICES ASSUME NEW T \in SUBSET N, t \in T, CascadeClosed(m, E, T)
               PROVE  j \in T
  BY DEF CascadeSet
<1>2. S \subseteq T
  BY <1>1 DEF CascadeSet
<1>3. m[j] \cap T # {}
  BY <1>2
<1> QED
  BY <1>1, <1>3 DEF CascadeClosed

\* ... and a part of it that pulls in nothing more is all of it.
LEMMA CascadeComplete ==
  ASSUME NEW t, NEW m, NEW E, NEW S, S \subseteq CascadeSet(t, m, E),
         t \in S, CascadeClosed(m, E, S)
  PROVE  S = CascadeSet(t, m, E)
<1>1. S \in SUBSET (E \cup {t})
  BY DEF CascadeSet
<1>2. SUFFICES ASSUME NEW j \in CascadeSet(t, m, E) PROVE j \in S
  OBVIOUS
<1> QED
  BY <1>1, <1>2 DEF CascadeSet

LEMMA LoopInvInit ==
  ASSUME CascadeLoopAssumption, Init
  PROVE  LoopInv
<1>1. AllocationUsdc[target] \in Amounts /\ target \in Indexes
  BY DEF CascadeLoopAssumption, Init
<1>2. AllocationUsdc[target] \in Nat
  BY <1>1, U64Assumption DEF Amounts
<1>3. TypeOK
  <2>1. mask \in [Indexes -> SUBSET Indexes]
    BY DEF Init, Dags
  <2>2. remaining_accounts \in Seq(Indexes)
    BY DEF Init, CascadeLoopAssumption
  <2>3. pending \in SUBSET Indexes /\ target \notin pending
    BY DEF Init
  <2>4. /\ expired_bits \in SUBSET Indexes /\ refund_total \in Nat
        /\ expired_count \in Nat /\ position \in Nat \ {0}
    BY <1>1, <1>2 DEF Init
  <2>5. changed \in BOOLEAN /\ running \in BOOLEAN
    BY Zenon DEF Init
  <2> QED
    BY <1>1, <2>1, <2>2, <2>3, <2>4, <2>5 DEF TypeOK
<1>4. target \in expired_bits /\ expired_bits \subseteq CascadeSet(target, mask, Eligible)
  BY DEF Init, CascadeSet
<1>5. refund_total = Total(AllocationUsdc, expired_bits)
  BY <1>1, TotalSingleton DEF Init
<1>6. expired_count = Cardinality(expired_bits)
  BY FS_Singleton DEF Init
<1>7. NothingExpiresBehind /\ running
  BY DEF Init, NothingExpiresBehind
<1> QED
  BY <1>3, <1>4, <1>5, <1>6, <1>7 DEF LoopInv

\* An account that expires now was not counted before.
LEMMA VisitExpires ==
  ASSUME CascadeLoopAssumption, LoopInv, running, NEW j,
         position \in 1..Len(remaining_accounts), j = remaining_accounts[position],
         Expires(j),
         expired_bits' = expired_bits \cup {j},
         refund_total' = refund_total + AllocationUsdc[j],
         expired_count' = expired_count + 1,
         changed' = TRUE, position' = position + 1,
         UNCHANGED <<inputs, running>>
  PROVE  LoopInv'
<1> USE DEF inputs
<1>1. /\ j \in Indexes /\ j \in Eligible
      /\ AllocationUsdc[j] \in Amounts /\ AllocationUsdc[j] \in Nat
  <2>1. j \in Indexes /\ j \in Listed
    BY DEF LoopInv, TypeOK, Listed
  <2>2. AllocationUsdc[j] \in Amounts
    BY <2>1 DEF CascadeLoopAssumption
  <2> QED
    BY <2>1, <2>2, U64Assumption DEF Expires, Eligible, Amounts
<1>2. TypeOK'
  BY <1>1 DEF LoopInv, TypeOK
<1>3. IsFiniteSet(expired_bits) /\ j \notin expired_bits
  BY IndexesFinite DEF LoopInv, TypeOK, Expires
<1>4. Eligible' = Eligible
  BY DEF Eligible, Listed
<1>5. expired_bits' \subseteq CascadeSet(target, mask, Eligible)
  BY <1>1, CascadeGrows DEF LoopInv, Expires
<1>6. refund_total' = Total(AllocationUsdc, expired_bits')
  BY <1>1, <1>3, TotalAddOne DEF LoopInv
<1>7. expired_count' = Cardinality(expired_bits')
  BY <1>3, FS_AddElement DEF LoopInv
<1> QED
  BY <1>2, <1>4, <1>5, <1>6, <1>7 DEF LoopInv

LEMMA VisitPassesBy ==
  ASSUME LoopInv, running,
         position \in 1..Len(remaining_accounts),
         ~Expires(remaining_accounts[position]),
         UNCHANGED <<expired_bits, refund_total, expired_count, changed>>,
         position' = position + 1,
         UNCHANGED <<inputs, running>>
  PROVE  LoopInv'
<1> USE DEF inputs
<1>1. TypeOK'
  BY DEF LoopInv, TypeOK
<1>2. Eligible' = Eligible
  BY DEF Eligible, Listed
<1>3. running' /\ ~changed' => NothingExpiresBehind'
  BY DEF LoopInv, TypeOK, NothingExpiresBehind, Expires
<1> QED
  BY <1>1, <1>2, <1>3 DEF LoopInv

LEMMA EndPassPreserves ==
  ASSUME LoopInv, EndPass
  PROVE  LoopInv'
<1> USE DEF inputs, EndPass
<1>1. TypeOK'
  <2>1. changed' \in BOOLEAN /\ running' \in BOOLEAN
    BY Zenon DEF LoopInv, TypeOK
  <2>2. position' \in Nat \ {0}
    OBVIOUS
  <2> QED
    BY <2>1, <2>2 DEF LoopInv, TypeOK
<1>2. Eligible' = Eligible
  BY DEF Eligible, Listed
<1>3. NothingExpiresBehind'
  BY DEF NothingExpiresBehind
<1>4. ASSUME ~changed PROVE CascadeClosed(mask, Eligible, expired_bits)
  <2>1. SUFFICES ASSUME NEW k \in DOMAIN remaining_accounts,
                        remaining_accounts[k] \in pending,
                        mask[remaining_accounts[k]] \cap expired_bits # {}
                 PROVE  remaining_accounts[k] \in expired_bits
    BY DEF CascadeClosed, Eligible, Listed
  <2>2. k \in 1..Len(remaining_accounts) /\ k < position
    BY DEF LoopInv, TypeOK
  <2>3. ~Expires(remaining_accounts[k])
    BY <1>4, <2>2 DEF LoopInv, NothingExpiresBehind
  <2> QED
    BY <2>1, <2>3 DEF Expires
<1> QED
  BY <1>1, <1>2, <1>3, <1>4 DEF LoopInv

LEMMA LoopInvStep ==
  ASSUME CascadeLoopAssumption, LoopInv, [Next]_vars
  PROVE  LoopInv'
<1>1. ASSUME VisitAccount PROVE LoopInv'
  <2> DEFINE j == remaining_accounts[position]
  <2>1. position \in 1..Len(remaining_accounts)
    BY <1>1 DEF VisitAccount, LoopInv, TypeOK
  <2>2. CASE Expires(j)
    <3> HIDE DEF j
    <3> QED
      BY <1>1, <2>1, <2>2, VisitExpires DEF VisitAccount, j
  <2>3. CASE ~Expires(j)
    BY <1>1, <2>1, <2>3, VisitPassesBy DEF VisitAccount
  <2> QED
    BY <2>2, <2>3
<1>2. ASSUME EndPass PROVE LoopInv'
  BY <1>2, EndPassPreserves
<1>3. ASSUME UNCHANGED vars PROVE LoopInv'
  BY <1>3 DEF vars, inputs, LoopInv, TypeOK, Eligible, Listed, NothingExpiresBehind, Expires
<1> QED
  BY <1>1, <1>2, <1>3 DEF Next

LEMMA LoopInvImplies ==
  ASSUME LoopInv
  PROVE  TypeOK /\ LoopComputesCascade
<1>1. ASSUME ~running PROVE expired_bits = CascadeSet(target, mask, Eligible)
  BY <1>1, CascadeComplete DEF LoopInv
<1> QED
  BY <1>1 DEF LoopInv, LoopComputesCascade

\* However many nodes a pipeline has, whatever they depend on and in whatever order,
\* and however often, the caller lists their accounts: when the loop of expire_node
\* stops it has expired the target's cascade among the listed pending nodes, no node
\* more and none less, and has refunded and counted each of them once.
THEOREM CascadeLoopCorrect ==
  ASSUME CascadeLoopAssumption
  PROVE  Spec => [](TypeOK /\ LoopComputesCascade)
<1>1. Init => LoopInv
  BY LoopInvInit
<1>2. LoopInv /\ [Next]_vars => LoopInv'
  BY LoopInvStep
<1>3. LoopInv => TypeOK /\ LoopComputesCascade
  BY LoopInvImplies
<1> QED
  BY <1>1, <1>2, <1>3, PTL DEF Spec

-----------------------------------------------------------------------------
(***************************************************************************)
(* The configs and their scripts                                            *)
(*                                                                          *)
(* A config's layout only ever grows: none, old, current.  So what a script *)
(* has found of a config, or done to it, stays true of it, whatever the     *)
(* other script, the operators or a second run of the same script do.       *)
(***************************************************************************)
CONSTANTS Keys, Nobody, Deployer, Authorities, Wanted, MaxCalls, MaxFaults
VARIABLES config, script, calls, faults

DP == INSTANCE Deployment

Account ==
  [layout: {"none", "old", "current"}, operator: Keys \cup {Nobody},
   authority: Authorities \cup {Nobody}, tuned: BOOLEAN, pending: Keys \cup {Nobody}]

Progress ==
  [status: {"ended", "running", "done"}, at: 1..3, saw: {"nothing", "missing", "present"}]

LayoutGrows(c, d) ==
  /\ c.layout = "current" => d.layout = "current"
  /\ c.layout # "none" => d.layout # "none"

\* What "done" claims of one config.
Fit(s, account) ==
  IF s = "migrate" THEN account.layout = "current" ELSE account.layout # "none"

KeepsChoices(c, d) ==
  c.layout = "current" =>
    /\ d.layout = "current"
    /\ d.operator = c.operator
    /\ d.tuned = c.tuned
    /\ d.pending = c.pending

\* A script has done, or found done, what comes before its place in the order; a
\* config that initialize-programs saw is there; "done" is about all of them.
ScriptInv(s) ==
  /\ \A k \in 1..3 : k < script[s].at => Fit(s, config[DP!Order(s)[k]])
  /\ s = "initialize" /\ script[s].saw = "present" => Fit(s, config[DP!Current(s)])
  /\ script[s].status = "done" => \A p \in DP!Programs : Fit(s, config[p])

DeploymentInv == DP!TypeOK /\ \A s \in DP!Scripts : ScriptInv(s)

LEMMA OrderIsAll ==
  ASSUME NEW s \in DP!Scripts
  PROVE  /\ \A k \in 1..3 : DP!Order(s)[k] \in DP!Programs
         /\ \A p \in DP!Programs : \E k \in 1..3 : DP!Order(s)[k] = p
<1>1. CASE s = "initialize"
  <2>1. /\ DP!Order(s)[1] = "bridge" /\ DP!Order(s)[2] = "registry"
        /\ DP!Order(s)[3] = "escrow"
    BY <1>1 DEF DP!Order
  <2> QED
    BY <2>1 DEF DP!Programs
<1>2. CASE s = "migrate"
  <2>1. /\ DP!Order(s)[1] = "escrow" /\ DP!Order(s)[2] = "registry"
        /\ DP!Order(s)[3] = "bridge"
    BY <1>2 DEF DP!Order
  <2> QED
    BY <2>1 DEF DP!Programs
<1> QED
  BY <1>1, <1>2 DEF DP!Scripts

LEMMA AuthorityChange ==
  ASSUME NEW c \in Account, NEW a \in Authorities
  PROVE  /\ [c EXCEPT !.authority = a] \in Account
         /\ LayoutGrows(c, [c EXCEPT !.authority = a])
         /\ KeepsChoices(c, [c EXCEPT !.authority = a])
         /\ [c EXCEPT !.authority = a].layout = c.layout
BY DEF Account, LayoutGrows, KeepsChoices

LEMMA OperatorChanges ==
  ASSUME NEW c \in Account, NEW t \in BOOLEAN, NEW k \in Keys \cup {Nobody}
  PROVE  /\ [c EXCEPT !.tuned = t] \in Account
         /\ LayoutGrows(c, [c EXCEPT !.tuned = t])
         /\ [c EXCEPT !.pending = k] \in Account
         /\ LayoutGrows(c, [c EXCEPT !.pending = k])
         /\ [c EXCEPT !.operator = c.pending, !.pending = Nobody] \in Account
         /\ LayoutGrows(c, [c EXCEPT !.operator = c.pending, !.pending = Nobody])
<1>1. c.pending \in Keys \cup {Nobody}
  BY DEF Account
<1> QED
  BY <1>1 DEF Account, LayoutGrows

LEMMA Migration ==
  ASSUME NEW c \in Account, c.layout = "old"
  PROVE  LET d == [c EXCEPT !.layout = "current", !.tuned = FALSE, !.pending = Nobody]
         IN  /\ d \in Account /\ LayoutGrows(c, d) /\ KeepsChoices(c, d)
             /\ d.layout = "current"
BY DEF Account, LayoutGrows, KeepsChoices

\* A transaction of a script that succeeds leaves its config fit, and does not touch
\* what the operator chose.
LEMMA SendLeaves ==
  ASSUME DP!DeploymentAssumption, DP!TypeOK,
         NEW s \in DP!Scripts, NEW p \in DP!Programs, DP!Succeeds(s, p),
         s = "initialize" /\ script[s].saw = "present" => config[p].layout # "none"
  PROVE  /\ DP!Sends(s, p) \in Account
         /\ LayoutGrows(config[p], DP!Sends(s, p))
         /\ KeepsChoices(config[p], DP!Sends(s, p))
         /\ Fit(s, DP!Sends(s, p))
<1> DEFINE c == config[p]
<1>1. c \in Account
  BY DEF DP!TypeOK, Account
<1>2. Wanted[p] \in Authorities
  BY DEF DP!DeploymentAssumption, DP!Programs
<1>3. CASE s = "migrate"
  <2>1. c.layout = "old"
    BY <1>3 DEF DP!Succeeds, DP!CanMigrate
  <2>2. DP!Sends(s, p)
          = [c EXCEPT !.layout = "current", !.tuned = FALSE, !.pending = Nobody]
    BY <1>3 DEF DP!Sends, DP!Migrated
  <2> HIDE DEF c
  <2>3. Fit(s, [c EXCEPT !.layout = "current", !.tuned = FALSE, !.pending = Nobody])
    BY <1>1, <1>3, <2>1, Migration DEF Fit
  <2>4. /\ DP!Sends(s, p) \in Account
        /\ LayoutGrows(c, DP!Sends(s, p)) /\ KeepsChoices(c, DP!Sends(s, p))
    BY <1>1, <2>1, <2>2, Migration
  <2> QED
    BY <2>2, <2>3, <2>4 DEF c
<1>4. CASE s = "initialize" /\ script[s].saw = "missing"
  <2>1. c.layout = "none"
    BY <1>4 DEF DP!Succeeds, DP!CanInitialize
  <2>2. DP!Sends(s, p) = [layout |-> "current", operator |-> Deployer,
                          authority |-> Wanted[p], tuned |-> FALSE, pending |-> Nobody]
    BY <1>4 DEF DP!Sends, DP!Initialized
  <2>3. DP!Sends(s, p) \in Account
    BY <1>2, <2>2 DEF Account, DP!DeploymentAssumption
  <2>4. LayoutGrows(c, DP!Sends(s, p)) /\ KeepsChoices(c, DP!Sends(s, p))
    BY <2>1, <2>2 DEF LayoutGrows, KeepsChoices
  <2>5. Fit(s, DP!Sends(s, p))
    BY <1>4, <2>2 DEF Fit
  <2> QED
    BY <2>3, <2>4, <2>5
<1>5. CASE s = "initialize" /\ script[s].saw = "present"
  <2>1. CASE p = "escrow"
    <3>1. DP!Sends(s, p) = c
      BY <1>5, <2>1 DEF DP!Sends
    <3> QED
      BY <1>1, <1>5, <3>1 DEF LayoutGrows, KeepsChoices, Fit
  <2>2. CASE p # "escrow"
    <3>1. DP!Sends(s, p) = [c EXCEPT !.authority = Wanted[p]]
      BY <1>5, <2>2 DEF DP!Sends
    <3>2. c.layout # "none"
      BY <1>5
    <3> HIDE DEF c
    <3>3. /\ DP!Sends(s, p) \in Account
          /\ LayoutGrows(c, DP!Sends(s, p)) /\ KeepsChoices(c, DP!Sends(s, p))
          /\ DP!Sends(s, p).layout = c.layout
      BY <1>1, <1>2, <3>1, AuthorityChange
    <3> QED
      BY <1>5, <3>2, <3>3 DEF Fit, c
  <2> QED
    BY <2>1, <2>2
<1> QED
  BY <1>3, <1>4, <1>5 DEF DP!Succeeds

\* One config is replaced.
LEMMA OneConfig ==
  ASSUME DP!TypeOK, NEW p \in DP!Programs, NEW d \in Account,
         LayoutGrows(config[p], d), config' = [config EXCEPT ![p] = d]
  PROVE  /\ config' \in [DP!Programs -> Account]
         /\ \A q \in DP!Programs : LayoutGrows(config[q], config'[q])
<1>1. config \in [DP!Programs -> Account]
  BY DEF DP!TypeOK, Account
<1>2. ASSUME NEW q \in DP!Programs PROVE LayoutGrows(config[q], config'[q])
  <2>1. CASE q = p
    BY <1>1, <2>1
  <2>2. CASE q # p
    BY <1>1, <2>2 DEF LayoutGrows
  <2> QED
    BY <2>1, <2>2
<1> QED
  BY <1>1, <1>2

\* No config is younger than before.
Grown ==
  /\ config' \in [DP!Programs -> Account]
  /\ \A q \in DP!Programs : LayoutGrows(config[q], config'[q])

LEMMA NothingReplaced ==
  ASSUME DP!TypeOK, UNCHANGED config
  PROVE  Grown
BY DEF Grown, DP!TypeOK, Account, LayoutGrows

LEMMA OneReplaced ==
  ASSUME DP!TypeOK, NEW p \in DP!Programs, NEW d \in Account,
         LayoutGrows(config[p], d), config' = [config EXCEPT ![p] = d]
  PROVE  Grown
BY OneConfig DEF Grown

LEMMA FitStays ==
  ASSUME NEW s, NEW c, NEW d, LayoutGrows(c, d), Fit(s, c)
  PROVE  Fit(s, d)
BY DEF LayoutGrows, Fit

\* A script that did not move keeps what it knows ...
LEMMA ScriptRests ==
  ASSUME DP!TypeOK, Grown, NEW s \in DP!Scripts, ScriptInv(s), script'[s] = script[s]
  PROVE  ScriptInv(s)'
<1>1. script[s].at \in 1..3
  BY DEF DP!TypeOK
<1>2. DP!Current(s)' = DP!Current(s) /\ DP!Current(s) \in DP!Programs
  BY <1>1, OrderIsAll DEF DP!Current, DP!Order
<1>3. \A q \in DP!Programs : Fit(s, config[q]) => Fit(s, config'[q])
  BY FitStays DEF Grown
<1>4. \A k \in 1..3 : DP!Order(s)[k] \in DP!Programs
  BY OrderIsAll
<1>5. \A k \in 1..3 : k < script'[s].at => Fit(s, config'[DP!Order(s)[k]])
  BY <1>3, <1>4 DEF ScriptInv
<1>6. s = "initialize" /\ script'[s].saw = "present" => Fit(s, config'[DP!Current(s)'])
  BY <1>2, <1>3 DEF ScriptInv
<1>7. script'[s].status = "done" => \A p \in DP!Programs : Fit(s, config'[p])
  BY <1>3 DEF ScriptInv
<1>8. DP!Order(s)' = DP!Order(s) /\ DP!Programs' = DP!Programs
  BY DEF DP!Order, DP!Programs
<1> QED
  BY <1>5, <1>6, <1>7, <1>8 DEF ScriptInv, Fit

\* ... one that begins, or ends early, claims nothing ...
LEMMA ScriptClaimsNothing ==
  ASSUME NEW s \in DP!Scripts,
         script'[s].at = 1, script'[s].saw = "nothing", script'[s].status # "done"
  PROVE  ScriptInv(s)'
BY DEF ScriptInv

\* ... and one that moves on leaves a fit config behind.
LEMMA ScriptMovesOn ==
  ASSUME DP!TypeOK, Grown, NEW s \in DP!Scripts, ScriptInv(s),
         Fit(s, config'[DP!Current(s)]), DP!Advance(s)
  PROVE  ScriptInv(s)'
<1> DEFINE at == script[s].at
<1>1. at \in 1..3 /\ DP!Current(s) = DP!Order(s)[at]
  BY DEF DP!TypeOK, DP!Current
<1>2. script'[s] = IF at = 3 THEN [status |-> "done", at |-> 1, saw |-> "nothing"]
                   ELSE [status |-> "running", at |-> at + 1, saw |-> "nothing"]
  BY DEF DP!Advance, DP!Sets, DP!TypeOK, DP!Idle
<1>3. \A q \in DP!Programs : Fit(s, config[q]) => Fit(s, config'[q])
  BY FitStays DEF Grown
<1>4. \A k \in 1..3 : DP!Order(s)[k] \in DP!Programs
  BY OrderIsAll
<1>5. \A k \in 1..3 : k <= at => Fit(s, config'[DP!Order(s)[k]])
  <2> SUFFICES ASSUME NEW k \in 1..3, k <= at PROVE Fit(s, config'[DP!Order(s)[k]])
    OBVIOUS
  <2>1. CASE k = at
    BY <1>1, <2>1
  <2>2. CASE k < at
    BY <1>3, <1>4, <2>2 DEF ScriptInv
  <2> HIDE DEF at
  <2> QED
    BY <1>1, <2>1, <2>2
<1>6. at = 3 => \A p \in DP!Programs : Fit(s, config'[p])
  BY <1>5, OrderIsAll
<1>7. script'[s].saw = "nothing"
  BY <1>2
<1>8. \A k \in 1..3 : k < script'[s].at => k <= at
  BY <1>1, <1>2
<1>9. script'[s].status = "done" => at = 3
  BY <1>2
<1>10. DP!Order(s)' = DP!Order(s) /\ DP!Programs' = DP!Programs
  BY DEF DP!Order, DP!Programs
<1> QED
  BY <1>5, <1>6, <1>7, <1>8, <1>9, <1>10 DEF ScriptInv, Fit

LEMMA OtherScriptRests ==
  ASSUME DP!TypeOK, NEW s \in DP!Scripts, NEW progress, DP!Sets(s, progress)
  PROVE  /\ script'[s] = progress
         /\ \A t \in DP!Scripts \ {s} : script'[t] = script[t]
         /\ progress \in Progress => script' \in [DP!Scripts -> Progress]
BY DEF DP!Sets, DP!TypeOK, Progress

LEMMA CallsAndFaults ==
  ASSUME DP!DeploymentAssumption, DP!TypeOK,
         \/ calls' = calls
         \/ calls < MaxCalls /\ calls' = calls + 1,
         \/ faults' = faults
         \/ faults < MaxFaults /\ faults' = faults + 1
  PROVE  calls' \in 0..MaxCalls /\ faults' \in 0..MaxFaults
BY DEF DP!DeploymentAssumption, DP!TypeOK

\* Together: a step that sets one script, and grows the configs.
LEMMA ScriptSets ==
  ASSUME DP!DeploymentAssumption, DeploymentInv, Grown,
         NEW s \in DP!Scripts, NEW progress \in Progress, DP!Sets(s, progress),
         ScriptInv(s)',
         calls' = calls,
         \/ faults' = faults
         \/ faults < MaxFaults /\ faults' = faults + 1
  PROVE  DeploymentInv'
<1>1. DP!TypeOK
  BY DEF DeploymentInv
<1>2. /\ script' \in [DP!Scripts -> Progress]
      /\ \A t \in DP!Scripts \ {s} : script'[t] = script[t]
  BY <1>1, OtherScriptRests
<1>3. calls' \in 0..MaxCalls /\ faults' \in 0..MaxFaults
  BY <1>1, CallsAndFaults
<1>4. DP!TypeOK'
  BY <1>2, <1>3 DEF Grown, DP!TypeOK, Account, Progress, DP!Programs, DP!Scripts
<1>5. ASSUME NEW t \in DP!Scripts PROVE ScriptInv(t)'
  <2>1. CASE t = s
    BY <2>1
  <2>2. CASE t # s
    BY <1>1, <1>2, <2>2, ScriptRests DEF DeploymentInv
  <2> QED
    BY <2>1, <2>2
<1>6. DP!Scripts' = DP!Scripts
  BY DEF DP!Scripts
<1> QED
  BY <1>4, <1>5, <1>6 DEF DeploymentInv

LEMMA StartStep ==
  ASSUME DP!DeploymentAssumption, DeploymentInv, NEW s \in DP!Scripts, DP!Start(s)
  PROVE  DeploymentInv'
<1> DEFINE progress == [status |-> "running", at |-> 1, saw |-> "nothing"]
<1>1. DP!Sets(s, progress) /\ UNCHANGED <<config, calls, faults>>
  BY DEF DP!Start, DP!Idle
<1>2. progress \in Progress
  BY DEF Progress
<1>3. Grown
  BY <1>1, NothingReplaced DEF DeploymentInv
<1>4. ScriptInv(s)'
  <2>1. script'[s] = progress
    BY <1>1, OtherScriptRests DEF DeploymentInv
  <2> QED
    BY <2>1, ScriptClaimsNothing
<1> HIDE DEF progress
<1> QED
  BY <1>1, <1>2, <1>3, <1>4, ScriptSets

LEMMA LookStep ==
  ASSUME DP!DeploymentAssumption, DeploymentInv, NEW s \in DP!Scripts, DP!Look(s)
  PROVE  DeploymentInv'
<1> DEFINE progress == [script[s] EXCEPT !.saw = IF config[DP!Current(s)].layout = "none"
                                                  THEN "missing" ELSE "present"]
<1>1. DP!Sets(s, progress) /\ UNCHANGED <<config, calls, faults>>
  BY DEF DP!Look
<1>2. /\ progress \in Progress /\ progress.at = script[s].at
      /\ progress.status = script[s].status
      /\ progress.saw = "present" => config[DP!Current(s)].layout # "none"
  BY DEF DeploymentInv, DP!TypeOK, Progress
<1>3. Grown
  BY <1>1, NothingReplaced DEF DeploymentInv
<1>4. s = "initialize" /\ script[s].status = "running"
  BY DEF DP!Look, DP!Running
<1> HIDE DEF progress
<1>5. script'[s] = progress
  BY <1>1, OtherScriptRests DEF DeploymentInv
<1>6. ScriptInv(s)'
  <2>1. /\ \A k \in 1..3 : k < script'[s].at => Fit(s, config'[DP!Order(s)[k]])
        /\ DP!Current(s)' = DP!Current(s)
    BY <1>1, <1>2, <1>5 DEF DeploymentInv, ScriptInv, DP!Current, DP!Order
  <2>2. script'[s].saw = "present" => Fit(s, config'[DP!Current(s)'])
    BY <1>1, <1>2, <1>4, <1>5, <2>1 DEF Fit
  <2>3. script'[s].status # "done"
    BY <1>2, <1>4, <1>5
  <2>4. DP!Order(s)' = DP!Order(s)
    BY DEF DP!Order
  <2> QED
    BY <2>1, <2>2, <2>3, <2>4 DEF ScriptInv, Fit
<1> QED
  BY <1>1, <1>2, <1>3, <1>6, ScriptSets

\* What a successful transaction of a script does to the configs, whether or not the
\* script hears of it.
LEMMA TransactionLands ==
  ASSUME DP!DeploymentAssumption, DeploymentInv, NEW s \in DP!Scripts,
         DP!Succeeds(s, DP!Current(s)),
         config' = [config EXCEPT ![DP!Current(s)] = DP!Sends(s, DP!Current(s))]
  PROVE  /\ Grown
         /\ Fit(s, config'[DP!Current(s)])
         /\ \A p \in DP!Programs : KeepsChoices(config[p], config'[p])
<1>1. PICK p : p = DP!Current(s)
  OBVIOUS
<1>2. p \in DP!Programs
  <2>1. script[s].at \in 1..3
    BY DEF DeploymentInv, DP!TypeOK
  <2> QED
    BY <1>1, <2>1, OrderIsAll DEF DP!Current
<1>3. s = "initialize" /\ script[s].saw = "present" => config[p].layout # "none"
  BY <1>1 DEF DeploymentInv, ScriptInv, Fit
<1>4. PICK d : d = DP!Sends(s, p)
  OBVIOUS
<1>5. /\ d \in Account /\ LayoutGrows(config[p], d)
      /\ KeepsChoices(config[p], d) /\ Fit(s, d)
  BY <1>1, <1>2, <1>3, <1>4, SendLeaves DEF DeploymentInv
<1>6. config' = [config EXCEPT ![p] = d]
  BY <1>1, <1>4
<1>7. config'[p] = d /\ \A q \in DP!Programs \ {p} : config'[q] = config[q]
  BY <1>2, <1>6 DEF DeploymentInv, DP!TypeOK
<1>8. Grown
  BY <1>2, <1>5, <1>6, OneReplaced DEF DeploymentInv
<1>9. ASSUME NEW q \in DP!Programs PROVE KeepsChoices(config[q], config'[q])
  <2>1. CASE q = p
    BY <1>5, <1>7, <2>1
  <2>2. CASE q # p
    BY <1>7, <2>2 DEF KeepsChoices
  <2> QED
    BY <2>1, <2>2
<1> QED
  BY <1>1, <1>5, <1>7, <1>8, <1>9

LEMMA AbortStep ==
  ASSUME DP!DeploymentAssumption, DeploymentInv, Grown, NEW s \in DP!Scripts, DP!Abort(s),
         calls' = calls,
         \/ faults' = faults
         \/ faults < MaxFaults /\ faults' = faults + 1
  PROVE  DeploymentInv'
<1> DEFINE progress == [status |-> "ended", at |-> 1, saw |-> "nothing"]
<1>1. DP!Sets(s, progress)
  BY DEF DP!Abort, DP!Idle
<1>2. progress \in Progress
  BY DEF Progress
<1>3. script'[s] = progress
  BY <1>1, OtherScriptRests DEF DeploymentInv
<1>4. ScriptInv(s)'
  BY <1>3, ScriptClaimsNothing
<1> HIDE DEF progress
<1> QED
  BY <1>1, <1>2, <1>4, ScriptSets

LEMMA AdvanceStep ==
  ASSUME DP!DeploymentAssumption, DeploymentInv, Grown, NEW s \in DP!Scripts, DP!Advance(s),
         Fit(s, config'[DP!Current(s)]), UNCHANGED <<calls, faults>>
  PROVE  DeploymentInv'
<1> DEFINE progress == IF script[s].at = 3 THEN [DP!Idle EXCEPT !.status = "done"]
          ELSE [status |-> "running", at |-> script[s].at + 1, saw |-> "nothing"]
<1>1. DP!Sets(s, progress)
  BY DEF DP!Advance
<1>2. progress \in Progress
  <2>1. script[s].at \in 1..3
    BY DEF DeploymentInv, DP!TypeOK
  <2> QED
    BY <2>1 DEF Progress, DP!Idle
<1>3. ScriptInv(s)'
  BY ScriptMovesOn DEF DeploymentInv
<1> HIDE DEF progress
<1> QED
  BY <1>1, <1>2, <1>3, ScriptSets

LEMMA SendStep ==
  ASSUME DP!DeploymentAssumption, DeploymentInv, NEW s \in DP!Scripts, DP!Send(s)
  PROVE  DeploymentInv'
<1>1. CASE DP!Succeeds(s, DP!Current(s))
  <2>1. /\ config' = [config EXCEPT ![DP!Current(s)] = DP!Sends(s, DP!Current(s))]
        /\ DP!Advance(s) /\ UNCHANGED <<calls, faults>>
    BY <1>1 DEF DP!Send
  <2>2. Grown /\ Fit(s, config'[DP!Current(s)])
    BY <1>1, <2>1, TransactionLands
  <2> QED
    BY <2>1, <2>2, AdvanceStep
<1>2. CASE ~DP!Succeeds(s, DP!Current(s))
  <2>1. UNCHANGED <<config, calls, faults>>
    BY <1>2 DEF DP!Send
  <2>2. Grown
    BY <2>1, NothingReplaced DEF DeploymentInv
  <2>3. CASE DP!Tolerated(s, DP!Current(s)) /\ DP!Advance(s)
    <3>1. Fit(s, config'[DP!Current(s)])
      BY <2>1, <2>3 DEF DP!Tolerated, DP!AlreadyMigrated, Fit
    <3> QED
      BY <2>1, <2>2, <2>3, <3>1, AdvanceStep
  <2>4. CASE DP!Abort(s)
    BY <2>1, <2>2, <2>4, AbortStep
  <2> QED
    BY <1>2, <2>3, <2>4 DEF DP!Send
<1> QED
  BY <1>1, <1>2

LEMMA FaultSteps ==
  ASSUME DP!DeploymentAssumption, DeploymentInv, NEW s \in DP!Scripts,
         DP!Killed(s) \/ DP!AnswerLost(s)
  PROVE  DeploymentInv'
<1>1. /\ DP!Abort(s) /\ calls' = calls
      /\ faults < MaxFaults /\ faults' = faults + 1
  BY DEF DP!Killed, DP!AnswerLost, DP!Fault
<1>2. Grown
  <2>1. CASE UNCHANGED config
    BY <2>1, NothingReplaced DEF DeploymentInv
  <2>2. CASE /\ DP!Succeeds(s, DP!Current(s))
             /\ config' = [config EXCEPT ![DP!Current(s)] = DP!Sends(s, DP!Current(s))]
    BY <2>2, TransactionLands
  <2> QED
    BY <2>1, <2>2 DEF DP!Killed, DP!AnswerLost
<1> QED
  BY <1>1, <1>2, AbortStep

\* An instruction sent by hand: a config grows, and the scripts do not move.
LEMMA ByHandStep ==
  ASSUME DP!DeploymentAssumption, DeploymentInv, NEW p \in DP!Programs,
         NEW account \in Account, LayoutGrows(config[p], account), DP!ByHand(p, account)
  PROVE  DeploymentInv'
<1>1. /\ config' = [config EXCEPT ![p] = account] /\ UNCHANGED <<script, faults>>
      /\ calls < MaxCalls /\ calls' = calls + 1
  BY DEF DP!ByHand
<1>2. Grown
  BY <1>1, OneReplaced DEF DeploymentInv
<1>3. calls' \in 0..MaxCalls /\ faults' \in 0..MaxFaults
  BY <1>1, CallsAndFaults DEF DeploymentInv
<1>4. DP!TypeOK'
  BY <1>1, <1>2, <1>3
     DEF DeploymentInv, Grown, DP!TypeOK, Account, DP!Programs, DP!Scripts
<1>5. \A s \in DP!Scripts : ScriptInv(s)'
  BY <1>1, <1>2, ScriptRests DEF DeploymentInv
<1>6. DP!Scripts' = DP!Scripts
  BY DEF DP!Scripts
<1> QED
  BY <1>4, <1>5, <1>6 DEF DeploymentInv

LEMMA InstructionStep ==
  ASSUME DP!DeploymentAssumption, DeploymentInv, NEW p \in DP!Programs, NEW key \in Keys,
         \/ \E authority \in Authorities : DP!SetAuthority(p, key, authority)
         \/ \E tuned \in BOOLEAN : DP!Tune(p, key, tuned)
         \/ \E successor \in Keys \cup {Nobody} : DP!ProposeOperator(p, key, successor)
         \/ DP!AcceptOperator(p, key)
         \/ DP!MigrateByHand(p, key)
  PROVE  DeploymentInv' /\ script' = script
<1>1. PICK c : c = config[p]
  OBVIOUS
<1>2. c \in Account
  BY <1>1 DEF DeploymentInv, DP!TypeOK, Account
<1>3. \E d \in Account : LayoutGrows(c, d) /\ DP!ByHand(p, d)
  <2>1. ASSUME NEW a \in Authorities, DP!SetAuthority(p, key, a)
        PROVE  \E d \in Account : LayoutGrows(c, d) /\ DP!ByHand(p, d)
    <3>1. DP!ByHand(p, [c EXCEPT !.authority = a])
      BY <1>1, <2>1 DEF DP!SetAuthority
    <3> QED
      BY <1>2, <3>1, AuthorityChange
  <2>2. ASSUME NEW t \in BOOLEAN, DP!Tune(p, key, t)
        PROVE  \E d \in Account : LayoutGrows(c, d) /\ DP!ByHand(p, d)
    <3>1. DP!ByHand(p, [c EXCEPT !.tuned = t])
      BY <1>1, <2>2 DEF DP!Tune
    <3> QED
      BY <1>2, <3>1, OperatorChanges
  <2>3. ASSUME NEW k \in Keys \cup {Nobody}, DP!ProposeOperator(p, key, k)
        PROVE  \E d \in Account : LayoutGrows(c, d) /\ DP!ByHand(p, d)
    <3>1. DP!ByHand(p, [c EXCEPT !.pending = k])
      BY <1>1, <2>3 DEF DP!ProposeOperator
    <3> QED
      BY <1>2, <3>1, OperatorChanges
  <2>4. ASSUME DP!AcceptOperator(p, key)
        PROVE  \E d \in Account : LayoutGrows(c, d) /\ DP!ByHand(p, d)
    <3>1. DP!ByHand(p, [c EXCEPT !.operator = c.pending, !.pending = Nobody])
      BY <1>1, <2>4 DEF DP!AcceptOperator, DP!Accepted
    <3> QED
      BY <1>2, <3>1, OperatorChanges
  <2>5. ASSUME DP!MigrateByHand(p, key)
        PROVE  \E d \in Account : LayoutGrows(c, d) /\ DP!ByHand(p, d)
    <3>1. DP!ByHand(p, [c EXCEPT !.layout = "current", !.tuned = FALSE, !.pending = Nobody])
      BY <1>1, <2>5 DEF DP!MigrateByHand, DP!Migrated
    <3>2. c.layout = "old"
      BY <1>1, <2>5 DEF DP!MigrateByHand, DP!CanMigrate
    <3> QED
      BY <1>2, <3>1, <3>2, Migration
  <2> QED
    BY <2>1, <2>2, <2>3, <2>4, <2>5
<1>4. DeploymentInv'
  BY <1>1, <1>3, ByHandStep
<1> QED
  BY <1>3, <1>4 DEF DP!ByHand

LEMMA DeploymentInvInit ==
  ASSUME DP!DeploymentAssumption, DP!Init
  PROVE  DeploymentInv
<1>1. /\ script = [s \in DP!Scripts |-> [status |-> "ended", at |-> 1, saw |-> "nothing"]]
      /\ calls = 0 /\ faults = 0
  BY DEF DP!Init, DP!Idle
<1>2. config \in [DP!Programs -> Account]
  <2>0. PICK live \in SUBSET DP!Programs : \E authority \in [DP!Programs -> Authorities] :
          config = [p \in DP!Programs |->
                      IF p \in live THEN DP!Before(p, authority[p]) ELSE DP!Missing]
    <3>1. \A live \in {{}, {"bridge"}, {"bridge", "registry"}, DP!Programs} :
            live \in SUBSET DP!Programs
      BY DEF DP!Programs
    <3> QED
      BY <3>1, Zenon DEF DP!Init
  <2>1. PICK authority \in [DP!Programs -> Authorities] :
          config = [p \in DP!Programs |->
                      IF p \in live THEN DP!Before(p, authority[p]) ELSE DP!Missing]
    BY <2>0
  <2>2. \A p \in DP!Programs : DP!Before(p, authority[p]) \in Account
    BY DEF DP!Before, Account, DP!DeploymentAssumption
  <2>3. DP!Missing \in Account
    BY DEF DP!Missing, Account
  <2> QED
    BY <2>1, <2>2, <2>3
<1>3. DP!TypeOK
  BY <1>1, <1>2 DEF DP!TypeOK, Account, DP!DeploymentAssumption
<1>4. \A s \in DP!Scripts : ScriptInv(s)
  BY <1>1 DEF ScriptInv
<1> QED
  BY <1>3, <1>4 DEF DeploymentInv

LEMMA DeploymentInvStep ==
  ASSUME DP!DeploymentAssumption, DeploymentInv, [DP!Next]_DP!vars
  PROVE  DeploymentInv'
<1>1. ASSUME NEW s \in DP!Scripts, DP!ScriptStep(s) \/ DP!Killed(s) \/ DP!AnswerLost(s)
      PROVE  DeploymentInv'
  BY <1>1, StartStep, LookStep, SendStep, FaultSteps DEF DP!ScriptStep
<1>2. ASSUME UNCHANGED DP!vars PROVE DeploymentInv'
  BY <1>2 DEF DeploymentInv, DP!vars, DP!TypeOK, DP!Programs, DP!Scripts,
              ScriptInv, DP!Order, DP!Current, Fit
<1> QED
  BY <1>1, <1>2, InstructionStep DEF DP!Next

LEMMA DeploymentInvImplies ==
  ASSUME DeploymentInv
  PROVE  DP!TypeOK /\ DP!ReportedDoneIsDone
<1>1. "migrate" \in DP!Scripts /\ "initialize" \in DP!Scripts
  BY DEF DP!Scripts
<1> QED
  BY <1>1 DEF DeploymentInv, ScriptInv, Fit, DP!ReportedDoneIsDone

\* migrate-configs that ends with "Done." leaves every config in the current layout,
\* initialize-programs leaves every config in being, for any keys, any instructions
\* operators send meanwhile, and any number of killed runs and lost answers.
THEOREM DeploymentCorrect ==
  ASSUME DP!DeploymentAssumption
  PROVE  DP!Spec => [](DP!TypeOK /\ DP!ReportedDoneIsDone)
<1>1. DP!Init => DeploymentInv
  BY DeploymentInvInit
<1>2. DeploymentInv /\ [DP!Next]_DP!vars => DeploymentInv'
  BY DeploymentInvStep
<1>3. DeploymentInv => DP!TypeOK /\ DP!ReportedDoneIsDone
  BY DeploymentInvImplies
<1> QED
  BY <1>1, <1>2, <1>3, PTL DEF DP!Spec

LEMMA ScriptStepKeeps ==
  ASSUME DP!DeploymentAssumption, DeploymentInv, [DP!Next]_DP!vars, script' # script,
         NEW p \in DP!Programs
  PROVE  KeepsChoices(config[p], config'[p])
<1>1. PICK s \in DP!Scripts : DP!ScriptStep(s) \/ DP!Killed(s) \/ DP!AnswerLost(s)
  BY InstructionStep DEF DP!Next, DP!vars
<1>2. \/ UNCHANGED config
      \/ /\ DP!Succeeds(s, DP!Current(s))
         /\ config' = [config EXCEPT ![DP!Current(s)] = DP!Sends(s, DP!Current(s))]
  BY <1>1 DEF DP!ScriptStep, DP!Start, DP!Look, DP!Send, DP!Killed, DP!AnswerLost
<1>3. CASE UNCHANGED config
  BY <1>3 DEF KeepsChoices
<1>4. CASE /\ DP!Succeeds(s, DP!Current(s))
           /\ config' = [config EXCEPT ![DP!Current(s)] = DP!Sends(s, DP!Current(s))]
  BY <1>4, TransactionLands
<1> QED
  BY <1>2, <1>3, <1>4

\* A script that is run again, by whoever holds the deployer's key, leaves a config of
\* the current layout its settings, its operator and a hand-over under way: only the
\* authority initialize-programs wires can change.
THEOREM ScriptsRespectOperators ==
  ASSUME DP!DeploymentAssumption
  PROVE  DP!Spec => DP!ScriptsKeepChoices
<1>1. DP!Init => DeploymentInv
  BY DeploymentInvInit
<1>2. DeploymentInv /\ [DP!Next]_DP!vars => DeploymentInv'
  BY DeploymentInvStep
<1>3. DeploymentInv /\ [DP!Next]_DP!vars =>
        [script' # script =>
           \A p \in DP!Programs : config[p].layout = "current" =>
             /\ config'[p].layout = "current"
             /\ config'[p].operator = config[p].operator
             /\ config'[p].tuned = config[p].tuned
             /\ config'[p].pending = config[p].pending]_DP!vars
  BY ScriptStepKeeps DEF KeepsChoices
<1> QED
  BY <1>1, <1>2, <1>3, PTL DEF DP!Spec, DP!ScriptsKeepChoices
-----------------------------------------------------------------------------
(***************************************************************************)
(* A client                                                                 *)
(*                                                                          *)
(* Which agent a call is for is the caller's word.  The proof never asks    *)
(* what the builder filled in, but for the account the money goes to: the   *)
(* constraints of dag_escrow and of the programs it calls leave no choice.  *)
(***************************************************************************)
CONSTANTS Agents, NodeCounts, PACKET_DATA_SIZE
VARIABLES nodes, node, call, seen, accounts

CI == INSTANCE Client

\* Two ways to write a sequence of one element.
LEMMA OneEntry == ASSUME NEW x PROVE [i \in 1..1 |-> x] = <<x>>
<1> DEFINE f == [i \in 1..1 |-> x]
<1>1. DOMAIN f = {1} /\ f[1] = x
  BY Z3
<1>2. DOMAIN <<x>> = {1} /\ <<x>>[1] = x
  OBVIOUS
<1> QED
  BY <1>1, <1>2, Z3

\* An address derived from one seed is the one with that seed's address in it.
LEMMA OneSeed ==
  ASSUME NEW program, program \notin {"known", "data"},
         NEW label, NEW seed, NEW env
  PROVE  CI!Address(CI!PdaOf(program, label, <<seed>>), env) =
           CI!PdaOf(program, label, <<CI!Seed(seed, env)>>)
<1> DEFINE d == CI!PdaOf(program, label, <<seed>>)
           seeds == [i \in 1..Len(d.seeds) |-> CI!Seed(d.seeds[i], env)]
<1>1. d = [under |-> program, label |-> label, seeds |-> <<seed>>]
  BY DEF CI!PdaOf
<1>2. CI!Address(d, env) = [d EXCEPT !.seeds = seeds]
  BY <1>1 DEF CI!Address
<1>3. Len(d.seeds) = 1 /\ d.seeds[1] = seed
  BY <1>1
<1>4. seeds = <<CI!Seed(seed, env)>>
  <2>1. \A i \in 1..1 : d.seeds[i] = seed
    BY <1>3
  <2>2. seeds = [i \in 1..1 |-> CI!Seed(seed, env)]
    BY <1>3, <2>1
  <2> QED
    BY <2>2, OneEntry
<1> HIDE DEF seeds
<1>5. [d EXCEPT !.seeds = seeds] = [under |-> program, label |-> label, seeds |-> seeds]
  BY <1>1
<1> QED
  BY <1>2, <1>4, <1>5 DEF CI!PdaOf


\* The accounts a called program sees, and the job's id in its arguments.
Theirs(inner, env) ==
  CI!@@([a \in inner.ix.accounts |-> env[inner.pass[a]]], [jobId |-> CI!JobOf(node.agent)])

\* What the called program finds at each of its accounts.
LEMMA TheirAccounts ==
  ASSUME NEW inner, NEW env
  PROVE  /\ DOMAIN Theirs(inner, env) = inner.ix.accounts \cup {"jobId"}
         /\ \A a \in inner.ix.accounts : Theirs(inner, env)[a] = env[inner.pass[a]]
         /\ "jobId" \notin inner.ix.accounts => Theirs(inner, env)["jobId"] = CI!JobOf(node.agent)
BY DEF Theirs, CI!@@

\* An account that the called program derives from one seed has that address.
LEMMA CheckedByCallee ==
  ASSUME NEW inner, NEW ix, NEW env, CI!InnerAccepted(inner, ix, env),
         NEW a \in inner.ix.accounts, a \in DOMAIN inner.ix.derives,
         NEW program, program \notin {"known", "data"}, NEW label, NEW seed,
         inner.ix.derives[a] = CI!PdaOf(program, label, <<seed>>)
  PROVE  /\ inner.pass[a] \in DOMAIN env
         /\ env[inner.pass[a]] =
              CI!PdaOf(program, label, <<CI!Seed(seed, Theirs(inner, env))>>)
<1>1. inner.pass[a] \in DOMAIN env
  BY DEF CI!InnerAccepted
<1>2. CI!DerivationsHold(inner.ix, Theirs(inner, env))
  BY DEF CI!InnerAccepted, Theirs
<1>3. a \in DOMAIN Theirs(inner, env) /\ Theirs(inner, env)[a] = env[inner.pass[a]]
  BY TheirAccounts, Zenon
<1>4. Theirs(inner, env)[a] = CI!Address(inner.ix.derives[a], Theirs(inner, env))
  BY <1>2, <1>3 DEF CI!DerivationsHold
<1>5. CI!Address(inner.ix.derives[a], Theirs(inner, env)) =
        CI!PdaOf(program, label, <<CI!Seed(seed, Theirs(inner, env))>>)
  <2>1. CI!Address(CI!PdaOf(program, label, <<seed>>), Theirs(inner, env)) =
          CI!PdaOf(program, label, <<CI!Seed(seed, Theirs(inner, env))>>)
    BY OneSeed
  <2> QED
    BY <2>1
<1> QED
  BY <1>1, <1>3, <1>4, <1>5

\* The registry counts a job off on a stake account that is the one of the agent in it.
LEMMA CountsOnItsStake ==
  ASSUME NEW ix, NEW env,
         CI!InnerAccepted(CI!Inner(CI!br_decrementOpenJobs, CI!MutateOpenJobs), ix, env)
  PROVE  /\ "agentStake" \in DOMAIN env
         /\ env["agentStake"] = CI!agentStakePda(CI!StakesAgent(env["agentStake"]))
<1> DEFINE inner == CI!Inner(CI!br_decrementOpenJobs, CI!MutateOpenJobs)
           at == CI!PdaOf("bonded_registry", "agent_stake", <<"agentStake.agent">>)
<1>1. inner.ix = CI!br_decrementOpenJobs /\ inner.pass = CI!MutateOpenJobs
  BY DEF CI!Inner
<1>2. "agentStake" \in inner.ix.accounts /\ inner.pass["agentStake"] = "agentStake"
  BY <1>1 DEF CI!br_decrementOpenJobs, CI!MutateOpenJobs, CI!Instruction
<1>3. inner.ix.derives = CI!@@(CI!ConfigAt, CI!StakeOfItsAgent)
  BY <1>1 DEF CI!br_decrementOpenJobs, CI!Instruction
<1>4. CI!StakeOfItsAgent = CI!:>("agentStake", at) /\ DOMAIN CI!ConfigAt = {"config"}
  BY DEF CI!StakeOfItsAgent, CI!ConfigAt, CI!:>
<1> HIDE DEF inner, at
<1>5. "agentStake" \in DOMAIN inner.ix.derives /\ inner.ix.derives["agentStake"] = at
  BY <1>3, <1>4 DEF CI!@@, CI!:>
<1>6. /\ "agentStake" \in DOMAIN env
      /\ env["agentStake"] =
           CI!PdaOf("bonded_registry", "agent_stake",
                    <<CI!Seed("agentStake.agent", Theirs(inner, env))>>)
  <2>1. CI!InnerAccepted(inner, ix, env)
    BY DEF inner
  <2> QED
    BY <1>2, <1>5, <2>1, CheckedByCallee DEF at
<1>7. CI!Seed("agentStake.agent", Theirs(inner, env)) = CI!StakesAgent(env["agentStake"])
  <2>1. Theirs(inner, env)["agentStake"] = env["agentStake"]
    <3>1. Theirs(inner, env)["agentStake"] = env[inner.pass["agentStake"]]
      BY <1>2, TheirAccounts, Zenon
    <3> QED
      BY <1>2, <3>1
  <2> QED
    BY <2>1 DEF CI!Seed
<1> QED
  BY <1>6, <1>7 DEF CI!agentStakePda

\* The two ways to record an outcome derive the same accounts.
LEMMA RecordsTheJob ==
  ASSUME NEW ix, NEW env, NEW payer,
         NEW record \in {CI!rb_recordCompletion, CI!rb_recordFailure},
         CI!InnerAccepted(CI!Inner(record, CI!RecordOutcome(payer)), ix, env)
  PROVE  /\ {"agent", "agentReputation", "jobRecord"} \subseteq DOMAIN env
         /\ env["agentReputation"] = CI!reputationPda(env["agent"])
         /\ env["jobRecord"] = CI!jobRecordPda(CI!JobOf(node.agent))
<1> DEFINE inner == CI!Inner(record, CI!RecordOutcome(payer))
           score == CI!PdaOf("reputation_bridge", "reputation", <<"agent">>)
           receipt == CI!PdaOf("reputation_bridge", "job_record", <<"jobId">>)
<1>1. inner.ix = record /\ inner.pass = CI!RecordOutcome(payer)
  BY DEF CI!Inner
<1>2. /\ {"agent", "agentReputation", "jobRecord"} \subseteq inner.ix.accounts
      /\ "jobId" \notin inner.ix.accounts
  BY <1>1 DEF CI!rb_recordCompletion, CI!rb_recordFailure, CI!Instruction
<1>3. /\ inner.pass["agent"] = "agent" /\ inner.pass["jobRecord"] = "jobRecord"
      /\ inner.pass["agentReputation"] = "agentReputation"
  BY <1>1 DEF CI!RecordOutcome
<1>4. inner.ix.derives = CI!@@(CI!@@(CI!BridgeConfigAt, CI!OutcomeAt), CI!System)
  BY <1>1 DEF CI!rb_recordCompletion, CI!rb_recordFailure, CI!Instruction
<1>5. DOMAIN CI!BridgeConfigAt = {"bridgeConfig"}
  BY DEF CI!BridgeConfigAt, CI!:>
<1>6. CI!OutcomeAt = CI!@@(CI!:>("agentReputation", score), CI!:>("jobRecord", receipt))
  BY DEF CI!OutcomeAt
<1> HIDE DEF inner, score, receipt
<1>7. /\ {"agentReputation", "jobRecord"} = DOMAIN CI!OutcomeAt
      /\ CI!OutcomeAt["agentReputation"] = score /\ CI!OutcomeAt["jobRecord"] = receipt
  BY <1>6 DEF CI!@@, CI!:>
<1>8. /\ {"agentReputation", "jobRecord"} \subseteq DOMAIN inner.ix.derives
      /\ inner.ix.derives["agentReputation"] = score /\ inner.ix.derives["jobRecord"] = receipt
  BY <1>4, <1>5, <1>7 DEF CI!@@
<1>9. CI!InnerAccepted(inner, ix, env)
  BY DEF inner
<1>10. /\ "agentReputation" \in DOMAIN env
       /\ env["agentReputation"] =
            CI!PdaOf("reputation_bridge", "reputation", <<CI!Seed("agent", Theirs(inner, env))>>)
  BY <1>2, <1>3, <1>8, <1>9, CheckedByCallee DEF score
<1>11. /\ "jobRecord" \in DOMAIN env
       /\ env["jobRecord"] =
            CI!PdaOf("reputation_bridge", "job_record", <<CI!Seed("jobId", Theirs(inner, env))>>)
  BY <1>2, <1>3, <1>8, <1>9, CheckedByCallee DEF receipt
<1>12. "agent" \in DOMAIN env
  BY <1>2, <1>3, <1>9 DEF CI!InnerAccepted
<1>13. CI!Seed("agent", Theirs(inner, env)) = env["agent"]
  <2>1. Theirs(inner, env)["agent"] = env["agent"]
    <3>1. "agent" \in inner.ix.accounts
      BY <1>2
    <3>2. Theirs(inner, env)["agent"] = env[inner.pass["agent"]]
      BY <3>1, TheirAccounts, Zenon
    <3> QED
      BY <1>3, <3>2
  <2> QED
    BY <2>1 DEF CI!Seed
<1>14. CI!Seed("jobId", Theirs(inner, env)) = CI!JobOf(node.agent)
  BY <1>2, TheirAccounts DEF CI!Seed
<1> QED
  BY <1>10, <1>11, <1>12, <1>13, <1>14 DEF CI!reputationPda, CI!jobRecordPda

\* What is known of a client between two steps: only a node that was claimed has an
\* agent, and the money of a job goes to the agent the builder was called for.
JobEnds == {"completeNode", "finalizeNode", "resolveDispute"}
PaysCallersAgent ==
  /\ call.name \in JobEnds =>
       /\ "agentTokenAccount" \in DOMAIN accounts
       /\ accounts["agentTokenAccount"] = CI!vaultAta(CI!Usdc, CI!Key(call.agent))
  /\ call.name = "expireNode" => "agentTokenAccount" \notin DOMAIN accounts
NodeStates == {"none", "pending", "claimed", "submitted", "disputed", "over"}
NodeInv ==
  /\ node \in [status : NodeStates, agent : Agents \cup {CI!NoAgent}]
  /\ node.status \in {"none", "pending"} => node.agent = CI!NoAgent
ClientInv ==
  /\ CI!TypeOK /\ NodeInv /\ PaysCallersAgent
  /\ call.name = "createPipeline" => call.size \in NodeCounts

\* The one thing asked of the builders: whose token account they pass.
LEMMA BuilderPays ==
  ASSUME NEW name, NEW agent, NEW read
  PROVE  LET given == CI!Built(name, agent, read).given
         IN /\ name \in JobEnds =>
                 /\ "agentTokenAccount" \in DOMAIN given
                 /\ given["agentTokenAccount"] = CI!vaultAta(CI!Usdc, CI!Key(agent))
            /\ name = "expireNode" => "agentTokenAccount" \notin DOMAIN given
<1> DEFINE given == CI!Built(name, agent, read).given
           key == CI!Key(agent)
           job == CI!JobOf(read.agent)
<1>1. \A names : DOMAIN CI!Programs(names) = names
  BY DEF CI!Programs
<1>2. /\ "agentTokenAccount" \notin DOMAIN CI!OnNode
      /\ "agentTokenAccount" \notin DOMAIN CI!NoAccounts
      /\ \A a, j : "agentTokenAccount" \notin DOMAIN CI!Reporting(a, j)
  BY <1>1 DEF CI!OnNode, CI!NoAccounts, CI!Reporting, CI!@@
<1>3. /\ "agentTokenAccount" \in DOMAIN CI!Paying(key)
      /\ CI!Paying(key)["agentTokenAccount"] = CI!vaultAta(CI!Usdc, key)
  BY DEF CI!Paying
<1>4. /\ name = "completeNode" => given = CI!completeNode(key, job)
      /\ name = "finalizeNode" => given = CI!finalizeNode(key, job)
      /\ name = "resolveDispute" => given = CI!resolveDispute(key, job)
      /\ name = "expireNode" => given = CI!expireNode(read)
  <2>0. \A n \in JobEnds \cup {"expireNode"} : n \notin DOMAIN CI!OperatorCalls
    BY DEF JobEnds, CI!OperatorCalls
  <2>1. ASSUME name = "completeNode" PROVE CI!Built(name, agent, read) =
           CI!Of(CI!de_completeNode, CI!completeNode(key, job), CI!Facilitator)
    BY <2>0, <2>1 DEF JobEnds, CI!Built
  <2>2. ASSUME name = "finalizeNode" PROVE CI!Built(name, agent, read) =
           CI!Of(CI!de_finalizeNode, CI!finalizeNode(key, job), CI!Caller)
    BY <2>0, <2>2 DEF JobEnds, CI!Built
  <2>3. ASSUME name = "resolveDispute" PROVE CI!Built(name, agent, read) =
           CI!Of(CI!de_resolveDispute, CI!resolveDispute(key, job), CI!Facilitator)
    BY <2>0, <2>3 DEF JobEnds, CI!Built
  <2>4. ASSUME name = "expireNode" PROVE CI!Built(name, agent, read) =
           CI!Of(CI!de_expireNode, CI!expireNode(read), CI!Caller)
    BY <2>0, <2>4 DEF JobEnds, CI!Built
  <2> QED
    BY <2>1, <2>2, <2>3, <2>4 DEF CI!Of
<1> HIDE DEF given
<1>5. \A f, g, x :
        /\ x \in DOMAIN f => x \in DOMAIN CI!@@(f, g) /\ CI!@@(f, g)[x] = f[x]
        /\ x \notin DOMAIN f /\ x \in DOMAIN g =>
             x \in DOMAIN CI!@@(f, g) /\ CI!@@(f, g)[x] = g[x]
        /\ x \notin DOMAIN f /\ x \notin DOMAIN g => x \notin DOMAIN CI!@@(f, g)
  BY DEF CI!@@
<1>6. "agentTokenAccount" \notin DOMAIN CI!@@(CI!OnNode, CI!Reporting(key, job))
  BY <1>2, <1>5
<1>7. LET paid == CI!@@(CI!@@(CI!OnNode, CI!Reporting(key, job)), CI!Paying(key))
      IN "agentTokenAccount" \in DOMAIN paid
           /\ paid["agentTokenAccount"] = CI!vaultAta(CI!Usdc, key)
  BY <1>3, <1>5, <1>6
<1>8. name \in JobEnds =>
        /\ "agentTokenAccount" \in DOMAIN given
        /\ given["agentTokenAccount"] = CI!vaultAta(CI!Usdc, key)
  BY <1>4, <1>5, <1>7 DEF JobEnds, CI!completeNode, CI!finalizeNode, CI!resolveDispute
<1>9. name = "expireNode" => "agentTokenAccount" \notin DOMAIN given
  <2>1. \A k : "agentTokenAccount" \notin
          {"consumerTokenAccount", "caller", "tokenProgram", "systemProgram", "agentStakeVault"}
    OBVIOUS
  <2> QED
    BY <1>1, <1>2, <1>4, <2>1 DEF CI!expireNode, CI!@@
<1> QED
  BY <1>8, <1>9 DEF given

\* The call under way takes the accounts it was built with, and adds some.
LEMMA ResolveKeepsPayee ==
  ASSUME PaysCallersAgent, NEW a, CI!Resolve(a)
  PROVE  PaysCallersAgent'
<1> DEFINE x == CI!Address(CI!Current.ix.derives[a], CI!Env)
<1>1. /\ call' = call
      /\ accounts' = CI!@@(accounts, CI!:>(a, x))
      /\ a \in CI!Current.ix.accounts /\ a \notin DOMAIN accounts
  BY DEF CI!Resolve, CI!Resolvable, CI!Open
<1> HIDE DEF x
<1>2. /\ DOMAIN accounts' = DOMAIN accounts \cup {a}
      /\ \A n \in DOMAIN accounts : accounts'[n] = accounts[n]
  BY <1>1 DEF CI!@@, CI!:>
<1>3. call.name = "expireNode" => "agentTokenAccount" \notin CI!Current.ix.accounts
  <2>1. "expireNode" \notin DOMAIN CI!OperatorCalls
    BY DEF CI!OperatorCalls
  <2>2. ASSUME call.name = "expireNode" PROVE CI!Current.ix = CI!de_expireNode
    <3>1. CI!Built(call.name, call.agent, seen) =
            CI!Of(CI!de_expireNode, CI!expireNode(seen), CI!Caller)
      BY <2>1, <2>2 DEF CI!Built
    <3> QED
      BY <3>1 DEF CI!Current, CI!Of
  <2>3. "agentTokenAccount" \notin CI!de_expireNode.accounts
    BY DEF CI!de_expireNode, CI!Instruction, CI!reportsRead, CI!reportsWritten
  <2> QED
    BY <2>2, <2>3
<1> QED
  BY <1>1, <1>2, <1>3 DEF PaysCallersAgent

\* Each kind of step keeps what is known.
LEMMA ClientInvariant ==
  ASSUME CI!ClientAssumption
  PROVE  CI!Spec => []ClientInv
<1>0. CI!NoAgent \in Agents \cup {CI!NoAgent} /\ 0 \in 0..MAX_NODES
  BY DEF CI!ClientAssumption
<1>1. CI!Init => ClientInv
  BY <1>0 DEF CI!Init, ClientInv, CI!TypeOK, NodeInv, NodeStates, PaysCallersAgent, JobEnds,
     CI!NoNode, CI!NoCall
<1>2. ASSUME ClientInv, [CI!Next]_CI!cvars PROVE ClientInv'
  <2>1. CASE UNCHANGED CI!cvars
    BY <1>2, <2>1 DEF CI!cvars, ClientInv, CI!TypeOK, NodeInv, PaysCallersAgent
  <2>2. ASSUME NEW name, NEW agent \in Agents \cup {CI!NoAgent}, NEW size,
               name = "createPipeline" => size \in NodeCounts,
               CI!Build(name, agent, size)
        PROVE  ClientInv'
    <3>1. /\ call' = [name |-> name, agent |-> agent, size |-> size] /\ seen' = node
          /\ accounts' = CI!Built(name, agent, node).given /\ UNCHANGED <<nodes, node>>
      BY <2>2 DEF CI!Build
    <3>2. PaysCallersAgent'
      BY <3>1, BuilderPays DEF PaysCallersAgent
    <3>3. NodeInv' /\ CI!TypeOK'
      BY <1>2, <3>1 DEF ClientInv, NodeInv, CI!TypeOK
    <3> QED
      BY <2>2, <3>1, <3>2, <3>3 DEF ClientInv
  <2>3. ASSUME NEW a, CI!Resolve(a) PROVE ClientInv'
    <3>1. PaysCallersAgent'
      BY <1>2, <2>3, ResolveKeepsPayee DEF ClientInv
    <3> QED
      BY <1>2, <2>3, <3>1 DEF CI!Resolve, ClientInv, NodeInv, CI!TypeOK
  <2>4. ASSUME CI!Done PROVE PaysCallersAgent' /\ call'.name = "none" /\ call'.agent = CI!NoAgent
                               /\ seen' = CI!NoNode
    BY <2>4 DEF CI!Done, CI!NoCall, PaysCallersAgent, JobEnds
  <2>5. ASSUME CI!Land PROVE ClientInv'
    <3>1. CI!Done /\ CI!Landed(call.name) /\ CI!StatusAllows(call.name)
      BY <2>5 DEF CI!Land, CI!Accepts
    <3>2. NodeInv' /\ nodes' \in 0..MAX_NODES
      BY <1>2, <3>1 DEF CI!Landed, ClientInv, NodeInv, NodeStates, CI!TypeOK, CI!NoNode,
         CI!ClientAssumption
    <3> QED
      BY <1>2, <2>4, <3>1, <3>2 DEF ClientInv, NodeInv, NodeStates, CI!TypeOK, CI!NoNode
  <2>6. ASSUME CI!Fail PROVE ClientInv'
    BY <1>2, <2>4, <2>6 DEF CI!Fail, ClientInv, NodeInv, CI!TypeOK, CI!NoNode
  <2>7. ASSUME CI!Elsewhere PROVE ClientInv'
    <3>1. UNCHANGED <<nodes, call, seen, accounts>>
      BY <2>7 DEF CI!Elsewhere
    <3>2. NodeInv'
      BY <1>2, <2>7 DEF CI!Elsewhere, ClientInv, NodeInv, NodeStates
    <3> QED
      BY <1>2, <3>1, <3>2 DEF ClientInv, NodeInv, NodeStates, CI!TypeOK, PaysCallersAgent
  <2>8. \A name \in CI!NodeCalls \cup CI!AgentCalls \cup DOMAIN CI!OperatorCalls :
          name # "createPipeline"
    BY DEF CI!NodeCalls, CI!AgentCalls, CI!OperatorCalls
  <2> QED
    BY <1>0, <1>2, <2>1, <2>2, <2>3, <2>5, <2>6, <2>7, <2>8 DEF CI!Next
<1> QED
  BY <1>1, <1>2, PTL DEF CI!Spec

\* A client knows only nodes, agents and states there are, for any set of agents and
\* any sizes of pipelines.
THEOREM ClientTyped ==
  ASSUME CI!ClientAssumption
  PROVE  CI!Spec => []CI!TypeOK
<1>1. ClientInv => CI!TypeOK
  BY DEF ClientInv
<1> QED
  BY <1>1, ClientInvariant, PTL

\* The four instructions that end a job check the agent, and make these two calls.
LEMMA EndingACall ==
  ASSUME NodeInv, node.agent # CI!NoAgent, CI!EndsJob, [CI!Next]_CI!cvars
  PROVE  /\ call.name \in JobEnds \cup {"expireNode"}
         /\ CI!AgentMatches(CI!Env)
         /\ CI!InnerAccepted(CI!Inner(CI!br_decrementOpenJobs, CI!MutateOpenJobs),
              CI!Current.ix, CI!Env)
         /\ \E payer : \E record \in {CI!rb_recordCompletion, CI!rb_recordFailure} :
              CI!InnerAccepted(CI!Inner(record, CI!RecordOutcome(payer)), CI!Current.ix, CI!Env)
<1>1. CI!Land
  BY DEF CI!EndsJob, CI!Next, CI!Build, CI!Resolve, CI!Fail, CI!Elsewhere, CI!cvars
<1>2. /\ CI!Landed(call.name) /\ CI!StatusAllows(call.name)
      /\ CI!BindsAgent(call.name) => CI!AgentMatches(CI!Env)
      /\ \A inner \in CI!InnerCalls(call.name) : CI!InnerAccepted(inner, CI!Current.ix, CI!Env)
  BY <1>1 DEF CI!Land, CI!Accepts
<1>3. node.status \notin {"none", "pending"}
  BY DEF NodeInv
<1>4. \/ call.name \in JobEnds
      \/ call.name = "expireNode" /\ node.status = "claimed"
  BY <1>2, <1>3 DEF CI!Landed, CI!StatusAllows, CI!EndsJob, JobEnds, NodeInv, NodeStates
<1>5. CI!AgentMatches(CI!Env)
  BY <1>2, <1>4 DEF CI!BindsAgent, JobEnds
<1>6. CI!InnerCalls(call.name) \in
        {CI!Completed("facilitator"), CI!Completed("caller"), CI!Failed("caller"),
         CI!Completed("facilitator") \cup CI!Failed("facilitator")}
  BY <1>4 DEF CI!InnerCalls, JobEnds
<1>7. CI!Inner(CI!br_decrementOpenJobs, CI!MutateOpenJobs) \in CI!InnerCalls(call.name)
  BY <1>6 DEF CI!Completed, CI!Failed
<1>8. \E payer : \E record \in {CI!rb_recordCompletion, CI!rb_recordFailure} :
        CI!Inner(record, CI!RecordOutcome(payer)) \in CI!InnerCalls(call.name)
  BY <1>6 DEF CI!Completed, CI!Failed
<1> QED
  BY <1>2, <1>4, <1>5, <1>7, <1>8

\* Whatever the builder read and whichever agent it was asked for: the job that ends is
\* counted off, scored and recorded for the agent that holds the node when the call
\* lands, and that agent is paid, for any number of agents and of nodes.
THEOREM ReportsItsAgentCorrect ==
  ASSUME CI!ClientAssumption
  PROVE  CI!Spec => CI!ReportsItsAgent
<1>1. ASSUME ClientInv, [CI!Next]_CI!cvars, CI!EndsJob
      PROVE  LET key == CI!Key(node.agent)
             IN /\ accounts["agentStake"] = CI!agentStakePda(key)
                /\ accounts["agentReputation"] = CI!reputationPda(key)
                /\ accounts["jobRecord"] = CI!jobRecordPda(CI!JobOf(node.agent))
                /\ "agentTokenAccount" \in DOMAIN accounts =>
                     accounts["agentTokenAccount"] = CI!vaultAta(CI!Usdc, key)
  <2> DEFINE key == CI!Key(node.agent)
             env == CI!Env
  <2>1. \A a : a # "nonce" =>
          /\ a \in DOMAIN env <=> a \in DOMAIN accounts
          /\ a \in DOMAIN accounts => env[a] = accounts[a]
    BY DEF CI!Env, CI!@@
  <2>2. node.agent # CI!NoAgent /\ NodeInv /\ PaysCallersAgent
    BY <1>1 DEF CI!EndsJob, ClientInv
  <2>3. /\ call.name \in JobEnds \cup {"expireNode"}
        /\ CI!AgentMatches(env)
        /\ CI!InnerAccepted(CI!Inner(CI!br_decrementOpenJobs, CI!MutateOpenJobs),
             CI!Current.ix, env)
        /\ \E payer : \E record \in {CI!rb_recordCompletion, CI!rb_recordFailure} :
             CI!InnerAccepted(CI!Inner(record, CI!RecordOutcome(payer)), CI!Current.ix, env)
    BY <1>1, <2>2, EndingACall
  <2> HIDE DEF env
  <2>4. /\ "agentStake" \in DOMAIN env
        /\ env["agentStake"] = CI!agentStakePda(CI!StakesAgent(env["agentStake"]))
    BY <2>3, CountsOnItsStake
  <2>5. /\ {"agent", "agentReputation", "jobRecord"} \subseteq DOMAIN env
        /\ env["agentReputation"] = CI!reputationPda(env["agent"])
        /\ env["jobRecord"] = CI!jobRecordPda(CI!JobOf(node.agent))
    <3>1. PICK payer : \E record \in {CI!rb_recordCompletion, CI!rb_recordFailure} :
            CI!InnerAccepted(CI!Inner(record, CI!RecordOutcome(payer)), CI!Current.ix, env)
      BY <2>3
    <3> QED
      BY <3>1, RecordsTheJob
  <2>6. /\ env["agent"] = key /\ CI!StakesAgent(env["agentStake"]) = key
        /\ "agentTokenAccount" \in DOMAIN env =>
             CI!Data("agent", env["agentTokenAccount"]) = key
    BY <2>3, <2>4 DEF CI!AgentMatches
  <2>7. ASSUME "agentTokenAccount" \in DOMAIN accounts
        PROVE  accounts["agentTokenAccount"] = CI!vaultAta(CI!Usdc, key)
    <3>1. accounts["agentTokenAccount"] = CI!vaultAta(CI!Usdc, CI!Key(call.agent))
      BY <2>2, <2>3, <2>7 DEF PaysCallersAgent
    <3>2. CI!Data("agent", accounts["agentTokenAccount"]) = key
      BY <2>1, <2>6, <2>7
    <3>3. CI!vaultAta(CI!Usdc, CI!Key(call.agent)).seeds[1] = CI!Key(call.agent)
      BY DEF CI!vaultAta, CI!AtaOf, CI!PdaOf
    <3>4. CI!Data("agent", accounts["agentTokenAccount"]) = CI!Key(call.agent)
      BY <3>1, <3>3 DEF CI!Data
    <3> QED
      BY <3>1, <3>2, <3>4
  <2>8. /\ accounts["agentStake"] = CI!agentStakePda(key)
        /\ accounts["agentReputation"] = CI!reputationPda(key)
        /\ accounts["jobRecord"] = CI!jobRecordPda(CI!JobOf(node.agent))
    BY <2>1, <2>4, <2>5, <2>6
  <2> QED
    BY <2>7, <2>8
<1>2. ClientInv /\ [CI!Next]_CI!cvars => [CI!EndsJob =>
       LET key == CI!Key(node.agent)
       IN /\ accounts["agentStake"] = CI!agentStakePda(key)
          /\ accounts["agentReputation"] = CI!reputationPda(key)
          /\ accounts["jobRecord"] = CI!jobRecordPda(CI!JobOf(node.agent))
          /\ "agentTokenAccount" \in DOMAIN accounts =>
               accounts["agentTokenAccount"] = CI!vaultAta(CI!Usdc, key)]_CI!cvars
  BY <1>1
<1> QED
  BY <1>2, ClientInvariant, PTL DEF CI!Spec, CI!ReportsItsAgent
=============================================================================
