----------------------------- MODULE Deployment -----------------------------
(***************************************************************************)
(* The config accounts of the three programs over their life: created by    *)
(* initialize, tuned and handed over by their operator, grown once from the *)
(* layout before the hardening by migrate_x, and the two scripts that drive *)
(* them, src/scripts/initialize-programs.mts and migrate-configs.mts.  A    *)
(* script sends one transaction after another, awaits each, and ends at the *)
(* first error; it may be killed, or lose an answer, between any two steps, *)
(* and is run again.                                                        *)
(*                                                                          *)
(* A config keeps its layout, its operator, the authority it is wired to    *)
(* (dag_authority, or the facilitator's key), whether its operator changed  *)
(* a setting from the default, and the successor it proposed.               *)
(***************************************************************************)
EXTENDS Naturals, Sequences

CONSTANTS
  Keys, Nobody,
  Deployer,        \* the key of ANCHOR_WALLET, which both scripts sign with
  Authorities,
  Wanted,          \* Wanted[p]: the authority initialize-programs wires p to
  MaxCalls,        \* bound: instructions operators send by hand
  MaxFaults        \* bound: killed scripts and lost answers

DeploymentAssumption ==
  /\ Deployer \in Keys
  /\ Wanted \in [{"bridge", "registry", "escrow"} -> Authorities]
  /\ MaxCalls \in Nat /\ MaxFaults \in Nat

VARIABLES config, script, calls, faults
vars == <<config, script, calls, faults>>

Programs == {"bridge", "registry", "escrow"}
Tunable == {"registry", "escrow"}   \* max_slash_bps; paused and dispute_slots
Scripts == {"initialize", "migrate"}

Missing ==
  [layout |-> "none", operator |-> Nobody, authority |-> Nobody,
   tuned |-> FALSE, pending |-> Nobody]
Idle == [status |-> "ended", at |-> 1, saw |-> "nothing"]

(***************************************************************************)
(* Instructions: when each succeeds, and what it leaves.  An account of the *)
(* old layout is too short to deserialize for any but migrate_x.            *)
(***************************************************************************)
Initialized(key, authority) ==
  [layout |-> "current", operator |-> key, authority |-> authority,
   tuned |-> FALSE, pending |-> Nobody]

CanInitialize(p) == config[p].layout = "none"

CanOperate(p, key) == config[p].layout = "current" /\ config[p].operator = key

\* migrate_x: the size is compared first, then the operator's bytes.
AlreadyMigrated(p) == config[p].layout = "current"
\* A seeded fault: the sizes are not compared.
CanMigrateTwice(p, key) == config[p].layout # "none" /\ config[p].operator = key
CanMigrate(p, key) == config[p].layout = "old" /\ config[p].operator = key
Migrated(p) == [config[p] EXCEPT !.layout = "current", !.tuned = FALSE, !.pending = Nobody]

CanAccept(p, key) ==
  config[p].layout = "current" /\ config[p].pending # Nobody /\ config[p].pending = key
Accepted(p) == [config[p] EXCEPT !.operator = config[p].pending, !.pending = Nobody]

ByHand(p, account) ==
  /\ calls < MaxCalls /\ calls' = calls + 1
  /\ config' = [config EXCEPT ![p] = account]
  /\ UNCHANGED <<script, faults>>

\* set_dag_escrow_authority, set_facilitator_authority
SetAuthority(p, key, authority) ==
  CanOperate(p, key) /\ ByHand(p, [config[p] EXCEPT !.authority = authority])

\* set_paused, set_dispute_window, set_max_slash_bps
Tune(p, key, tuned) ==
  p \in Tunable /\ CanOperate(p, key) /\ ByHand(p, [config[p] EXCEPT !.tuned = tuned])

ProposeOperator(p, key, successor) ==
  CanOperate(p, key) /\ ByHand(p, [config[p] EXCEPT !.pending = successor])

AcceptOperator(p, key) == CanAccept(p, key) /\ ByHand(p, Accepted(p))

MigrateByHand(p, key) == CanMigrate(p, key) /\ ByHand(p, Migrated(p))

(***************************************************************************)
(* Scripts                                                                  *)
(***************************************************************************)
Order(s) ==
  IF s = "initialize" THEN <<"bridge", "registry", "escrow">>
                      ELSE <<"escrow", "registry", "bridge">>
Current(s) == Order(s)[script[s].at]
Running(s) == script[s].status = "running"

Sets(s, progress) == script' = [script EXCEPT ![s] = progress]
Advance(s) ==
  Sets(s, IF script[s].at = 3 THEN [Idle EXCEPT !.status = "done"]
          ELSE [status |-> "running", at |-> script[s].at + 1, saw |-> "nothing"])
Abort(s) == Sets(s, Idle)

Start(s) ==
  /\ ~Running(s)
  /\ Sets(s, [Idle EXCEPT !.status = "running"])
  /\ UNCHANGED <<config, calls, faults>>

\* getAccountInfo, before the transaction that depends on it.
Look(s) ==
  /\ s = "initialize" /\ Running(s) /\ script[s].saw = "nothing"
  /\ Sets(s, [script[s] EXCEPT !.saw = IF config[Current(s)].layout = "none"
                                        THEN "missing" ELSE "present"])
  /\ UNCHANGED <<config, calls, faults>>

\* What s does next to p's config: the account the transaction leaves.
Sends(s, p) ==
  IF s = "migrate" THEN Migrated(p)
  ELSE IF script[s].saw = "missing" THEN Initialized(Deployer, Wanted[p])
  ELSE IF p = "escrow" THEN config[p]
  ELSE [config[p] EXCEPT !.authority = Wanted[p]]

Succeeds(s, p) ==
  \/ s = "migrate" /\ CanMigrate(p, Deployer)
  \/ s = "initialize" /\ script[s].saw = "missing" /\ CanInitialize(p)
  \/ s = "initialize" /\ script[s].saw = "present" /\ (p = "escrow" \/ CanOperate(p, Deployer))

\* Seeded faults: every error of a migration is swallowed, or none.
ToleratedAnyway(s, p) == s = "migrate"
NothingTolerated(s, p) == FALSE

\* tryMigrate goes on after AlreadyMigrated, and after no other error.
Tolerated(s, p) == s = "migrate" /\ AlreadyMigrated(p)

Ready(s) == Running(s) /\ (s = "initialize" => script[s].saw # "nothing")

Send(s) ==
  /\ Ready(s)
  /\ LET p == Current(s) IN
       \/ /\ Succeeds(s, p)
          /\ config' = [config EXCEPT ![p] = Sends(s, p)]
          /\ Advance(s)
       \/ ~Succeeds(s, p) /\ Tolerated(s, p) /\ Advance(s) /\ UNCHANGED config
       \/ ~Succeeds(s, p) /\ ~Tolerated(s, p) /\ Abort(s) /\ UNCHANGED config
  /\ UNCHANGED <<calls, faults>>

Fault == faults < MaxFaults /\ faults' = faults + 1 /\ UNCHANGED calls

\* The script is killed, or its call fails before anything is sent.
Killed(s) == Fault /\ Running(s) /\ Abort(s) /\ UNCHANGED config

\* The transaction lands; its confirmation does not, which ends the script.
AnswerLost(s) ==
  /\ Fault /\ Ready(s) /\ Succeeds(s, Current(s))
  /\ config' = [config EXCEPT ![Current(s)] = Sends(s, Current(s))]
  /\ Abort(s)

-----------------------------------------------------------------------------
(***************************************************************************)
(* The first deployment ran initialize-programs, perhaps not to its end;    *)
(* then the hardened programs were deployed.                                *)
(***************************************************************************)
Before(p, authority) ==
  [layout |-> "old", operator |-> Deployer, authority |-> authority,
   tuned |-> FALSE, pending |-> Nobody]

Init ==
  /\ \E live \in {{}, {"bridge"}, {"bridge", "registry"}, Programs} :
       \E authority \in [Programs -> Authorities] :
         config = [p \in Programs |-> IF p \in live THEN Before(p, authority[p]) ELSE Missing]
  /\ script = [s \in Scripts |-> Idle]
  /\ calls = 0 /\ faults = 0

ScriptStep(s) == Start(s) \/ Look(s) \/ Send(s)

Next ==
  \/ \E s \in Scripts : ScriptStep(s) \/ Killed(s) \/ AnswerLost(s)
  \/ \E p \in Programs, key \in Keys :
       \/ \E authority \in Authorities : SetAuthority(p, key, authority)
       \/ \E tuned \in BOOLEAN : Tune(p, key, tuned)
       \/ \E successor \in Keys \cup {Nobody} : ProposeOperator(p, key, successor)
       \/ AcceptOperator(p, key)
       \/ MigrateByHand(p, key)

\* A script that ended is run again, and a running one goes on.
Fairness == \A s \in Scripts : WF_vars(ScriptStep(s))

Spec == Init /\ [][Next]_vars

-----------------------------------------------------------------------------
TypeOK ==
  /\ config \in [Programs ->
       [layout: {"none", "old", "current"}, operator: Keys \cup {Nobody},
        authority: Authorities \cup {Nobody}, tuned: BOOLEAN, pending: Keys \cup {Nobody}]]
  /\ script \in [Scripts ->
       [status: {"ended", "running", "done"}, at: 1..3, saw: {"nothing", "missing", "present"}]]
  /\ calls \in 0..MaxCalls /\ faults \in 0..MaxFaults

\* "Done." is true: migrate-configs ends well only when every config has the current
\* layout, initialize-programs only when every config exists, whatever ran beside them,
\* was killed or migrated by hand before (migrate-configs.mts 35-44, 72).
ReportedDoneIsDone ==
  /\ script["migrate"].status = "done" => \A p \in Programs : config[p].layout = "current"
  /\ script["initialize"].status = "done" => \A p \in Programs : config[p].layout # "none"

\* Running a script again undoes nothing: on a config of the current layout neither
\* touches the operator's settings, a hand-over under way or the operator itself
\* (migrate_* "rejects once the account already has the new size", lib.rs 104-107).
ScriptsKeepChoices ==
  [][script' # script =>
       \A p \in Programs : config[p].layout = "current" =>
         /\ config'[p].layout = "current"
         /\ config'[p].operator = config[p].operator
         /\ config'[p].tuned = config[p].tuned
         /\ config'[p].pending = config[p].pending]_vars

\* Running both scripts again, in any order, as often as it takes, brings a deployment
\* that was complete or not begun, and that the deployer still operates, to where every
\* config is usable and the two ledgers obey dag_escrow.
OneKey == \A p \in Programs : config[p].operator \in {Deployer, Nobody}
Usable ==
  /\ \A p \in Programs : config[p].layout = "current"
  /\ \A p \in {"bridge", "registry"} : config[p].authority = Wanted[p]
CompleteOrNotBegun == config["bridge"].layout = config["escrow"].layout
RerunsConverge == CompleteOrNotBegun /\ <>[]OneKey => <>[]Usable
=============================================================================
