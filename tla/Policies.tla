------------------------------ MODULE Policies ------------------------------
(***************************************************************************)
(* Deployment policies (app/governance/policy_engine.py and the policy     *)
(* routes): versions of a policy, which of them is in force, and what the  *)
(* policies in force decide about a target environment.                    *)
(*                                                                         *)
(* A request that updates or rolls back a policy reads one row and writes  *)
(* another one later. save_policy takes force from every row that bears    *)
(* the NAME of the row it writes, and on a conflict of (policy_id, version)*)
(* it leaves the stored name as it is.                                     *)
(***************************************************************************)
EXTENDS Naturals

CONSTANTS
  PolicyIds,    \* policy_id, a fresh one for every policy created
  PolicyNames,
  Definitions,  \* policy_definition: sets of rules
  Priorities,
  Editors,      \* request threads of administrators
  Environments,
  MayRename,    \* an update may give the policy another name
  None

Rule == [env: Environments \cup {None}, allowed: BOOLEAN]
PolicyRow == [id: PolicyIds, version: Nat, name: PolicyNames, enabled: BOOLEAN,
              priority: Priorities, definition: Definitions, current: BOOLEAN]

ASSUME PolicyAssumptions ==
  /\ \A d \in Definitions : d \subseteq Rule
  /\ Priorities \subseteq Nat
  /\ MayRename \in BOOLEAN
  /\ None \notin PolicyRow

VARIABLES
  policies,   \* the rows of table policies
  editor,     \* the row an editor is about to save, or None
  issued,     \* history: ids of the policies ever created
  named       \* history: <<id, name>> of every row ever saved

policyVars == <<policies, editor, issued, named>>

SameKey(r, s) == r.id = s.id /\ r.version = s.version

\* (policy_id, version) is the key of the table.
PoliciesOK ==
  /\ policies \subseteq PolicyRow
  /\ \A r, s \in policies : SameKey(r, s) => r = s
  /\ editor \in [Editors -> PolicyRow \cup {None}]
  /\ issued \subseteq PolicyIds
  /\ named \subseteq PolicyIds \X PolicyNames

PolicyInit ==
  /\ policies = {}
  /\ editor = [e \in Editors |-> None]
  /\ issued = {}
  /\ named = {}

-----------------------------------------------------------------------------
(* The table.                                                              *)

\* get_policy without a version, and list_policies: the rows in force.
CurrentRows(p) == {r \in policies : r.id = p /\ r.current}
InForce == {r \in policies : r.current}

\* As if force were taken from the other versions of the policy itself.
SavePolicyById(row) ==
  LET released == {[r EXCEPT !.current = IF r.id = row.id THEN FALSE ELSE @] : r \in policies}
  IN  /\ policies' = {r \in released : ~SameKey(r, row)} \cup {row}
      /\ named' = named \cup {<<row.id, row.name>>}

\* save_policy of a row that is to be in force.
SavePolicy(row) ==
  LET released == {[r EXCEPT !.current = IF r.name = row.name THEN FALSE ELSE @] : r \in policies}
      stored   == {[row EXCEPT !.name = r.name] : r \in {s \in released : SameKey(s, row)}}
  IN  /\ policies' = {r \in released : ~SameKey(r, row)}
                       \cup (IF stored = {} THEN {row} ELSE stored)
      /\ named' = named \cup {<<row.id, row.name>>}

RemovePolicy(p) == policies' = {r \in policies : r.id # p}

-----------------------------------------------------------------------------
(* What the policies decide.                                               *)

\* _rule_matches: a rule without a condition matches everything.
Matches(rule, env) == rule.env \in {None, env}

MatchingPolicies(env) ==
  {r \in InForce : r.enabled /\ \E q \in r.definition : Matches(q, env)}

\* evaluate: of the matching rules only those of the highest priority count,
\* and one that denies wins. Without a matching rule everything is allowed.
Evaluate(env) ==
  \A r \in MatchingPolicies(env) :
    (\A s \in MatchingPolicies(env) : s.priority <= r.priority)
      => \A q \in r.definition : Matches(q, env) => q.allowed

-----------------------------------------------------------------------------
(* The routes.                                                             *)

CreatePolicy(e) ==
  /\ editor[e] = None
  /\ \E p \in PolicyIds \ issued, n \in PolicyNames, d \in Definitions, k \in Priorities :
       /\ SavePolicy([id |-> p, version |-> 1, name |-> n, enabled |-> TRUE, priority |-> k,
                      definition |-> d, current |-> TRUE])
       /\ issued' = issued \cup {p}
  /\ UNCHANGED editor

\* update_policy: the version in force is read, the next one is prepared.
ReadForUpdate(e) ==
  /\ editor[e] = None
  /\ \E p \in PolicyIds : \E r \in CurrentRows(p),
        n \in PolicyNames, b \in BOOLEAN, d \in Definitions, k \in Priorities :
       /\ MayRename \/ n = r.name
       /\ editor' = [editor EXCEPT
            ![e] = [r EXCEPT !.version = r.version + 1, !.name = n, !.enabled = b,
                             !.priority = k, !.definition = d, !.current = TRUE]]
  /\ UNCHANGED <<policies, issued, named>>

\* rollback_policy: the target version is read, to be saved as the current one.
ReadForRollback(e) ==
  /\ editor[e] = None
  /\ \E r \in policies : editor' = [editor EXCEPT ![e] = [r EXCEPT !.current = TRUE]]
  /\ UNCHANGED <<policies, issued, named>>

FinishEdit(e) ==
  /\ editor[e] # None
  /\ SavePolicy(editor[e])
  /\ editor' = [editor EXCEPT ![e] = None]
  /\ UNCHANGED issued

\* The request ends with an exception before it saves.
EditFails(e) ==
  /\ editor[e] # None
  /\ editor' = [editor EXCEPT ![e] = None]
  /\ UNCHANGED <<policies, issued, named>>

DeletePolicy(e) ==
  /\ editor[e] = None
  /\ \E p \in {r.id : r \in policies} : RemovePolicy(p)
  /\ UNCHANGED <<editor, issued, named>>

BeginEdit(e) == CreatePolicy(e) \/ ReadForUpdate(e) \/ ReadForRollback(e) \/ DeletePolicy(e)
EndEdit(e) == FinishEdit(e) \/ EditFails(e)

-----------------------------------------------------------------------------
(* Properties.                                                             *)

\* As long as policies keep their names, every name under which rows are stored has
\* exactly one of them in force, unless another policy of that name was saved and
\* deleted: however updates, rollbacks and deletions race, evaluate never sees two
\* versions under a name, nor loses a policy that is stored.
OneVersionInForce ==
  ~MayRename =>
    /\ \A r, s \in InForce : r.name = s.name => r = s
    /\ \A r \in policies :
         CurrentRows(r.id) # {} \/ \E p \in PolicyIds \ {r.id} : <<p, r.name>> \in named
=============================================================================
