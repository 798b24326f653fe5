----------------------------- MODULE RuleConfig -----------------------------
(***************************************************************************)
(* The settings administrators edit (main.py): scoring rules, global or of *)
(* a department, and model configurations, of which one is enabled.  Every *)
(* save reads the row, logs what it read, and writes the columns it        *)
(* changed at its commit; two requests overlap in two threads.             *)
(***************************************************************************)
EXTENDS Integers, FiniteSets

CONSTANTS Admins, Scopes,  \* "global" and departments
          Configs,         \* rule parameters and model parameters
          Models,          \* identifiers of model configurations
          MaxSaves, None

VARIABLES rule,     \* scope -> row of scoring_rule_configs or None
          ruleLog,  \* scoring_rule_config_history
          model,    \* id -> row of model_configs or None
          modelLog, \* model_config_history
          txn,      \* per administrator: request and what it read, or None
          lock,     \* whose UPDATE of all model rows is uncommitted
          given,    \* history: what a scope was ever given
          held,     \* history: configurations a model ever had
          saves
vars == <<rule, ruleLog, model, modelLog, txn, lock, given, held, saves>>
rules == <<rule, ruleLog, given>>
models == <<model, modelLog, lock, held>>

Init ==
  /\ rule = [s \in Scopes |-> None] /\ ruleLog = {} /\ model = [m \in Models |-> None] /\ modelLog = {}
  /\ txn = [a \in Admins |-> None] /\ lock = None /\ given = [s \in Scopes |-> {}] /\ held = [m \in Models |-> {}]
  /\ saves = 0

(* Columns a session writes: those that differ from what it loaded.        *)
Written(loaded, wanted, row) ==
  [c \in DOMAIN row |-> IF wanted[c] # loaded[c] THEN wanted[c] ELSE row[c]]
Begin(a, op, key, arg) ==
  /\ txn[a] = None /\ saves < MaxSaves /\ saves' = saves + 1
  /\ txn' = [txn EXCEPT ![a] = [op |-> op, key |-> key, arg |-> arg,
                                row |-> IF op \in {"model", "newModel", "modelRollback"} THEN model[key] ELSE rule[key]]]
End(a) == txn' = [txn EXCEPT ![a] = None] /\ UNCHANGED saves
Is(a, op) == txn[a] # None /\ txn[a].op = op
Mine(a) == txn[a]

-----------------------------------------------------------------------------
(* Rules.  A row that was deleted meanwhile, or a scope that was taken     *)
(* meanwhile, fails the request.                                           *)

ResolveRuleConfig(dept) ==
  IF dept \in Scopes /\ rule[dept] # None THEN rule[dept] ELSE rule["global"]
Logged(row, s) == [scope |-> s, id |-> row.id, config |-> row.config, version |-> row.version]
NextId == Cardinality(ruleLog) + 1
Same(a) == rule[Mine(a).key] # None /\ rule[Mine(a).key].id = Mine(a).row.id
\* Mutant: the history is looked up without its configuration.
MutRestorable(s) == ruleLog
Restorable(s) == {h \in ruleLog : h.id = rule[s].id}
StartRule(a) ==
  \E s \in Scopes :
    /\ UNCHANGED <<rules, models>>
    /\ \/ \E c \in Configs : (rule[s] # None \/ s = "global") /\ Begin(a, "save", s, c)
       \/ s # "global" /\ rule[s] = None
          /\ Begin(a, "create", s, IF rule["global"] = None THEN "V1.1" ELSE rule["global"].config)
       \/ rule[s] # None /\ s # "global" /\ (Begin(a, "editors", s, None) \/ Begin(a, "delete", s, None))
       \/ rule[s] # None /\ \E h \in Restorable(s) : Begin(a, "rollback", s, h.config)

Inserted(a, config) ==
  LET s == Mine(a).key IN
  /\ rule[s] = None
  /\ rule' = [rule EXCEPT ![s] = [id |-> NextId, config |-> config, editors |-> 0, version |-> 1]]
  /\ ruleLog' = ruleLog \cup {Logged(rule'[s], s)}
  /\ given' = [given EXCEPT ![s] = {config}]
CreateRule(a) ==
  /\ Is(a, "create") \/ (Is(a, "save") /\ Mine(a).row = None)
  /\ Inserted(a, Mine(a).arg) /\ End(a) /\ UNCHANGED models
Updated(a, wanted) ==
  LET s == Mine(a).key IN
  /\ Same(a) /\ rule' = [rule EXCEPT ![s] = Written(Mine(a).row, wanted, @)]
SaveRule(a) ==
  /\ Is(a, "save") /\ Mine(a).row # None
  /\ Updated(a, [Mine(a).row EXCEPT !.config = Mine(a).arg, !.version = @ + 1])
  /\ ruleLog' = ruleLog \cup {Logged(Mine(a).row, Mine(a).key)}
  /\ given' = [given EXCEPT ![Mine(a).key] = @ \cup {Mine(a).arg}]
  /\ End(a) /\ UNCHANGED models
RollbackRule(a) ==
  /\ Is(a, "rollback")
  /\ LET wanted == [Mine(a).row EXCEPT !.config = Mine(a).arg, !.version = @ + 1]
     IN  /\ Updated(a, wanted)
         /\ ruleLog' = ruleLog \cup {Logged(Mine(a).row, Mine(a).key), Logged(wanted, Mine(a).key)}
  /\ End(a) /\ UNCHANGED <<models, given>>
SaveEditors(a) ==
  /\ Is(a, "editors")
  /\ \E e \in {0, 1} : Updated(a, [Mine(a).row EXCEPT !.editors = e, !.version = @ + 1])
  /\ ruleLog' = ruleLog \cup {Logged(Mine(a).row, Mine(a).key)}
  /\ End(a) /\ UNCHANGED <<models, given>>
(* A row that somebody else has deleted is deleted again: only a warning.  *)
DeleteRule(a) ==
  /\ Is(a, "delete")
  /\ ruleLog' = ruleLog \cup {Logged(Mine(a).row, Mine(a).key)}
  /\ IF Same(a) THEN /\ rule' = [rule EXCEPT ![Mine(a).key] = None]
                     /\ given' = [given EXCEPT ![Mine(a).key] = {}]
     ELSE UNCHANGED <<rule, given>>
  /\ End(a) /\ UNCHANGED models
FailRule(a) ==
  /\ \/ Is(a, "create") /\ rule[Mine(a).key] # None
     \/ Is(a, "save") /\ Mine(a).row = None /\ rule[Mine(a).key] # None
     \/ (Is(a, "save") \/ Is(a, "rollback") \/ Is(a, "editors")) /\ Mine(a).row # None /\ ~Same(a)
  /\ End(a) /\ UNCHANGED <<rules, models>>

-----------------------------------------------------------------------------
(* Model configurations: the enabling request first takes all other rows.  *)

StartModel(a) ==
  \E m \in Models, c \in Configs, on \in BOOLEAN :
    /\ UNCHANGED <<rules, models>>
    /\ \/ model[m] = None /\ Begin(a, "newModel", m, [config |-> c, enabled |-> on])
       \/ model[m] # None /\ Begin(a, "model", m, [config |-> c, enabled |-> on])
       \/ model[m] # None /\ (\E h \in modelLog : h.id = m /\ h.row.config = c /\ h.row.enabled = on)
          /\ Begin(a, "modelRollback", m, [config |-> c, enabled |-> on])
Model(a) == Is(a, "newModel") \/ Is(a, "model") \/ Is(a, "modelRollback")
Others(m) == [n \in Models |-> IF n = m \/ model[n] = None THEN model[n] ELSE [model[n] EXCEPT !.enabled = FALSE]]
\* Mutant: a new configuration is enabled beside the others.
MutExclusive(a) == Mine(a).arg.enabled /\ ~Is(a, "newModel")
Exclusive(a) == Mine(a).arg.enabled
\* The rows are locked now, and change for others at the commit.
Disable(a) ==
  /\ Model(a) /\ Exclusive(a) /\ lock = None /\ lock' = a
  /\ UNCHANGED <<rules, model, modelLog, held, txn, saves>>
Ready(a) == Model(a) /\ lock = IF Exclusive(a) THEN a ELSE None
Rest(a) == IF Exclusive(a) THEN Others(Mine(a).key) ELSE model
CommitModel(a, row, log) ==
  LET m == Mine(a).key IN
  /\ model' = [Rest(a) EXCEPT ![m] = row]
  /\ modelLog' = modelLog \cup {[id |-> m, row |-> r] : r \in log}
  /\ held' = [held EXCEPT ![m] = @ \cup {row.config}]
  /\ lock' = None /\ End(a) /\ UNCHANGED rules
CreateModel(a) ==
  /\ Is(a, "newModel") /\ Ready(a) /\ model[Mine(a).key] = None
  /\ CommitModel(a, Mine(a).arg, {Mine(a).arg})
UpdateModel(a) ==
  /\ Is(a, "model") /\ Ready(a)
  /\ CommitModel(a, Written(Mine(a).row, Mine(a).arg, model[Mine(a).key]), {Mine(a).row})
ModelRollback(a) ==
  /\ Is(a, "modelRollback") /\ Ready(a)
  /\ CommitModel(a, Written(Mine(a).row, Mine(a).arg, model[Mine(a).key]), {Mine(a).row, Mine(a).arg})
FailModel(a) ==
  /\ Is(a, "newModel") /\ Ready(a) /\ model[Mine(a).key] # None
  /\ End(a) /\ lock' = None /\ UNCHANGED <<rules, model, modelLog, held>>

Next == \E a \in Admins :
  \/ StartRule(a) \/ CreateRule(a) \/ SaveRule(a) \/ RollbackRule(a) \/ SaveEditors(a) \/ DeleteRule(a) \/ FailRule(a)
  \/ StartModel(a) \/ Disable(a) \/ CreateModel(a) \/ UpdateModel(a) \/ ModelRollback(a) \/ FailModel(a)
Spec == Init /\ [][Next]_vars

-----------------------------------------------------------------------------
(* Reviews of a department with rules of its own use what was saved for    *)
(* it, or copied at its creation: no save, deletion or rollback elsewhere  *)
(* shifts it, not even one that overlaps with its own.                     *)
DepartmentsStandAlone ==
  \A s \in Scopes : rule[s] # None => ResolveRuleConfig(s).config \in given[s]

(* At most one model is enabled, although each request decides from what   *)
(* it read before another one committed.                                   *)
OneModelEnabled == Cardinality({m \in Models : model[m] # None /\ model[m].enabled}) <= 1

(* The docstring of ModelConfigHistory: every save keeps the previous      *)
(* state, so any configuration can be rolled back.                         *)
EverySaveCanBeUndone ==
  \A m \in Models : \A c \in held[m] :
    c = model[m].config \/ \E h \in modelLog : h.id = m /\ h.row.config = c
=============================================================================
