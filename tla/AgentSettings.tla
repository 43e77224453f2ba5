--------------------------- MODULE AgentSettings ---------------------------
(***************************************************************************)
(* The settings of an Adam through its life: what the resource says, what  *)
(* the ConfigMap stores and what the running agent started with.  The      *)
(* calls of a reconcile are one step here; the module Adam takes them      *)
(* apart.                                                                  *)
(***************************************************************************)
EXTENDS PropertyBag

CONSTANTS Specs,      \* the settings users give to the resource
          MaxSecrets  \* bound: versions of the Secret

VARIABLES
  spec,       \* the fields of the resource
  secret,     \* the version of the Secret
  bag,        \* what adam-config stores
  running,    \* what the running agent started with: [props, secret]
  reconciled, \* history: no edit since the last reconcile
  cleared     \* history: breaking fields emptied since the agent started

settingsVars == <<spec, secret, bag, running, reconciled, cleared>>

SettingsInit ==
  /\ spec \in Specs /\ secret = 1
  /\ bag = UpdatedBag(spec, secret, TRUE)
  /\ running = [props |-> bag.props, secret |-> secret]
  /\ reconciled = TRUE /\ cleared = {}

Edit ==
  /\ \E s \in Specs \ {spec} :
       /\ spec' = s
       /\ cleared' = cleared \cup
            {f \in BreakingFields \cap Fields : s[f] = Unset /\ spec[f] # Unset}
  /\ reconciled' = FALSE
  /\ UNCHANGED <<secret, bag, running>>

RecreateSecret ==
  /\ secret < MaxSecrets
  /\ secret' = secret + 1 /\ reconciled' = FALSE
  /\ UNCHANGED <<spec, bag, running, cleared>>

(* An agent that is restarted reads the ConfigMap that was just written,   *)
(* and the Secret as it is.                                                *)
Restart == /\ running' = [props |-> bag'.props, secret |-> secret]
           /\ cleared' = {}

(* The reconcile of an agent whose Deployment exists: compare, write the   *)
(* ConfigMap, restart.                                                     *)
Reconcile ==
  /\ bag' = UpdatedBag(spec, secret, FALSE)
  /\ reconciled' = TRUE
  /\ IF HasBreakingChanges(spec, LoadedBag(bag, secret), secret)
     THEN Restart ELSE UNCHANGED <<running, cleared>>
  /\ UNCHANGED <<spec, secret>>

SettingsNext == Edit \/ RecreateSecret \/ Reconcile
SettingsSpec == SettingsInit /\ [][SettingsNext]_settingsVars

-----------------------------------------------------------------------------
(* Properties.                                                             *)

(* After a reconcile nothing is breaking until somebody edits something:   *)
(* the requeue after 60 seconds does not restart the agent again and       *)
(* again.  The fields that are compared and those that are written are two *)
(* lists in two files.  (The Secret has no part in it: its version is the  *)
(* current one in every bag that is loaded, see AgentHasSecret.)           *)
RestartsSettle ==
  reconciled => ~HasBreakingChanges(spec, LoadedBag(bag, secret), secret)

(* After a reconcile the running agent has the breaking fields of the      *)
(* ConfigMap, but for those a user has emptied since it started: a field   *)
(* that is emptied is not breaking.                                        *)
AgentHasBreakingFields ==
  reconciled => \A f \in BreakingFields \cap Fields :
                  running.props[f] = bag.props[f] \/ f \in cleared

(* After a reconcile the running agent has the Secret there is: one that   *)
(* was recreated restarts the pod, as the comment at line 152 of           *)
(* adam_controller.go says and line 276 means to do.                       *)
AgentHasSecret == reconciled => running.secret = secret
=============================================================================
