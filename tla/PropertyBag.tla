---------------------------- MODULE PropertyBag ----------------------------
(***************************************************************************)
(* The property bag of an Adam: what its ConfigMap adam-config holds, how  *)
(* it is made from the resource, and which of its changes are breaking.    *)
(*                                                                         *)
(* The value of a field is Unset (empty, zero or negative; for a list:     *)
(* nil), Empty (a list without elements, which is not nil), Default (the   *)
(* field's own value in GetDefaultProperties, when that is not empty), or  *)
(* some other value.                                                       *)
(***************************************************************************)
EXTENDS Naturals

CONSTANTS Unset, Empty, Default, Fields

(* Fields that get the value of the resource whatever it is. *)
Flagging == {"InstrumentationMethod", "InstrumentMatchString", "NsToInstrument",
  "NsToInstrumentExclude", "NSInstrumentRule", "BiqService", "AppNameLiteral",
  "AppDAppLabel", "AppDTierLabel", "AgentOpts"}
Mirrored == Flagging \cup {"ControllerUrl", "NetVizPort", "UniqueHostID",
  "AgentLogOverride", "AgentUserOverride"}

(* Fields that get the value of the resource if it is set. *)
Schemas == {"PodSchemaName", "NodeSchemaName", "EventSchemaName",
  "ContainerSchemaName", "JobSchemaName", "LogSchemaName", "EpSchemaName",
  "NsSchemaName", "RqSchemaName", "DeploySchemaName", "RSSchemaName",
  "DaemonSchemaName"}
Overridden == Schemas \cup {"Account", "GlobalAccount", "EventServiceUrl",
  "AppName", "SystemSSLCert", "AgentSSLCert", "ProxyUrl", "ProxyUser",
  "ProxyPass", "AgentServerPort", "EventAPILimit", "MetricsSyncInterval",
  "SnapshotSyncInterval", "LogLines", "LogLevel", "PodEventNumber",
  "OverconsumptionThreshold", "DashboardSuffix", "DashboardDelayMin",
  "DashboardTemplatePath", "DefaultInstrumentationTech", "NsToMonitor",
  "NsToMonitorExclude", "NodesToMonitor", "NodesToMonitorExclude",
  "AnalyticsAgentImage", "AppDJavaAttachImage", "AppDDotNetAttachImage",
  "InstrumentContainer", "InitContainerDir", "AgentLabel", "AgentEnvVar",
  "AppDAnalyticsLabel", "AgentMountName", "AgentMountPath",
  "AppLogMountName", "AppLogMountPath", "JDKMountName", "JDKMountPath",
  "NodeNamePrefix", "AnalyticsAgentUrl", "AnalyticsAgentContainerName",
  "AppDInitContainerName", "InitRequestMem", "InitRequestCpu"}

AllFields == Mirrored \cup Overridden \cup {"BiqRequestCpu", "BiqRequestMem"}

ASSUME FieldsAssumption ==
  /\ Fields \subseteq AllFields /\ "ControllerUrl" \in Fields
  /\ "BiqRequestCpu" \in Fields => "BiqRequestMem" \in Fields
  /\ Unset # Empty /\ Unset # Default

(* Lists, and the fields that are neither a list nor have a default. *)
Lists == {"InstrumentMatchString", "NsToInstrument", "NsToInstrumentExclude",
  "NSInstrumentRule", "NsToMonitor", "NsToMonitorExclude", "NodesToMonitor",
  "NodesToMonitorExclude"}
NoDefault == {"ControllerUrl", "Account", "GlobalAccount", "EventServiceUrl",
  "ProxyUrl", "ProxyUser", "ProxyPass", "LogLines", "AgentLogOverride",
  "AgentUserOverride", "AppNameLiteral", "AgentOpts", "NodeNamePrefix",
  "NetVizPort", "UniqueHostID"}

GetDefaultProperties ==
  [f \in Fields |-> IF f \in Lists THEN Empty
                    ELSE IF f \in NoDefault THEN Unset ELSE Default]

(* make and copy turn a nil list into an empty one. *)
Copied(f, v) == IF f \in Lists /\ v = Unset THEN Empty ELSE v

\* Faulty variant: a breaking field is forgotten when the bag is made.
MergedWithoutCert(f, bag, spec) ==
  IF f \in Mirrored THEN Copied(f, spec[f])
  ELSE IF f \in Overridden \ {"SystemSSLCert"} /\ spec[f] # Unset
       THEN Copied(f, spec[f])
  ELSE bag[f]

(* The value reconcileBag gives to a field.  BiqRequestMem guards the copy *)
(* of BiqRequestCpu, and is itself never copied.                           *)
Merged(f, bag, spec) ==
  IF f \in Mirrored THEN Copied(f, spec[f])
  ELSE IF f \in Overridden /\ spec[f] # Unset THEN Copied(f, spec[f])
  ELSE IF f = "BiqRequestCpu" /\ spec["BiqRequestMem"] # Unset THEN spec[f]
  ELSE bag[f]

(* InstrumentationUpdated compares with the bag that is being filled, the  *)
(* defaults, and tells nil from an empty list.                             *)
InstrumentationUpdated(bag, spec) ==
  \/ \E f \in Flagging \cap Fields : spec[f] # bag[f]
  \/ "AgentEnvVar" \in Fields /\ spec["AgentEnvVar"] # Unset

(* updateMap: the bag that is stored for a resource, from the defaults and *)
(* not from what was stored before.                                        *)
UpdatedBag(spec, secretVersion, create) ==
  [props |-> [f \in Fields |-> Merged(f, GetDefaultProperties, spec)],
   secretVersion |-> secretVersion,
   updated |-> ~create /\ InstrumentationUpdated(GetDefaultProperties, spec)]

(* The bag the next comparison starts from: ensureConfigMap overwrites the *)
(* stored version of the Secret with the current one.                      *)
LoadedBag(bag, secretVersion) == [bag EXCEPT !.secretVersion = secretVersion]

(* What hasBreakingChanges compares, in this order. *)
BreakingIfSet == {"Account", "GlobalAccount", "AppName", "EventServiceUrl",
  "SystemSSLCert", "AgentSSLCert"}
BreakingFields == BreakingIfSet \cup {"ControllerUrl"}

\* Faulty variant: one of the certificates is not compared.
HasBreakingChangesButCert(spec, bag, secretVersion) ==
  \/ bag.secretVersion # secretVersion
  \/ spec["ControllerUrl"] # bag.props["ControllerUrl"]
  \/ \E f \in (BreakingIfSet \ {"AgentSSLCert"}) \cap Fields :
       spec[f] # Unset /\ spec[f] # bag.props[f]

HasBreakingChanges(spec, bag, secretVersion) ==
  \/ bag.secretVersion # secretVersion
  \/ spec["ControllerUrl"] # bag.props["ControllerUrl"]
  \/ \E f \in BreakingIfSet \cap Fields :
       spec[f] # Unset /\ spec[f] # bag.props[f]
=============================================================================
