------------------------ MODULE AgentSettingsProofs ------------------------
(***************************************************************************)
(* Theorems about AgentSettings, for every set of settings, every choice   *)
(* of fields and every number of Secrets, and about ControllerUrl, for     *)
(* every address.                                                          *)
(***************************************************************************)
EXTENDS AgentSettings, PropertyBagProofs, ControllerUrl

(* What was just stored for a resource is not breaking for it.             *)
LEMMA ReconciledNotBreaking ==
  ASSUME NEW s, NEW n, NEW create
  PROVE  ~HasBreakingChanges(s, LoadedBag(UpdatedBag(s, n, create), n), n)
<1> DEFINE b == LoadedBag(UpdatedBag(s, n, create), n)
<1>1. b.secretVersion = n /\ b.props = UpdatedBag(s, n, create).props
  BY DEF LoadedBag, UpdatedBag
<1> HIDE DEF b
<1> QED
  BY <1>1, StoredNotBreaking DEF b

-----------------------------------------------------------------------------
(* A reconciled ConfigMap is the one of the resource and the Secret. *)
MapReconciled ==
  reconciled => \E create \in BOOLEAN : bag = UpdatedBag(spec, secret, create)

(* After a reconcile nothing is breaking until somebody edits something:   *)
(* no restart is repeated, whatever the settings are.                      *)
THEOREM NoRestartRepeated == SettingsSpec => []RestartsSettle
<1>1. SettingsInit => MapReconciled
  BY DEF SettingsInit, MapReconciled
<1>2. MapReconciled /\ [SettingsNext]_settingsVars => MapReconciled'
  BY DEF MapReconciled, SettingsNext, Edit, RecreateSecret, Reconcile, settingsVars
<1>3. MapReconciled => RestartsSettle
  BY ReconciledNotBreaking DEF MapReconciled, RestartsSettle
<1> QED
  BY <1>1, <1>2, <1>3, PTL DEF SettingsSpec

-----------------------------------------------------------------------------
(* The agent has the breaking fields that are stored, and a field that is  *)
(* unset is stored with its default, but for those that were emptied.      *)
AgentAgrees ==
  \A f \in BreakingFields \cap Fields : running.props[f] = bag.props[f] \/ f \in cleared
UnsetIsDefault ==
  \A f \in BreakingIfSet \cap Fields :
    spec[f] = Unset => bag.props[f] = GetDefaultProperties[f] \/ f \in cleared

HasProperties == "props" \in DOMAIN bag

(* A reconcile that finds nothing breaking leaves the breaking fields that *)
(* are stored as they are.                                                 *)
LEMMA AgreesStep ==
  ASSUME AgentAgrees, UnsetIsDefault, HasProperties, Reconcile
  PROVE  AgentAgrees' /\ UnsetIsDefault'
<1>1. PICK create \in BOOLEAN :
        bag' = UpdatedBag(spec, secret, create) /\ spec' = spec
  BY DEF Reconcile
<1>2. UnsetIsDefault'
  <2> SUFFICES ASSUME NEW f \in BreakingIfSet \cap Fields, spec'[f] = Unset
               PROVE  bag'.props[f] = GetDefaultProperties[f]
    BY DEF UnsetIsDefault
  <2> QED
    BY <1>1, StoredField
<1>3. CASE HasBreakingChanges(spec, LoadedBag(bag, secret), secret)
  <2>1. running' = [props |-> bag'.props, secret |-> secret]
    BY <1>3 DEF Reconcile, Restart
  <2>2. running'.props = bag'.props
    BY <2>1
  <2> QED
    BY <1>2, <2>2 DEF AgentAgrees
<1>4. CASE ~HasBreakingChanges(spec, LoadedBag(bag, secret), secret)
  <2>1. running' = running /\ cleared' = cleared
    BY <1>4 DEF Reconcile
  <2>2. LoadedBag(bag, secret).props = bag.props
    BY DEF LoadedBag, HasProperties
  <2>3. bag'.props["ControllerUrl"] = bag.props["ControllerUrl"]
    BY <1>1, <1>4, <2>2, StoredAddress DEF HasBreakingChanges
  <2>4. ASSUME NEW f \in BreakingIfSet \cap Fields
        PROVE  bag'.props[f] = bag.props[f] \/ f \in cleared
    <3>1. CASE spec[f] = Unset
      BY <1>1, <3>1, StoredField DEF UnsetIsDefault
    <3>2. CASE spec[f] # Unset
      BY <1>1, <1>4, <2>2, <3>2, StoredField DEF HasBreakingChanges
    <3> QED
      BY <3>1, <3>2
  <2>5. AgentAgrees'
    BY <2>1, <2>3, <2>4 DEF AgentAgrees, BreakingFields
  <2> QED
    BY <1>2, <2>5
<1> QED
  BY <1>3, <1>4

(* After a reconcile the running agent has the stored breaking fields, but *)
(* for those that were emptied since it started.                           *)
THEOREM AgentUpToDate == SettingsSpec => []AgentHasBreakingFields
<1> DEFINE Inv == AgentAgrees /\ UnsetIsDefault /\ HasProperties
<1>1. SettingsInit => Inv
  <2> SUFFICES ASSUME SettingsInit PROVE Inv
    OBVIOUS
  <2>1. AgentAgrees
    BY DEF SettingsInit, AgentAgrees
  <2>2. PICK create \in BOOLEAN : bag = UpdatedBag(spec, secret, create)
    BY DEF SettingsInit
  <2>3. UnsetIsDefault
    BY <2>2, StoredField DEF UnsetIsDefault
  <2>4. HasProperties
    BY <2>2 DEF HasProperties, UpdatedBag
  <2> QED
    BY <2>1, <2>3, <2>4
<1>2. Inv /\ [SettingsNext]_settingsVars => Inv'
  <2> SUFFICES ASSUME Inv, [SettingsNext]_settingsVars PROVE Inv'
    OBVIOUS
  <2>1. CASE Edit
    <3>1. AgentAgrees'
      BY <2>1 DEF Edit, AgentAgrees
    <3>2. UnsetIsDefault'
      BY <2>1 DEF Edit, UnsetIsDefault, BreakingFields
    <3> QED
      BY <2>1, <3>1, <3>2 DEF Edit, HasProperties
  <2>2. CASE RecreateSecret
    BY <2>2 DEF RecreateSecret, AgentAgrees, UnsetIsDefault, HasProperties
  <2>3. CASE Reconcile
    <3>1. HasProperties'
      BY <2>3 DEF Reconcile, HasProperties, UpdatedBag
    <3> QED
      BY <2>3, <3>1, AgreesStep
  <2>4. CASE UNCHANGED settingsVars
    BY <2>4 DEF settingsVars, AgentAgrees, UnsetIsDefault, HasProperties
  <2> QED
    BY <2>1, <2>2, <2>3, <2>4 DEF SettingsNext
<1>3. Inv => AgentHasBreakingFields
  BY DEF AgentAgrees, AgentHasBreakingFields
<1> QED
  BY <1>1, <1>2, <1>3, PTL DEF SettingsSpec

-----------------------------------------------------------------------------
(* The address.                                                            *)

(* The conversion to 16 bits keeps exactly the ports 16 bits hold. *)
IsPort(n) == n \in Int /\ n >= 0 /\ n < PortRange

LEMMA ConvertKeeps ==
  ASSUME NEW n \in Int
  PROVE  IsPort(Convert(n)) /\ (Convert(n) = n <=> IsPort(n))
<1>1. n % 65536 \in Int /\ n % 65536 >= 0 /\ n % 65536 < 65536
  OBVIOUS
<1>2. n >= 0 /\ n < 65536 => n % 65536 = n
  OBVIOUS
<1> QED
  BY <1>1, <1>2 DEF IsPort, Convert, PortRange

LEMMA RangePorts == \A n \in 1..PortRange - 1 : IsPort(n)
<1>1. ASSUME NEW m \in Nat, NEW n \in 1..m - 1 PROVE n \in Int /\ n >= 0 /\ n < m
  OBVIOUS
<1>2. PortRange \in Nat
  BY DEF PortRange
<1> QED
  BY <1>1, <1>2 DEF IsPort

(* "http" contains no s, "https" does. *)
LEMMA ProtocolsDiffer ==
  /\ Http # Https /\ Http.s = FALSE /\ Https.s = TRUE
  /\ Http["http"] = TRUE /\ Https["http"] = TRUE
  BY DEF Http, Https, Piece

(* What users write are sequences of pieces. *)
UrlOK == url \in Seq(Pieces)

LEMMA WellFormedAgrees == ASSUME UrlOK, WellFormed PROVE UrlsAgree
<1>1. /\ Len(url) \in {2, 3} /\ DOMAIN url = 1..Len(url)
      /\ url[1] \in {Http, Https}
  BY DEF UrlOK, WellFormed
<1>2. Accepted(url)
  <2>1. Contains(url, "http")
    BY <1>1, ProtocolsDiffer DEF Contains
  <2>2. Len(url) = 3 => url[3].number # NoNumber
    BY PiecesAssumption DEF WellFormed
  <2> QED
    BY <1>1, <2>1, <2>2 DEF Accepted
<1>3. IsPort(WrittenPort(url))
  <2>1. CASE Len(url) = 3
    BY <2>1, RangePorts DEF WrittenPort, WellFormed
  <2>2. CASE Len(url) = 2
    <3>1. WrittenPort(url) \in {80, 443}
      BY <2>2 DEF WrittenPort
    <3> QED
      BY <3>1 DEF IsPort, PortRange
  <2> QED
    BY <1>1, <2>1, <2>2
<1>4. Convert(WrittenPort(url)) = WrittenPort(url)
  BY <1>3, ConvertKeeps DEF IsPort
<1>5. validateControllerUrl(url) =
        [dns |-> url[2].rest, port |-> WrittenPort(url), ssl |-> Secure(url)]
  BY <1>2, <1>4 DEF validateControllerUrl
<1>6. CASE url[1] = Http
  <2>1. Secure(url) = FALSE /\ (url[1] = Https) = FALSE
    BY <1>6, ProtocolsDiffer DEF Secure
  <2> QED
    BY <1>5, <2>1 DEF UrlsAgree, Meaning, WrittenPort
<1>7. CASE url[1] = Https
  <2>1. Secure(url) = TRUE /\ (url[1] = Https) = TRUE
    BY <1>7, ProtocolsDiffer DEF Secure
  <2> QED
    BY <1>5, <2>1 DEF UrlsAgree, Meaning, WrittenPort
<1> QED
  BY <1>1, <1>6, <1>7

(* An address in the documented format means to the agents what it says,   *)
(* whatever its host looks like and whichever of the 65535 ports it has.   *)
THEOREM UrlsMeanWhatTheySay == UrlSpec => []UrlsAgree
<1>1. UrlInit => UrlOK
  BY DEF UrlInit, UrlOK
<1>2. UrlOK /\ [WritePiece]_url => UrlOK'
  BY DEF UrlOK, WritePiece
<1>3. UrlOK => UrlsAgree
  BY WellFormedAgrees DEF UrlsAgree
<1> QED
  BY <1>1, <1>2, <1>3, PTL DEF UrlSpec
=============================================================================
