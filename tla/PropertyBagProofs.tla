------------------------- MODULE PropertyBagProofs -------------------------
(***************************************************************************)
(* What updateMap stores, for any fields and values, against what          *)
(* hasBreakingChanges compares.                                            *)
(***************************************************************************)
EXTENDS PropertyBag, TLAPS

(* A breaking field is never a list; the address is mirrored, the others   *)
(* are overridden.                                                         *)
LEMMA BreakingKinds ==
  /\ \A f \in BreakingFields : f \notin Lists
  /\ "ControllerUrl" \in Mirrored
  /\ \A f \in BreakingIfSet : f \in Overridden /\ f \notin Mirrored
                              /\ f # "BiqRequestCpu"
<1>1. \A f \in BreakingFields : f \notin Lists
  BY DEF BreakingFields, BreakingIfSet, Lists
<1>2. "ControllerUrl" \in Mirrored
  BY DEF Mirrored
<1>3. \A f \in BreakingIfSet : f \in Overridden
  BY DEF BreakingIfSet, Overridden
<1>4. \A f \in BreakingIfSet : f \notin Mirrored /\ f # "BiqRequestCpu"
  BY DEF BreakingIfSet, Mirrored, Flagging
<1> QED
  BY <1>1, <1>2, <1>3, <1>4

(* What updateMap stores in the breaking fields.                           *)
LEMMA StoredAddress ==
  ASSUME NEW s, NEW n, NEW create
  PROVE  UpdatedBag(s, n, create).props["ControllerUrl"] = s["ControllerUrl"]
<1>1. "ControllerUrl" \in Fields
  BY FieldsAssumption
<1>2. "ControllerUrl" \in BreakingFields
  BY DEF BreakingFields
<1> QED
  BY <1>1, <1>2, BreakingKinds DEF UpdatedBag, Merged, Copied

LEMMA StoredField ==
  ASSUME NEW s, NEW n, NEW create, NEW f \in BreakingIfSet \cap Fields
  PROVE  UpdatedBag(s, n, create).props[f] =
           IF s[f] # Unset THEN s[f] ELSE GetDefaultProperties[f]
<1>1. f \notin Lists
  BY BreakingKinds DEF BreakingFields
<1>2. UpdatedBag(s, n, create).props[f] = Merged(f, GetDefaultProperties, s)
  BY DEF UpdatedBag
<1> QED
  BY <1>1, <1>2, BreakingKinds DEF Merged, Copied

(* What is stored for the settings s is not breaking for them.             *)
LEMMA StoredNotBreaking ==
  ASSUME NEW s, NEW m, NEW create, NEW b,
         b.props = UpdatedBag(s, m, create).props
  PROVE  ~HasBreakingChanges(s, b, b.secretVersion)
<1>1. s["ControllerUrl"] = b.props["ControllerUrl"]
  BY StoredAddress
<1>2. \A f \in BreakingIfSet \cap Fields : s[f] # Unset => s[f] = b.props[f]
  BY StoredField
<1> QED
  BY <1>1, <1>2 DEF HasBreakingChanges

(* The Secret and the create flag do not reach the properties.             *)
LEMMA PropsOfSettings ==
  ASSUME NEW s, NEW n, NEW c, NEW m, NEW d
  PROVE  UpdatedBag(s, n, c).props = UpdatedBag(s, m, d).props
  BY DEF UpdatedBag
=============================================================================
