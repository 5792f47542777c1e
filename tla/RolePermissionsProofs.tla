------------------------- MODULE RolePermissionsProofs -------------------------
(* Theorems about RolePermissions, for every set of roles, features and calls. *)
EXTENDS RolePermissions, TLAPS

\* A row holds what was chosen last, or the default; what 027 granted has rows.
Rows ==
    /\ Old \subseteq features
    /\ stage # "features" \/ granted => features = Features
    /\ \A r \in Roles : kept[r] \subseteq features
    /\ \A r \in Roles : \A f \in kept[r] :
        grant[r][f] = OnOff(f \in last[r]) /\ (f \in Required(r) => f \in last[r])
    /\ \A r \in Roles : \A f \in features \ kept[r] :
        grant[r][f] = "none" \/ grant[r][f] = OnOff(f \in Default[r])
    /\ \A r \in Roles \ {NewRole} : \A f \in Old : grant[r][f] # "none"
    /\ granted => \A r \in Roles : \A f \in features : grant[r][f] = "none" => f \notin Default[r]

\* What a call chose, before it is saved.
Choices ==
    \A c \in Calls : req[c].step \in {"before", "save"} =>
        Required(req[c].role) \subseteq req[c].keys

\* Of a role that is not muddled, at most one call is saving, and it knows what the
\* trail says.
Told(c, r) ==
    /\ \A d \in Calls : Saving(d, r) => d = c
    /\ At(c, "save") => replay[r] = Listed(r)
    /\ At(c, "save") \/ At(c, "after") => req[c].before = replay[r]
    /\ At(c, "audit") => /\ req[c].added = Listed(r) \ replay[r]
                         /\ req[c].removed = replay[r] \ Listed(r)

Trail ==
    \A r \in Roles \ muddled :
        /\ (\A c \in Calls : ~Saving(c, r)) => replay[r] = Listed(r)
        /\ \A c \in Calls : Saving(c, r) => Told(c, r)

Inv == TypeOK /\ Rows /\ Choices /\ Trail

-----------------------------------------------------------------------------

LEMMA OnOffIs ==
  ASSUME NEW yes \in BOOLEAN
  PROVE  /\ OnOff(yes) \in {"none", "on", "off"} /\ OnOff(yes) # "none"
         /\ OnOff(yes) = "on" <=> yes
  BY DEF OnOff

LEMMA ListedTyped == \A r : Listed(r) \subseteq features
  BY DEF Listed

LEMMA RequiredIs == \A r \in Roles : Required(r) \subseteq Default[r] /\ Required(r) \subseteq Old
  BY DefaultAssumption, FeatureAssumption DEF Required

\* A role's features are what its rows say.
LEMMA ListedIs ==
  ASSUME TypeOK, Rows, NEW r \in Roles, NEW f \in features
  PROVE  f \in Listed(r) <=> IF f \in kept[r] THEN f \in last[r] ELSE f \in Default[r]
<1>1. CASE f \in kept[r]
  <2>1. grant[r][f] = OnOff(f \in last[r]) /\ (f \in Required(r) => f \in last[r])
    BY <1>1 DEF Rows
  <2> QED
    BY <1>1, <2>1 DEF Listed, OnOff
<1>2. CASE f \notin kept[r]
  <2>1. grant[r][f] = "none" \/ grant[r][f] = OnOff(f \in Default[r])
    BY <1>2 DEF Rows
  <2>2. f \in Required(r) => f \in Default[r]
    BY RequiredIs
  <2> QED
    BY <1>2, <2>1, <2>2 DEF Listed, OnOff
<1> QED
  BY <1>1, <1>2

LEMMA IdleIsRequest == Idle \in Request /\ Idle.step = "idle"
  BY DEF Idle, Request, Steps

\* The memory of a call c after a step, and that of the others.
LEMMA CallMoves ==
  ASSUME TypeOK, NEW c \in Calls, NEW x \in Request, x.step # "idle" => x.role # NoRole,
         req' = [req EXCEPT ![c] = x]
  PROVE  /\ req' \in [Calls -> Request] /\ req'[c] = x
         /\ \A d \in Calls \ {c} : req'[d] = req[d]
         /\ \A d \in Calls : req'[d].step # "idle" => req'[d].role # NoRole
<1>1. req \in [Calls -> Request] /\ \A d \in Calls : req[d].step # "idle" => req[d].role # NoRole
  BY DEF TypeOK
<1>2. req' \in [Calls -> Request] /\ req'[c] = x /\ \A d \in Calls \ {c} : req'[d] = req[d]
  BY <1>1
<1> QED
  BY <1>1, <1>2

LEMMA RoleIsRole ==
  ASSUME TypeOK, NEW c \in Calls, req[c].step # "idle"
  PROVE  req[c].role \in Roles /\ req[c] \in Request /\ req[c].role # NoRole
<1>1. req[c] \in Request /\ req[c].role # NoRole
  BY DEF TypeOK
<1> QED
  BY <1>1 DEF Request

THEOREM InitInv == Init => Inv
<1> SUFFICES ASSUME Init PROVE Inv
  OBVIOUS
<1> DEFINE row(r, f) == IF r = NewRole \/ f \notin Old THEN "none" ELSE OnOff(f \in Default[r])
<1>1. grant = [r \in Roles |-> [f \in Features |-> row(r, f)]] /\ features = Old
  BY DEF Init
<1>2. \A r \in Roles, f \in Features : row(r, f) \in {"none", "on", "off"}
  BY OnOffIs DEF OnOff
<1>3. grant \in [Roles -> [Features -> {"none", "on", "off"}]]
  BY <1>1, <1>2
<1>4. \A r \in Roles, f \in Features : grant[r][f] = row(r, f)
  BY <1>1
<1>5. \A c \in Calls : req[c] = Idle /\ req \in [Calls -> Request]
  BY IdleIsRequest DEF Init
<1>6. replay \in [Roles -> SUBSET Features] /\ \A r \in Roles : replay[r] = Old \cap Default[r]
  BY FeatureAssumption DEF Init
<1>7. TypeOK
  BY <1>1, <1>3, <1>4, <1>5, <1>6, IdleIsRequest, FeatureAssumption DEF Init, TypeOK
<1>8. Rows
  <2>1. \A f \in Old : f \in Features
    BY FeatureAssumption
  <2>2. \A r \in Roles : \A f \in features : grant[r][f] = "none" \/ grant[r][f] = OnOff(f \in Default[r])
    BY <1>1, <1>4, <2>1
  <2>3. \A r \in Roles \ {NewRole} : \A f \in Old : grant[r][f] # "none"
    BY <1>4, <2>1 DEF OnOff
  <2> QED
    BY <1>1, <2>2, <2>3 DEF Init, Rows
<1>9. Choices
  BY <1>5, IdleIsRequest DEF Choices
<1>10. \A r \in Roles : Listed(r) = Old \cap Default[r]
  <2> SUFFICES ASSUME NEW r \in Roles, NEW f \in Old PROVE f \in Listed(r) <=> f \in Default[r]
    BY <1>1 DEF Listed
  <2>1. kept[r] = {}
    BY DEF Init
  <2> QED
    BY <1>1, <1>7, <1>8, <2>1, ListedIs
<1>11. Trail
  BY <1>5, <1>6, <1>10, IdleIsRequest DEF Trail, Saving
<1> QED
  BY <1>7, <1>8, <1>9, <1>11 DEF Inv

-----------------------------------------------------------------------------
(* The migration *)

LEMMA UnauditedTrail ==
  ASSUME TypeOK, req' = req, Unaudited, features' \subseteq Features
  PROVE  Trail' /\ replay' \in [Roles -> SUBSET Features] /\ muddled' \subseteq Roles
<1>1. \A r \in Roles : Listed(r)' \subseteq Features
  BY DEF Listed
<1>2. replay' \in [Roles -> SUBSET Features] /\ \A r \in Roles : replay'[r] = Listed(r)'
  BY <1>1 DEF Unaudited
<1>3. \A r \in Roles \ muddled' : \A c \in Calls : ~Saving(c, r)'
  BY DEF Unaudited, Saving
<1>4. Trail'
  BY <1>2, <1>3 DEF Trail
<1> QED
  BY <1>2, <1>4 DEF Unaudited, TypeOK

LEMMA SeedFeaturesStep ==
  ASSUME Inv, SeedFeatures
  PROVE  Inv'
<1>1. TypeOK /\ Rows /\ Choices /\ Unaudited /\ features' = Features /\ stage' = "grants"
      /\ UNCHANGED <<grant, granted, last, kept, req, edits, failures>>
  BY DEF Inv, SeedFeatures
<1>2. Trail' /\ replay' \in [Roles -> SUBSET Features] /\ muddled' \subseteq Roles
  BY <1>1, UnauditedTrail
<1>3. TypeOK'
  BY <1>1, <1>2 DEF TypeOK
<1>4. \A r \in Roles : \A f \in Features \ features : grant[r][f] = "none"
  BY <1>1 DEF TypeOK
<1>5. features \subseteq Features /\ \A r \in Roles : kept[r] \subseteq features
  BY <1>1 DEF TypeOK, Rows
<1>6. Rows'
  <2>1. \A r \in Roles : \A f \in Features \ kept[r] :
          grant[r][f] = "none" \/ grant[r][f] = OnOff(f \in Default[r])
    BY <1>1, <1>4 DEF Rows
  <2>2. granted => features = Features
    BY <1>1 DEF Rows
  <2> QED
    BY <1>1, <1>5, <2>1, <2>2, FeatureAssumption DEF Rows
<1>7. Choices'
  BY <1>1 DEF Choices
<1> QED
  BY <1>2, <1>3, <1>6, <1>7 DEF Inv

LEMMA SeedGrantsStep ==
  ASSUME Inv, SeedGrants
  PROVE  Inv'
<1> DEFINE row(r, f) == IF f \in SeededFor(r) THEN OnOff(f \in Default[r]) ELSE grant[r][f]
<1>1. TypeOK /\ Rows /\ Choices /\ Unaudited /\ stage = "grants" /\ stage' = "record" /\ granted' = TRUE
      /\ grant' = [r \in Roles |-> [f \in Features |-> row(r, f)]]
      /\ kept' = [r \in Roles |-> kept[r] \ SeededFor(r)]
      /\ UNCHANGED <<features, last, req, edits, failures>>
  BY DEF Inv, SeedGrants
<1>2. features = Features
  BY <1>1 DEF Rows
<1>3. \A r \in Roles, f \in Features : row(r, f) \in {"none", "on", "off"}
  BY <1>1, OnOffIs DEF TypeOK, OnOff
<1>4. grant' \in [Roles -> [Features -> {"none", "on", "off"}]]
      /\ \A r \in Roles, f \in Features : grant'[r][f] = row(r, f)
  BY <1>1, <1>3
<1>5. kept' \in [Roles -> SUBSET Features] /\ \A r \in Roles : kept'[r] = kept[r] \ SeededFor(r)
  BY <1>1 DEF TypeOK
<1>6. Trail' /\ replay' \in [Roles -> SUBSET Features] /\ muddled' \subseteq Roles
  BY <1>1, <1>2, UnauditedTrail
<1>7. TypeOK'
  BY <1>1, <1>2, <1>4, <1>5, <1>6 DEF TypeOK
<1>8. \A r \in Roles : \A f \in kept'[r] :
        grant'[r][f] = OnOff(f \in last[r]) /\ (f \in Required(r) => f \in last[r])
  <2> SUFFICES ASSUME NEW r \in Roles, NEW f \in kept'[r]
               PROVE  grant'[r][f] = OnOff(f \in last[r]) /\ (f \in Required(r) => f \in last[r])
    OBVIOUS
  <2>1. f \in kept[r] /\ f \notin SeededFor(r) /\ f \in Features
    BY <1>1, <1>5 DEF TypeOK
  <2> QED
    BY <1>1, <1>4, <2>1 DEF Rows
<1>9. \A r \in Roles : \A f \in Features \ kept'[r] :
        grant'[r][f] = "none" \/ grant'[r][f] = OnOff(f \in Default[r])
  <2> SUFFICES ASSUME NEW r \in Roles, NEW f \in Features \ kept'[r], f \notin SeededFor(r)
               PROVE  grant'[r][f] = "none" \/ grant'[r][f] = OnOff(f \in Default[r])
    BY <1>4
  <2> QED
    BY <1>1, <1>2, <1>4, <1>5 DEF Rows
<1>10. \A r \in Roles \ {NewRole} : \A f \in Old : grant'[r][f] # "none"
  BY <1>1, <1>4, FeatureAssumption DEF Rows, OnOff
<1>11. \A r \in Roles : \A f \in Features : grant'[r][f] = "none" => f \notin Default[r]
  BY <1>1, <1>4 DEF Rows, SeededFor, OnOff
<1>12. Rows'
  BY <1>1, <1>2, <1>5, <1>8, <1>9, <1>10, <1>11 DEF Rows, TypeOK
<1>13. Choices'
  BY <1>1 DEF Choices
<1> QED
  BY <1>6, <1>7, <1>12, <1>13 DEF Inv

\* Record, a migration that fails, and a step that changes nothing.
LEMMA StageStep ==
  ASSUME Inv, UNCHANGED <<features, grant, granted, last, kept, replay, muddled, req, edits>>,
         failures' \in Nat, stage' \in {"features", "grants", "record", "done"},
         stage' # "features" => stage # "features"
  PROVE  Inv'
<1>1. TypeOK'
  BY DEF Inv, TypeOK
<1>2. Rows'
  BY DEF Inv, Rows
<1>3. Choices'
  BY DEF Inv, Choices
<1>4. \A r : Listed(r)' = Listed(r)
  BY DEF Listed
<1>5. Trail'
  BY <1>4 DEF Inv, Trail, Told, Saving, At
<1> QED
  BY <1>1, <1>2, <1>3, <1>5 DEF Inv

-----------------------------------------------------------------------------
(* The edits *)

LEMMA BeginStep ==
  ASSUME Inv, NEW c \in Calls, Begin(c)
  PROVE  Inv'
<1>1. PICK r \in Roles, keys \in SUBSET Features :
        /\ keys \cup Required(r) \subseteq features
        /\ req' = [req EXCEPT ![c] =
                     [Idle EXCEPT !.step = "before", !.role = r, !.keys = keys \cup Required(r)]]
  BY DEF Begin
<1> DEFINE x == [Idle EXCEPT !.step = "before", !.role = r, !.keys = keys \cup Required(r)]
<1>2. TypeOK /\ features \subseteq Features /\ At(c, "idle") /\ UNCHANGED <<tables, trail, failures>>
      /\ edits' \in Nat
  BY DEF Inv, TypeOK, Begin
<1>3. /\ x \in Request /\ x.step = "before" /\ x.role = r /\ r # NoRole
      /\ x.keys = keys \cup Required(r)
  BY <1>1, <1>2, RoleAssumption DEF Idle, Request, Steps
<1>4. req' = [req EXCEPT ![c] = x]
  BY <1>1
<1> HIDE DEF x
<1>5. /\ req' \in [Calls -> Request] /\ req'[c] = x
      /\ \A d \in Calls \ {c} : req'[d] = req[d]
      /\ \A d \in Calls : req'[d].step # "idle" => req'[d].role # NoRole
  BY <1>2, <1>3, <1>4, CallMoves
<1>6. TypeOK'
  BY <1>2, <1>5 DEF TypeOK, tables, trail
<1>7. Rows'
  BY <1>2 DEF Inv, Rows, tables
<1>8. Choices'
  BY <1>3, <1>5 DEF Inv, Choices
<1>9. \A d \in Calls, q \in Roles : /\ Saving(d, q)' <=> Saving(d, q)
                                    /\ Saving(d, q) => d # c /\ req'[d] = req[d]
  BY <1>2, <1>3, <1>5 DEF Saving, At
<1>10. \A q : Listed(q)' = Listed(q)
  BY <1>2 DEF Listed, tables
<1>11. Trail'
  BY <1>2, <1>9, <1>10 DEF Inv, Trail, Told, At, trail
<1> QED
  BY <1>6, <1>7, <1>8, <1>11 DEF Inv

LEMMA BeforeStep ==
  ASSUME Inv, NEW c \in Calls, Before(c)
  PROVE  Inv'
<1> DEFINE r == req[c].role
           x == [req[c] EXCEPT !.step = "save", !.before = Listed(r)]
<1>1. TypeOK /\ req[c].step = "before" /\ r \in Roles /\ req[c] \in Request /\ r # NoRole
      /\ UNCHANGED <<tables, replay, edits, failures>>
  BY RoleIsRole DEF Inv, Before, At
<1>2. x \in Request /\ x.step = "save" /\ x.role = r /\ x.keys = req[c].keys /\ x.before = Listed(r)
  <2>1. Listed(r) \subseteq Features
    BY <1>1, ListedTyped DEF TypeOK
  <2> QED
    BY <1>1, <2>1 DEF Request, Steps
<1>3. req' = [req EXCEPT ![c] = x]
  BY <1>1 DEF Before, TypeOK, Request
<1>4. muddled' = IF \E d \in Calls : Saving(d, r) THEN muddled \cup {r} ELSE muddled
  BY DEF Before
<1> HIDE DEF x
<1>5. /\ req' \in [Calls -> Request] /\ req'[c] = x
      /\ \A d \in Calls \ {c} : req'[d] = req[d]
      /\ \A d \in Calls : req'[d].step # "idle" => req'[d].role # NoRole
  BY <1>1, <1>2, <1>3, CallMoves
<1>6. muddled' \subseteq Roles /\ muddled \subseteq muddled'
  BY <1>1, <1>4 DEF TypeOK
<1>7. TypeOK'
  BY <1>1, <1>5, <1>6 DEF TypeOK, tables
<1>8. Rows'
  BY <1>1 DEF Inv, Rows, tables
<1>9. Choices'
  BY <1>1, <1>2, <1>5 DEF Inv, Choices
<1>10. \A q : Listed(q)' = Listed(q)
  BY <1>1 DEF Listed, tables
<1>11. \A d \in Calls \ {c}, q \in Roles : Saving(d, q)' <=> Saving(d, q)
  BY <1>5 DEF Saving
<1>12. \A q \in Roles : ~Saving(c, q) /\ (Saving(c, q)' <=> q = r)
  BY <1>1, <1>2, <1>5 DEF Saving
<1>13. Trail'
  <2> SUFFICES ASSUME NEW q \in Roles \ muddled'
               PROVE  /\ (\A d \in Calls : ~Saving(d, q)') => replay'[q] = Listed(q)'
                      /\ \A d \in Calls : Saving(d, q)' => Told(d, q)'
    BY DEF Trail
  <2>1. q \notin muddled /\ replay' = replay
    BY <1>1, <1>6
  <2>2. CASE q = r
    <3>1. \A d \in Calls : ~Saving(d, q)
      BY <1>4, <2>2
    <3>2. replay[q] = Listed(q)
      BY <2>1, <3>1 DEF Inv, Trail
    <3>3. \A d \in Calls : Saving(d, q)' => d = c
      BY <1>11, <3>1
    <3>4. Told(c, q)'
      BY <1>2, <1>5, <1>10, <2>1, <2>2, <3>2, <3>3 DEF Told, At
    <3> QED
      BY <1>12, <2>2, <3>3, <3>4
  <2>3. CASE q # r
    <3>1. \A d \in Calls : (Saving(d, q)' <=> Saving(d, q)) /\ (Saving(d, q) => d # c)
      BY <1>11, <1>12, <2>3
    <3> QED
      BY <1>5, <1>10, <2>1, <3>1 DEF Inv, Trail, Told, At
  <2> QED
    BY <2>2, <2>3
<1> QED
  BY <1>7, <1>8, <1>9, <1>13 DEF Inv

LEMMA SaveStep ==
  ASSUME Inv, NEW c \in Calls, Save(c)
  PROVE  Inv'
<1> DEFINE r == req[c].role
           x == [req[c] EXCEPT !.step = "after"]
           row == [f \in Features |-> IF f \in features THEN OnOff(f \in req[c].keys) ELSE "none"]
<1>1. TypeOK /\ req[c].step = "save" /\ r \in Roles /\ req[c] \in Request /\ r # NoRole
      /\ UNCHANGED <<stage, features, granted, trail, edits, failures>>
  BY RoleIsRole DEF Inv, Save, At
<1>2. /\ grant' = [grant EXCEPT ![r] = row]
      /\ last' = [last EXCEPT ![r] = req[c].keys]
      /\ kept' = [kept EXCEPT ![r] = features]
  BY DEF Save
<1>3. x \in Request /\ x.step = "after" /\ x.role = r /\ x.before = req[c].before
  BY <1>1 DEF Request, Steps
<1>4. req' = [req EXCEPT ![c] = x]
  BY <1>1 DEF Save, TypeOK, Request
<1> HIDE DEF x
<1>5. /\ req' \in [Calls -> Request] /\ req'[c] = x
      /\ \A d \in Calls \ {c} : req'[d] = req[d]
      /\ \A d \in Calls : req'[d].step # "idle" => req'[d].role # NoRole
  BY <1>1, <1>3, <1>4, CallMoves
<1>6. row \in [Features -> {"none", "on", "off"}] /\ req[c].keys \subseteq Features
  BY <1>1, OnOffIs DEF Request, OnOff
<1>7. /\ \A f \in features : row[f] = OnOff(f \in req[c].keys)
      /\ \A f \in Features \ features : row[f] = "none"
  BY <1>1 DEF TypeOK
<1> HIDE DEF row
<1>8. /\ grant' \in [Roles -> [Features -> {"none", "on", "off"}]] /\ grant'[r] = row
      /\ last' \in [Roles -> SUBSET Features] /\ last'[r] = req[c].keys
      /\ kept' \in [Roles -> SUBSET Features] /\ kept'[r] = features
      /\ \A q \in Roles \ {r} : grant'[q] = grant[q] /\ last'[q] = last[q] /\ kept'[q] = kept[q]
  BY <1>1, <1>2, <1>6 DEF TypeOK
<1>9. TypeOK'
  <2>1. \A q \in Roles, f \in Features \ features : grant'[q][f] = "none"
    BY <1>1, <1>7, <1>8 DEF TypeOK
  <2> QED
    BY <1>1, <1>5, <1>8, <2>1 DEF TypeOK, trail
<1>10. Required(r) \subseteq req[c].keys
  BY <1>1 DEF Inv, Choices
<1>11. \A f \in features : row[f] # "none"
  BY <1>7 DEF OnOff
<1>12. Rows'
  <2>1. Rows /\ Old \subseteq features
    BY DEF Inv, Rows
  <2>2. \A q \in Roles : \A f \in kept'[q] :
          grant'[q][f] = OnOff(f \in last'[q]) /\ (f \in Required(q) => f \in last'[q])
    BY <1>7, <1>8, <1>10, <2>1 DEF Rows
  <2>3. \A q \in Roles : \A f \in features \ kept'[q] :
          grant'[q][f] = "none" \/ grant'[q][f] = OnOff(f \in Default[q])
    BY <1>8, <2>1 DEF Rows
  <2>4. \A q \in Roles \ {NewRole} : \A f \in Old : grant'[q][f] # "none"
    BY <1>8, <1>11, <2>1 DEF Rows
  <2>5. granted => \A q \in Roles : \A f \in features : grant'[q][f] = "none" => f \notin Default[q]
    BY <1>8, <1>11, <2>1 DEF Rows
  <2>6. \A q \in Roles : kept'[q] \subseteq features
    BY <1>8, <2>1 DEF Rows
  <2> QED
    BY <1>1, <2>1, <2>2, <2>3, <2>4, <2>5, <2>6 DEF Rows
<1>13. Choices'
  BY <1>3, <1>5 DEF Inv, Choices
<1>14. \A d \in Calls, q \in Roles : Saving(d, q)' <=> Saving(d, q)
  BY <1>1, <1>3, <1>5 DEF Saving
<1>15. \A q \in Roles \ {r} : Listed(q)' = Listed(q)
  BY <1>1, <1>8 DEF Listed
<1>16. Trail'
  <2> SUFFICES ASSUME NEW q \in Roles \ muddled
               PROVE  /\ (\A d \in Calls : ~Saving(d, q)') => replay'[q] = Listed(q)'
                      /\ \A d \in Calls : Saving(d, q)' => Told(d, q)'
    BY <1>1 DEF Trail, trail
  <2>1. replay' = replay
    BY <1>1 DEF trail
  <2>2. CASE q = r
    <3>1. Saving(c, q)
      BY <1>1, <2>2 DEF Saving
    <3>2. Told(c, q)
      BY <3>1 DEF Inv, Trail
    <3>3. Told(c, q)'
      BY <1>1, <1>3, <1>5, <1>14, <2>1, <3>2 DEF Told, At
    <3>4. \A d \in Calls : Saving(d, q)' => d = c
      BY <1>14, <3>2 DEF Told
    <3> QED
      BY <1>14, <3>1, <3>3, <3>4
  <2>3. CASE q # r
    <3>1. \A d \in Calls : Saving(d, q) => d # c
      BY <2>3 DEF Saving
    <3> QED
      BY <1>5, <1>14, <1>15, <2>1, <2>3, <3>1 DEF Inv, Trail, Told, At
  <2> QED
    BY <2>2, <2>3
<1> QED
  BY <1>9, <1>12, <1>13, <1>16 DEF Inv

LEMMA AfterStep ==
  ASSUME Inv, NEW c \in Calls, After(c)
  PROVE  Inv'
<1> DEFINE r == req[c].role
           x == [req[c] EXCEPT !.step = "audit", !.added = Listed(r) \ req[c].before,
                               !.removed = req[c].before \ Listed(r)]
<1>1. TypeOK /\ req[c].step = "after" /\ r \in Roles /\ req[c] \in Request /\ r # NoRole
      /\ UNCHANGED <<tables, trail, edits, failures>>
  BY RoleIsRole DEF Inv, After, At
<1>2. /\ x \in Request /\ x.step = "audit" /\ x.role = r
      /\ x.added = Listed(r) \ req[c].before /\ x.removed = req[c].before \ Listed(r)
  <2>1. Listed(r) \subseteq Features
    BY <1>1, ListedTyped DEF TypeOK
  <2> QED
    BY <1>1, <2>1 DEF Request, Steps
<1>3. req' = [req EXCEPT ![c] = x]
  BY <1>1 DEF After, TypeOK, Request
<1> HIDE DEF x
<1>4. /\ req' \in [Calls -> Request] /\ req'[c] = x
      /\ \A d \in Calls \ {c} : req'[d] = req[d]
      /\ \A d \in Calls : req'[d].step # "idle" => req'[d].role # NoRole
  BY <1>1, <1>2, <1>3, CallMoves
<1>5. TypeOK'
  BY <1>1, <1>4 DEF TypeOK, tables, trail
<1>6. Rows'
  BY <1>1 DEF Inv, Rows, tables
<1>7. Choices'
  BY <1>2, <1>4 DEF Inv, Choices
<1>8. \A q : Listed(q)' = Listed(q)
  BY <1>1 DEF Listed, tables
<1>9. \A d \in Calls, q \in Roles : Saving(d, q)' <=> Saving(d, q)
  BY <1>1, <1>2, <1>4 DEF Saving
<1>10. Trail'
  <2> SUFFICES ASSUME NEW q \in Roles \ muddled
               PROVE  /\ (\A d \in Calls : ~Saving(d, q)') => replay'[q] = Listed(q)'
                      /\ \A d \in Calls : Saving(d, q)' => Told(d, q)'
    BY <1>1 DEF Trail, trail
  <2>1. replay' = replay
    BY <1>1 DEF trail
  <2>2. (\A d \in Calls : ~Saving(d, q)') => replay'[q] = Listed(q)'
    BY <1>8, <1>9, <2>1 DEF Inv, Trail
  <2>3. ASSUME NEW d \in Calls, Saving(d, q)' PROVE Told(d, q)'
    <3>1. Told(d, q)
      BY <1>9, <2>3 DEF Inv, Trail
    <3>2. CASE d = c
      <4>1. q = r
        BY <1>9, <2>3, <3>2 DEF Saving
      <4> QED
        BY <1>1, <1>2, <1>4, <1>8, <1>9, <2>1, <3>1, <3>2, <4>1 DEF Told, At
    <3>3. CASE d # c
      BY <1>4, <1>8, <1>9, <2>1, <3>1, <3>3 DEF Told, At
    <3> QED
      BY <3>2, <3>3
  <2> QED
    BY <2>2, <2>3
<1> QED
  BY <1>5, <1>6, <1>7, <1>10 DEF Inv

\* A call is answered: the trail has been told, nothing was saved, or it is muddled.
LEMMA AnswerStep ==
  ASSUME Inv, NEW c \in Calls, Answer(c), req[c].step # "idle",
         UNCHANGED <<tables, edits>>, failures' \in Nat,
         replay' \in [Roles -> SUBSET Features],
         muddled \subseteq muddled', muddled' \subseteq Roles,
         \A q \in Roles \ {req[c].role} : replay'[q] = replay[q],
         req[c].role \notin muddled' /\ Saving(c, req[c].role) => replay'[req[c].role] = Listed(req[c].role),
         ~Saving(c, req[c].role) => replay'[req[c].role] = replay[req[c].role]
  PROVE  Inv'
<1>1. TypeOK /\ req[c].role \in Roles
  BY RoleIsRole DEF Inv
<1>2. /\ req' \in [Calls -> Request] /\ req'[c] = Idle
      /\ \A d \in Calls \ {c} : req'[d] = req[d]
      /\ \A d \in Calls : req'[d].step # "idle" => req'[d].role # NoRole
  BY <1>1, IdleIsRequest, CallMoves DEF Answer
<1>3. TypeOK'
  BY <1>1, <1>2 DEF TypeOK, tables
<1>4. Rows'
  BY DEF Inv, Rows, tables
<1>5. Choices'
  BY <1>2, IdleIsRequest DEF Inv, Choices
<1>6. \A q : Listed(q)' = Listed(q)
  BY DEF Listed, tables
<1>7. \A d \in Calls, q \in Roles : Saving(d, q)' <=> Saving(d, q) /\ d # c
  BY <1>2, IdleIsRequest DEF Saving
<1>8. Trail'
  <2> SUFFICES ASSUME NEW q \in Roles \ muddled'
               PROVE  /\ (\A d \in Calls : ~Saving(d, q)') => replay'[q] = Listed(q)'
                      /\ \A d \in Calls : Saving(d, q)' => Told(d, q)'
    BY DEF Trail
  <2>1. CASE Saving(c, q)
    <3>1. q = req[c].role
      BY <2>1 DEF Saving
    <3>2. replay'[q] = Listed(q)'
      BY <1>6, <2>1, <3>1
    <3>3. \A d \in Calls : Saving(d, q) => d = c
      BY <2>1 DEF Inv, Trail, Told
    <3> QED
      BY <1>7, <3>2, <3>3
  <2>2. CASE ~Saving(c, q)
    <3>1. replay'[q] = replay[q]
      BY <2>2
    <3>2. \A d \in Calls : Saving(d, q)' <=> Saving(d, q)
      BY <1>7, <2>2
    <3> QED
      BY <1>2, <1>6, <2>2, <3>1, <3>2 DEF Inv, Trail, Told, At
  <2> QED
    BY <2>1, <2>2
<1> QED
  BY <1>3, <1>4, <1>5, <1>8 DEF Inv

LEMMA AuditStep ==
  ASSUME Inv, NEW c \in Calls, Audit(c)
  PROVE  Inv'
<1> DEFINE r == req[c].role
<1>1. TypeOK /\ req[c].step = "audit" /\ r \in Roles /\ req[c] \in Request
      /\ Answer(c) /\ UNCHANGED <<tables, muddled, edits, failures>>
  BY RoleIsRole DEF Inv, Audit, At
<1>2. replay' = [replay EXCEPT ![r] = (@ \cup req[c].added) \ req[c].removed]
  BY DEF Audit
<1>3. req[c].added \subseteq Features
  BY <1>1 DEF Request
<1>4. /\ replay' \in [Roles -> SUBSET Features]
      /\ replay'[r] = (replay[r] \cup req[c].added) \ req[c].removed
      /\ \A q \in Roles \ {r} : replay'[q] = replay[q]
  BY <1>1, <1>2, <1>3 DEF TypeOK
<1>5. Saving(c, r)
  BY <1>1 DEF Saving
<1>6. r \notin muddled' => replay'[r] = Listed(r)
  <2> SUFFICES ASSUME r \notin muddled PROVE replay'[r] = Listed(r)
    BY <1>1
  <2>1. req[c].added = Listed(r) \ replay[r] /\ req[c].removed = replay[r] \ Listed(r)
    BY <1>1, <1>5 DEF Inv, Trail, Told, At
  <2> QED
    BY <1>4, <2>1
<1> QED
  BY <1>1, <1>4, <1>5, <1>6, AnswerStep DEF TypeOK

LEMMA CrashStep ==
  ASSUME Inv, NEW c \in Calls, Crash(c)
  PROVE  Inv'
<1> DEFINE r == req[c].role
<1>1. TypeOK /\ req[c].step # "idle" /\ r \in Roles /\ Answer(c) /\ failures' \in Nat
      /\ UNCHANGED <<tables, replay, edits>>
      /\ muddled' = IF req[c].step \in {"after", "audit"} THEN muddled \cup {r} ELSE muddled
  BY RoleIsRole DEF Inv, Crash, At, TypeOK
<1>2. muddled \subseteq muddled' /\ muddled' \subseteq Roles
  BY <1>1 DEF TypeOK
<1>3. r \notin muddled' /\ Saving(c, r) => replay[r] = Listed(r)
  BY <1>1 DEF Inv, Trail, Told, Saving, At
<1> QED
  BY <1>1, <1>2, <1>3, AnswerStep DEF TypeOK

THEOREM NextInv == Inv /\ [Next]_vars => Inv'
<1> SUFFICES ASSUME Inv, [Next]_vars PROVE Inv'
  OBVIOUS
<1>1. CASE Record \/ MigrationFails
  <2>1. UNCHANGED <<features, grant, granted, last, kept, replay, muddled, req, edits>>
        /\ failures' \in Nat
    BY <1>1 DEF Inv, TypeOK, Record, MigrationFails, trail
  <2>2. stage' \in {"features", "done"} /\ (stage' # "features" => stage # "features")
    BY <1>1 DEF Record, MigrationFails
  <2> QED
    BY <2>1, <2>2, StageStep
<1>2. CASE UNCHANGED vars
  <2>1. UNCHANGED <<features, grant, granted, last, kept, replay, muddled, req, edits>>
        /\ stage' = stage /\ failures' = failures
    BY <1>2 DEF vars, tables, trail
  <2> QED
    BY <2>1, StageStep DEF Inv, TypeOK
<1>3. CASE \E c \in Calls : EditStep(c)
  BY <1>3, BeginStep, BeforeStep, SaveStep, AfterStep, AuditStep, CrashStep DEF EditStep
<1> QED
  BY <1>1, <1>2, <1>3, SeedFeaturesStep, SeedGrantsStep DEF Next

THEOREM Invariant == Spec => []Inv
  BY InitInv, NextInv, PTL DEF Spec

-----------------------------------------------------------------------------

\* Every variable keeps its type, there is a row only of features that exist, and a
\* call under way has a role.
THEOREM TypeCorrect == Spec => []TypeOK
<1>1. Inv => TypeOK
  BY DEF Inv
<1> QED
  BY <1>1, Invariant, PTL

\* The three queries that decide what a role may do give one answer.
THEOREM OneAnswer == Spec => []DecidersAgree
<1>1. Inv => DecidersAgree
  <2> SUFFICES ASSUME Inv, NEW r \in Roles, NEW f \in features
               PROVE  /\ Has(r, f) <=> f \in Listed(r)
                      /\ granted => (Has(r, f) <=> f \in Matrix(r))
    BY DEF DecidersAgree
  <2>1. Has(r, f) <=> f \in Listed(r)
    BY DEF Has, Listed
  <2>2. granted => (grant[r][f] = "none" => f \notin Default[r])
    BY DEF Inv, Rows
  <2> QED
    BY <2>1, <2>2 DEF Has, Matrix
<1> QED
  BY <1>1, Invariant, PTL

\* A role has what was chosen for it last, as a whole.
THEOREM ChoiceIsWhole == Spec => []EnabledIsChosen
<1>1. Inv => EnabledIsChosen
  BY ListedIs DEF Inv, EnabledIsChosen
<1> QED
  BY <1>1, Invariant, PTL

\* Where edits did not overlap, the trail replayed is what the role has.
THEOREM TrailIsTrue == Spec => []TrailReplays
<1>1. Inv => TrailReplays
  BY DEF Inv, Trail, TrailReplays
<1> QED
  BY <1>1, Invariant, PTL
=============================================================================
