-------------------------- MODULE SwitchPortProofs --------------------------
(***************************************************************************)
(* Proofs about the switch port datastore, for every set of ports,         *)
(* settings ids, BGP configs and addresses.                                *)
(*                                                                         *)
(* ReservationsMatchSettings is inductive together with TypeOK.  The one   *)
(* fact the steps need is what an empty CreateErrors says: the peers name  *)
(* live BGP configs, and every requested address lies in a lot and is not  *)
(* reserved in the table the create runs against.  A create runs against   *)
(* the reservations as they are; an update runs against them with its own  *)
(* blocks released, which is why it can ask for its own addresses again.   *)
(***************************************************************************)
EXTENDS SwitchPort, FiniteSetTheorems, TLAPS

Inv == TypeOK /\ ReservationsMatchSettings

\* A create whose lookups and reservations all succeed.
LEMMA CreateOk ==
  ASSUME NEW bgp, NEW addrs, NEW r, CreateErrors(bgp, addrs, r) = {}
  PROVE  /\ bgp \subseteq LiveBgp
         /\ \A a \in addrs : r[a] = NoId
<1>1. bgp \ LiveBgp = {}
  BY DEF CreateErrors
<1>2. \A a \in addrs : ReserveError(a, r) = {}
  <2>1. UNION {ReserveError(a, r) : a \in addrs} = {}
    BY <1>1 DEF CreateErrors
  <2>. QED
    BY <2>1
<1>. QED
  BY <1>1, <1>2 DEF ReserveError

\* The reservation table a create runs against: well typed, nothing in it
\* held by the id being created, and otherwise matching the settings rows.
Fits(id, r) ==
  /\ r \in [Addrs -> SettingsIds \cup {NoId}]
  /\ \A a \in Addrs : r[a] # id
  /\ \A a \in Addrs, s \in SettingsIds \ {id} :
       r[a] = s <=> settings[s] # NoSettings /\ a \in settings[s].addrs

\* CreateBody keeps the invariant, whatever reservations it runs against,
\* as long as they fit: a failed create rolls back to the tables as they
\* were.
LEMMA CreateBodyStep ==
  ASSUME TypeOK, ReservationsMatchSettings,
         NEW id \in SettingsIds, NEW bgp, NEW addrs \in SUBSET Addrs,
         NEW r, Fits(id, r), CreateBody(id, bgp, addrs, r)
  PROVE  /\ settings' \in [SettingsIds -> Row \cup {NoSettings}]
         /\ rsvd' \in [Addrs -> SettingsIds \cup {NoId}]
         /\ ReservationsMatchSettings'
<1>1. CASE CreateErrors(bgp, addrs, r) = {}
  <2>1. bgp \subseteq LiveBgp /\ \A a \in addrs : r[a] = NoId
    BY <1>1, CreateOk
  <2>2. /\ settings' = [settings EXCEPT ![id] = [bgp |-> bgp, addrs |-> addrs]]
        /\ rsvd' = [a \in Addrs |-> IF a \in addrs THEN id ELSE r[a]]
    BY <1>1 DEF CreateBody
  <2>3. [bgp |-> bgp, addrs |-> addrs] \in Row
    BY <2>1 DEF Row
  <2>4. [bgp |-> bgp, addrs |-> addrs] # NoSettings
    BY <2>3, SwitchPortAssumption
  <2>5. ASSUME NEW a \in Addrs, NEW s \in SettingsIds
        PROVE  rsvd'[a] = s <=> settings'[s] # NoSettings /\ a \in settings'[s].addrs
    <3>1. CASE s = id
      BY <2>1, <2>2, <2>4, <3>1 DEF Fits, TypeOK
    <3>2. CASE s # id
      <4>1. s \in SettingsIds \ {id}
        BY <3>2
      <4>2. settings'[s] = settings[s]
        BY <2>2, <3>2 DEF TypeOK
      <4>3. rsvd'[a] = s <=> r[a] = s
        BY <2>1, <2>2, <3>2, SwitchPortAssumption
      <4>. QED
        BY <4>1, <4>2, <4>3 DEF Fits
    <3>. QED
      BY <3>1, <3>2
  <2>. QED
    BY <2>2, <2>3, <2>5 DEF TypeOK, Fits, ReservationsMatchSettings
<1>2. CASE CreateErrors(bgp, addrs, r) # {}
  <2>1. settings' = settings /\ rsvd' = rsvd
    BY <1>2 DEF CreateBody
  <2>. QED
    BY <2>1 DEF TypeOK, ReservationsMatchSettings
<1>. QED
  BY <1>1, <1>2

\* A settings id with no row holds no reservation, so a create runs against
\* a table that fits.
LEMMA CreateFits ==
  ASSUME TypeOK, ReservationsMatchSettings,
         NEW id \in SettingsIds, settings[id] = NoSettings
  PROVE  Fits(id, rsvd)
BY DEF TypeOK, ReservationsMatchSettings, Fits

\* Releasing the blocks of an existing settings object leaves a table that
\* fits it: its own reservations were exactly its address config.
LEMMA ReleaseFits ==
  ASSUME TypeOK, ReservationsMatchSettings,
         NEW id \in SettingsIds, settings[id] # NoSettings
  PROVE  Fits(id, Release(id, rsvd))
<1>1. settings[id] \in Row
  BY DEF TypeOK
<1>2. Release(id, rsvd) \in [Addrs -> SettingsIds \cup {NoId}]
  BY DEF TypeOK, Release
<1>3. \A a \in Addrs : Release(id, rsvd)[a] # id
  BY SwitchPortAssumption DEF ReservationsMatchSettings, Release
<1>4. ASSUME NEW a \in Addrs, NEW s \in SettingsIds \ {id}
      PROVE  Release(id, rsvd)[a] = s <=> settings[s] # NoSettings /\ a \in settings[s].addrs
  <2>1. CASE a \in settings[id].addrs
    <3>1. rsvd[a] = id
      BY <2>1 DEF ReservationsMatchSettings
    <3>2. Release(id, rsvd)[a] = NoId
      BY <2>1 DEF Release
    <3>. QED
      BY <3>1, <3>2, SwitchPortAssumption DEF ReservationsMatchSettings
  <2>2. CASE a \notin settings[id].addrs
    BY <2>2 DEF Release, ReservationsMatchSettings
  <2>. QED
    BY <2>1, <2>2
<1>. QED
  BY <1>2, <1>3, <1>4 DEF Fits

\* The initial tables: no settings, no ports, no reservations.
LEMMA InitInv == Init => Inv
BY SwitchPortAssumption DEF Init, Inv, TypeOK, ReservationsMatchSettings

\* A delete of an existing settings object keeps the invariant.
LEMMA DeleteStep ==
  ASSUME TypeOK, ReservationsMatchSettings,
         NEW id \in SettingsIds, settings[id] # NoSettings,
         settings' = [settings EXCEPT ![id] = NoSettings],
         rsvd' = Release(id, rsvd)
  PROVE  /\ settings' \in [SettingsIds -> Row \cup {NoSettings}]
         /\ rsvd' \in [Addrs -> SettingsIds \cup {NoId}]
         /\ ReservationsMatchSettings'
<1>1. Fits(id, Release(id, rsvd))
  BY ReleaseFits
<1>2. ASSUME NEW a \in Addrs, NEW s \in SettingsIds
      PROVE  rsvd'[a] = s <=> settings'[s] # NoSettings /\ a \in settings'[s].addrs
  <2>1. CASE s = id
    BY <1>1, <2>1 DEF Fits, TypeOK
  <2>2. CASE s # id
    BY <1>1, <2>2 DEF Fits, TypeOK
  <2>. QED
    BY <2>1, <2>2
<1>. QED
  BY <1>1, <1>2 DEF Fits, TypeOK, ReservationsMatchSettings

\* Every operation keeps the invariant.
LEMMA NextInv == Inv /\ [Next]_vars => Inv'
<1> SUFFICES ASSUME Inv, [Next]_vars PROVE Inv'
  OBVIOUS
<1> USE DEF Inv
<1>1. ASSUME NEW id \in SettingsIds, NEW bgp \in PeerChoices,
             NEW addrs \in AddrChoices, SettingsCreate(id, bgp, addrs)
      PROVE  Inv'
  <2>1. addrs \in SUBSET Addrs
    BY SwitchPortAssumption
  <2>2. CASE settings[id] # NoSettings
    BY <1>1, <2>2 DEF SettingsCreate, TypeOK, ReservationsMatchSettings
  <2>3. CASE settings[id] = NoSettings
    <3>1. Fits(id, rsvd) /\ CreateBody(id, bgp, addrs, rsvd) /\ ports' = ports
      BY <1>1, <2>3, CreateFits DEF SettingsCreate
    <3>. QED
      BY <2>1, <3>1, CreateBodyStep DEF TypeOK
  <2>. QED
    BY <2>2, <2>3
<1>2. ASSUME NEW id \in SettingsIds, NEW bgp \in PeerChoices,
             NEW addrs \in AddrChoices, SettingsUpdate(id, bgp, addrs)
      PROVE  Inv'
  <2>1. addrs \in SUBSET Addrs
    BY SwitchPortAssumption
  <2>2. CASE settings[id] = NoSettings
    BY <1>2, <2>2 DEF SettingsUpdate, TypeOK, ReservationsMatchSettings
  <2>3. CASE settings[id] # NoSettings
    <3>1. /\ Fits(id, Release(id, rsvd))
          /\ CreateBody(id, bgp, addrs, Release(id, rsvd)) /\ ports' = ports
      BY <1>2, <2>3, ReleaseFits DEF SettingsUpdate
    <3>. QED
      BY <2>1, <3>1, CreateBodyStep DEF TypeOK
  <2>. QED
    BY <2>2, <2>3
<1>3. ASSUME NEW id \in SettingsIds, SettingsDelete(id)
      PROVE  Inv'
  <2>1. CASE settings[id] = NoSettings
    BY <1>3, <2>1 DEF SettingsDelete, TypeOK, ReservationsMatchSettings
  <2>2. CASE settings[id] # NoSettings
    <3>1. /\ settings' = [settings EXCEPT ![id] = NoSettings]
          /\ rsvd' = Release(id, rsvd) /\ ports' = ports
      BY <1>3, <2>2 DEF SettingsDelete
    <3>. QED
      BY <2>2, <3>1, DeleteStep DEF TypeOK
  <2>. QED
    BY <2>1, <2>2
<1>4. ASSUME NEW p \in Ports, NEW rackOk \in BOOLEAN, PortCreate(p, rackOk)
      PROVE  Inv'
  BY <1>4 DEF PortCreate, TypeOK, ReservationsMatchSettings
<1>5. ASSUME NEW p \in Ports, PortDelete(p)
      PROVE  Inv'
  BY <1>5 DEF PortDelete, TypeOK, ReservationsMatchSettings
<1>6. ASSUME NEW p \in Ports, NEW psid \in SettingsIds \cup {NoId},
             NEW pre \in Preconditions, SetSettingsId(p, psid, pre)
      PROVE  Inv'
  BY <1>6 DEF SetSettingsId, TypeOK, ReservationsMatchSettings
<1>7. CASE UNCHANGED vars
  BY <1>7 DEF vars, TypeOK, ReservationsMatchSettings
<1>. QED
  BY <1>1, <1>2, <1>3, <1>4, <1>5, <1>6, <1>7 DEF Next

\* switch_port_settings_create, _update and _delete keep the address lot
\* reservations and the address configs in step, for every set of ports,
\* settings ids, BGP configs and addresses: a block is reserved exactly for
\* the one settings object whose address config names it, across failed
\* creates that roll back and updates that release before re-reserving.
THEOREM ReservationsCorrect == Spec => []ReservationsMatchSettings
<1>1. Inv => ReservationsMatchSettings
  BY DEF Inv
<1>. QED
  BY InitInv, NextInv, <1>1, PTL DEF Spec

\* Every table keeps its row type across all the datastore's operations:
\* a port's settings id names a settings id or is NULL, and every
\* reservation names a settings id or none.
THEOREM TypeCorrect == Spec => []TypeOK
<1>1. Inv => TypeOK
  BY DEF Inv
<1>. QED
  BY InitInv, NextInv, <1>1, PTL DEF Spec

-----------------------------------------------------------------------------
(***************************************************************************)
(* The asn check of switch_port_set_settings_id.  SingleAsn counts the     *)
(* asns of a switch; the step argument works with what that count says,    *)
(* that any two configs active on one switch share an asn.  The two agree  *)
(* because the configs are finitely many rows of bgp_config.               *)
(***************************************************************************)

\* A finite set of at most one element has no two different elements.
LEMMA AtMostOneElement ==
  ASSUME NEW S, IsFiniteSet(S), Cardinality(S) <= 1, NEW x \in S, NEW y \in S
  PROVE  x = y
<1>1. Cardinality(S) \in Nat
  BY FS_CardinalityType
<1>2. CASE Cardinality(S) = 0
  BY <1>2, FS_EmptySet
<1>3. CASE Cardinality(S) = 1
  BY <1>3, FS_Singleton
<1>. QED
  BY <1>1, <1>2, <1>3

\* A set with no two different elements has at most one, finite or not.
LEMMA OneElementAtMost ==
  ASSUME NEW S, \A x, y \in S : x = y
  PROVE  Cardinality(S) <= 1
<1>1. CASE S = {}
  BY <1>1, FS_EmptySet
<1>2. CASE S # {}
  <2>1. PICK x \in S : TRUE
    BY <1>2
  <2>2. S = {x}
    BY <2>1
  <2>. QED
    BY <2>2, FS_Singleton
<1>. QED
  BY <1>1, <1>2

\* The asns of any set of live BGP configs are finitely many.
LEMMA AsnImageFinite ==
  ASSUME NEW X \in SUBSET LiveBgp
  PROVE  IsFiniteSet({Asn[c] : c \in X})
<1>1. IsFiniteSet(X)
  BY SwitchPortAssumption, FS_Subset
<1>2. [c \in X |-> Asn[c]] \in Surjection(X, {Asn[c] : c \in X})
  BY DEF Surjection
<1>. QED
  BY <1>1, <1>2, FS_Surjection

\* The peers of a settings row name live BGP configs.
LEMMA ConfigsLive == TypeOK => \A s : Configs(s) \subseteq LiveBgp
  BY DEF TypeOK, Configs, Row

\* Any two configs active on ports of one switch share an asn.
SameSwitchOneAsn ==
  \A q1, q2 \in Ports : Switch[q1] = Switch[q2] =>
    \A x \in Configs(ports[q1]), y \in Configs(ports[q2]) : Asn[x] = Asn[y]

LEMMA SingleAsnPairwise == TypeOK /\ SingleAsn => SameSwitchOneAsn
<1> SUFFICES ASSUME TypeOK, SingleAsn, NEW q1 \in Ports, NEW q2 \in Ports,
                    Switch[q1] = Switch[q2],
                    NEW x \in Configs(ports[q1]), NEW y \in Configs(ports[q2])
             PROVE  Asn[x] = Asn[y]
  BY DEF SameSwitchOneAsn
<1>1. UNION {Configs(ports[q]) : q \in {q \in Ports : Switch[q] = Switch[q1]}}
        \subseteq LiveBgp
  BY ConfigsLive
<1>2. IsFiniteSet(SwitchAsns(Switch[q1]))
  BY <1>1, AsnImageFinite DEF SwitchAsns
<1>3. Cardinality(SwitchAsns(Switch[q1])) <= 1
  BY DEF SingleAsn
<1>4. Asn[x] \in SwitchAsns(Switch[q1]) /\ Asn[y] \in SwitchAsns(Switch[q1])
  BY DEF SwitchAsns
<1>. QED
  BY <1>2, <1>3, <1>4, AtMostOneElement

\* A step that keeps every settings row and rewrites at most port p keeps
\* the asns of each switch agreeing, when what p points at afterwards
\* agrees with what the other ports of its switch point at.
LEMMA OnePortStep ==
  ASSUME settings' = settings, SameSwitchOneAsn, NEW p \in Ports,
         \A q \in Ports \ {p} : ports'[q] = ports[q],
         \A x, y \in Configs(ports'[p]) : Asn[x] = Asn[y],
         \A x \in Configs(ports'[p]), q \in Ports \ {p} :
           Switch[q] = Switch[p] => \A y \in Configs(ports[q]) : Asn[x] = Asn[y]
  PROVE  SameSwitchOneAsn'
<1> SUFFICES ASSUME NEW q1 \in Ports, NEW q2 \in Ports, Switch[q1] = Switch[q2],
                    NEW x \in Configs(ports'[q1]), NEW y \in Configs(ports'[q2])
             PROVE  Asn[x] = Asn[y]
  BY DEF SameSwitchOneAsn, Configs
<1>1. CASE q1 = p /\ q2 = p
  BY <1>1
<1>2. CASE q1 = p /\ q2 # p
  BY <1>2
<1>3. CASE q1 # p /\ q2 = p
  BY <1>3
<1>4. CASE q1 # p /\ q2 # p
  BY <1>4 DEF SameSwitchOneAsn
<1>. QED
  BY <1>1, <1>2, <1>3, <1>4

\* A port the asn check lets through agrees with its switch: the first
\* config of the new settings is a config, so the check ran, found no port
\* of the switch with a config of another asn, and every config of the new
\* settings has the asn of that first one.
LEMMA CheckedPortAgrees ==
  ASSUME TypeOK, SameSwitchOneAsn, NEW p \in Ports, NEW psid, NEW pre,
         NEW c \in FirstConfigs(psid), ~(c # NoId /\ ConflictingConfigs(p, c) # {}),
         ports' = [ports EXCEPT ![p] = IF PreconditionHolds(pre, @) THEN psid ELSE @],
         \A x, y \in Configs(ports'[p]) : Asn[x] = Asn[y]
  PROVE  \A x \in Configs(ports'[p]), q \in Ports \ {p} :
           Switch[q] = Switch[p] => \A y \in Configs(ports[q]) : Asn[x] = Asn[y]
<1> SUFFICES ASSUME NEW x \in Configs(ports'[p]), NEW q \in Ports \ {p},
                    Switch[q] = Switch[p], NEW y \in Configs(ports[q])
             PROVE  Asn[x] = Asn[y]
  OBVIOUS
<1>1. ports'[p] = ports[p] \/ ports'[p] = psid
  BY DEF TypeOK
<1>2. CASE ports'[p] = ports[p]
  BY <1>2 DEF SameSwitchOneAsn
<1>3. CASE ports'[p] = psid
  <2>1. c \in Configs(psid)
    BY <1>3 DEF FirstConfigs
  <2>2. c # NoId
    BY <2>1, ConfigsLive, SwitchPortAssumption DEF LiveBgp
  <2>3. ports[q] \in SettingsIds
    BY DEF Configs
  <2>4. q \notin ConflictingConfigs(p, c)
    BY <2>2
  <2>5. Asn[y] = Asn[c]
    BY <2>3, <2>4 DEF ConflictingConfigs
  <2>. QED
    BY <1>3, <2>1, <2>5
<1>. QED
  BY <1>1, <1>2, <1>3

LEMMA AsnStep ==
  ASSUME TypeOK, [Next]_vars, settings' = settings, SingleAsn,
         \A p \in Ports : Cardinality({Asn[c] : c \in Configs(ports'[p])}) <= 1
  PROVE  SingleAsn'
<1>1. SameSwitchOneAsn
  BY SingleAsnPairwise
<1>2. \A p \in Ports : \A x, y \in Configs(ports'[p]) : Asn[x] = Asn[y]
  <2> SUFFICES ASSUME NEW p \in Ports, NEW x \in Configs(ports'[p]),
                      NEW y \in Configs(ports'[p])
               PROVE  Asn[x] = Asn[y]
    OBVIOUS
  <2>1. IsFiniteSet({Asn[c] : c \in Configs(ports'[p])})
    BY ConfigsLive, AsnImageFinite
  <2>2. Asn[x] \in {Asn[c] : c \in Configs(ports'[p])}
        /\ Asn[y] \in {Asn[c] : c \in Configs(ports'[p])}
    OBVIOUS
  <2>. QED
    BY <2>1, <2>2, AtMostOneElement
<1>3. SameSwitchOneAsn'
  <2>1. CASE ports' = ports
    BY <2>1, <1>1 DEF SameSwitchOneAsn, Configs
  <2>2. ASSUME NEW p \in Ports, NEW rackOk \in BOOLEAN, PortCreate(p, rackOk)
        PROVE  SameSwitchOneAsn'
    <3>1. CASE ports' = [ports EXCEPT ![p] = NoId]
      <4>1. Configs(ports'[p]) = {}
        BY <3>1, SwitchPortAssumption DEF TypeOK, Configs
      <4>. QED
        BY <1>1, <4>1, <3>1, OnePortStep DEF TypeOK
    <3>. QED
      BY <2>1, <2>2, <3>1 DEF PortCreate
  <2>3. ASSUME NEW p \in Ports, PortDelete(p)
        PROVE  SameSwitchOneAsn'
    <3>1. CASE ports' = [ports EXCEPT ![p] = NoPort]
      <4>1. Configs(ports'[p]) = {}
        BY <3>1, SwitchPortAssumption DEF TypeOK, Configs
      <4>. QED
        BY <1>1, <4>1, <3>1, OnePortStep DEF TypeOK
    <3>. QED
      BY <2>1, <2>3, <3>1 DEF PortDelete
  <2>4. ASSUME NEW p \in Ports, NEW psid \in SettingsIds \cup {NoId},
               NEW pre \in Preconditions, SetSettingsId(p, psid, pre)
        PROVE  SameSwitchOneAsn'
    <3>1. CASE ports' # ports
      <4>1. PICK c \in FirstConfigs(psid) :
              /\ ~(c # NoId /\ ConflictingConfigs(p, c) # {})
              /\ ports' = [ports EXCEPT ![p] =
                             IF PreconditionHolds(pre, @) THEN psid ELSE @]
        BY <2>4, <3>1 DEF SetSettingsId
      <4>2. \A q \in Ports \ {p} : ports'[q] = ports[q]
        BY <4>1 DEF TypeOK
      <4>. QED
        BY <1>1, <1>2, <4>1, <4>2, CheckedPortAgrees, OnePortStep
    <3>. QED
      BY <2>1, <3>1
  <2>5. QED
    BY <2>1, <2>2, <2>3, <2>4
       DEF Next, vars, SettingsCreate, SettingsUpdate, SettingsDelete
<1>. SUFFICES ASSUME NEW p \in Ports
              PROVE  Cardinality(SwitchAsns(Switch[p])') <= 1
  BY DEF SingleAsn
<1>4. \A a, b \in SwitchAsns(Switch[p])' : a = b
  BY <1>3 DEF SwitchAsns, SameSwitchOneAsn
<1>. QED
  BY <1>4, OneElementAtMost

\* The asn check of switch_port_set_settings_id is sound, for every rack:
\* as long as no settings row changes, a step that lets only single-asn
\* settings be active on ports never makes a switch run two asns, although
\* the check compares one config of the new settings, the first the query
\* returns, and port creates and deletes run without it.
THEOREM AsnCheckSound == Spec => SingleAsnActivation
<1>1. TypeOK /\ [Next]_vars =>
        [ /\ settings' = settings /\ SingleAsn
          /\ \A p \in Ports : Cardinality({Asn[c] : c \in Configs(ports'[p])}) <= 1
          => SingleAsn' ]_vars
  BY AsnStep
<1>. QED
  BY TypeCorrect, <1>1, PTL DEF Spec, SingleAsnActivation

=============================================================================
