----------------------------- MODULE SwitchPort -----------------------------
(***************************************************************************)
(* The switch port datastore (nexus/db-queries/src/db/datastore/           *)
(* switch_port.rs): switch ports, the port settings they may point at, the *)
(* BGP configs a settings object's peers use, and the address lot blocks   *)
(* its addresses reserve.                                                  *)
(*                                                                         *)
(* Every operation runs inside transaction_retry_wrapper, a serializable   *)
(* transaction that is retried on a serialization failure, so each         *)
(* operation is one atomic step that commits all its writes or none.  A    *)
(* settings object is abstracted to the BGP configs its peers reference    *)
(* and the addresses it reserves; names, links, interfaces and routes are  *)
(* rows that no check of this code reads.  There is one rack, and a port's *)
(* switch_location is Switch[p].                                           *)
(***************************************************************************)
EXTENDS Naturals, FiniteSets

CONSTANTS
  Ports,        \* switch ports (rack, switch_location, port_name)
  Switch,       \* Switch[p]: the switch_location of port p
  SettingsIds,  \* ids a port settings object may get
  BgpRefs,      \* BGP configs a peer may name, live or not
  Asn,          \* Asn[c]: the asn of each live BGP config c
  Addrs,        \* addresses a settings object may request
  LotAddrs,     \* the addresses that lie in some address lot
  PeerChoices,  \* the sets of BGP configs a create or update may name
  AddrChoices,  \* the sets of addresses a create or update may request
  NoId,         \* port_settings_id is NULL / an address is not reserved
  NoSettings,   \* no switch_port_settings row with this id
  NoPort        \* no switch_port row

LiveBgp == DOMAIN Asn

Row == [bgp : SUBSET LiveBgp, addrs : SUBSET Addrs]

ASSUME SwitchPortAssumption ==
  /\ LiveBgp \subseteq BgpRefs /\ LotAddrs \subseteq Addrs
  /\ DOMAIN Switch = Ports
  /\ PeerChoices \subseteq SUBSET BgpRefs /\ AddrChoices \subseteq SUBSET Addrs
  /\ NoId \notin SettingsIds /\ NoPort \notin SettingsIds \cup {NoId}
  /\ NoSettings \notin Row
  \* bgp_config is a table of finitely many rows, and the first config the
  \* asn check looks up is an Option<BgpConfig>: None is not a config.
  /\ IsFiniteSet(BgpRefs) /\ NoId \notin BgpRefs

VARIABLES
  settings,  \* settings[s]: the row of port settings s, or NoSettings
  ports,     \* ports[p]: NoPort, or the port's port_settings_id (NoId: NULL)
  rsvd,      \* rsvd[a]: the settings whose address config reserved a's block
  resp       \* the result of the last call

vars == <<settings, ports, rsvd, resp>>

Init ==
  /\ settings = [s \in SettingsIds |-> NoSettings]
  /\ ports = [p \in Ports |-> NoPort]
  /\ rsvd = [a \in Addrs |-> NoId]
  /\ resp = "none"

(***************************************************************************)
(* do_switch_port_settings_create, after the settings row is inserted: the *)
(* peers' BGP configs are looked up first, then every address reserves a   *)
(* block of its lot.  The first failure, in HashMap order, aborts the      *)
(* transaction.  try_reserve_block (address_lot.rs, not in this source)    *)
(* fails with AddressNotInLot outside every lot and with                   *)
(* AddressUnavailable on a block already reserved.                         *)
(***************************************************************************)
ReserveError(a, r) ==
  IF a \notin LotAddrs THEN {"AddressNotInLot"}
  ELSE IF r[a] # NoId THEN {"AddressUnavailable"} ELSE {}

CreateErrorsNoBgpLookup(bgp, addrs, r) == UNION {ReserveError(a, r) : a \in addrs}

CreateErrors(bgp, addrs, r) ==
  IF bgp \ LiveBgp # {} THEN {"BgpConfigNotFound"}
  ELSE UNION {ReserveError(a, r) : a \in addrs}

CreateBody(id, bgp, addrs, r) ==
  IF CreateErrors(bgp, addrs, r) = {}
    THEN /\ settings' = [settings EXCEPT ![id] = [bgp |-> bgp, addrs |-> addrs]]
         /\ rsvd' = [a \in Addrs |-> IF a \in addrs THEN id ELSE r[a]]
         /\ resp' = "Ok"
    ELSE /\ \E e \in CreateErrors(bgp, addrs, r) : resp' = e
         /\ UNCHANGED <<settings, rsvd>>

\* switch_port_settings_create: a settings row with this id already exists
\* violates the primary key, a Conflict.
SettingsCreate(id, bgp, addrs) ==
  /\ IF settings[id] # NoSettings
       THEN resp' = "Conflict" /\ UNCHANGED <<settings, rsvd>>
       ELSE CreateBody(id, bgp, addrs, rsvd)
  /\ UNCHANGED ports

(***************************************************************************)
(* do_switch_port_settings_delete: look the settings up, delete its rows   *)
(* and the reserved blocks its address configs name.  Ports that point at  *)
(* it are not looked at.                                                   *)
(***************************************************************************)
ReleaseNothing(id, r) == r

Release(id, r) ==
  [a \in Addrs |-> IF a \in settings[id].addrs THEN NoId ELSE r[a]]

SettingsDelete(id) ==
  /\ IF settings[id] = NoSettings
       THEN resp' = "NotFound" /\ UNCHANGED <<settings, rsvd>>
       ELSE /\ settings' = [settings EXCEPT ![id] = NoSettings]
            /\ rsvd' = Release(id, rsvd)
            /\ resp' = "Ok"
  /\ UNCHANGED ports

\* switch_port_settings_update: delete, then create with the same id, in one
\* transaction; a failure of the create rolls the delete back.
SettingsUpdate(id, bgp, addrs) ==
  /\ IF settings[id] = NoSettings
       THEN resp' = "NotFound" /\ UNCHANGED <<settings, rsvd>>
       ELSE CreateBody(id, bgp, addrs, Release(id, rsvd))
  /\ UNCHANGED ports

\* switch_port_create: the rack must exist; a second row for the same port
\* violates the unique index.
PortCreate(p, rackOk) ==
  /\ CASE ~rackOk            -> resp' = "RackNotFound" /\ UNCHANGED ports
       [] ports[p] # NoPort -> resp' = "Conflict" /\ UNCHANGED ports
       [] OTHER             -> ports' = [ports EXCEPT ![p] = NoId] /\ resp' = "Ok"
  /\ UNCHANGED <<settings, rsvd>>

\* switch_port_delete: refused while the port has settings.
PortDelete(p) ==
  /\ CASE ports[p] = NoPort -> resp' = "NotFound" /\ UNCHANGED ports
       [] ports[p] # NoId   -> resp' = "ActiveSettings" /\ UNCHANGED ports
       [] OTHER             -> ports' = [ports EXCEPT ![p] = NoPort] /\ resp' = "Ok"
  /\ UNCHANGED <<settings, rsvd>>

(***************************************************************************)
(* switch_port_set_settings_id.  When settings are given, the first BGP    *)
(* config of their peers (LIMIT 1, in no particular order) is compared     *)
(* with the BGP configs of every port of the same switch that has          *)
(* settings; one with another asn is a Conflict.  The update then applies  *)
(* only if the precondition on the current value holds, and succeeds       *)
(* either way.                                                             *)
(***************************************************************************)
Configs(s) == IF s \in SettingsIds /\ settings[s] # NoSettings
                THEN settings[s].bgp ELSE {}

FirstConfigs(psid) == IF Configs(psid) = {} THEN {NoId} ELSE Configs(psid)

ConflictingSameAsn(p, c) ==
  {q \in Ports : /\ Switch[q] = Switch[p] /\ ports[q] \in SettingsIds
                 /\ \E c2 \in Configs(ports[q]) : Asn[c2] = Asn[c]}
ConflictingConfigs(p, c) ==
  {q \in Ports : /\ Switch[q] = Switch[p] /\ ports[q] \in SettingsIds
                 /\ \E c2 \in Configs(ports[q]) : Asn[c2] # Asn[c]}

Preconditions == {"DontCare", "Null"} \cup SettingsIds

PreconditionHolds(pre, cur) ==
  \/ pre = "DontCare"
  \/ pre = "Null" /\ cur = NoId
  \/ pre = cur

SetSettingsId(p, psid, pre) ==
  /\ \/ ports[p] = NoPort /\ resp' = "NotFound" /\ UNCHANGED ports
     \/ /\ ports[p] # NoPort
        /\ \E c \in FirstConfigs(psid) :
             IF c # NoId /\ ConflictingConfigs(p, c) # {}
               THEN resp' = "Conflict" /\ UNCHANGED ports
               ELSE /\ ports' = [ports EXCEPT ![p] =
                                   IF PreconditionHolds(pre, @) THEN psid ELSE @]
                    /\ resp' = "Ok"
  /\ UNCHANGED <<settings, rsvd>>

Next ==
  \/ \E id \in SettingsIds, bgp \in PeerChoices, addrs \in AddrChoices :
       SettingsCreate(id, bgp, addrs) \/ SettingsUpdate(id, bgp, addrs)
  \/ \E id \in SettingsIds : SettingsDelete(id)
  \/ \E p \in Ports, rackOk \in BOOLEAN : PortCreate(p, rackOk)
  \/ \E p \in Ports : PortDelete(p)
  \/ \E p \in Ports, psid \in SettingsIds \cup {NoId}, pre \in Preconditions :
       SetSettingsId(p, psid, pre)

Spec == Init /\ [][Next]_vars

-----------------------------------------------------------------------------
(* Properties *)

TypeOK ==
  /\ settings \in [SettingsIds -> Row \cup {NoSettings}]
  /\ ports \in [Ports -> SettingsIds \cup {NoId, NoPort}]
  /\ rsvd \in [Addrs -> SettingsIds \cup {NoId}]

\* The ASNs the BGP peers of the active settings of a switch's ports use.
SwitchAsns(sw) ==
  {Asn[c] : c \in UNION {Configs(ports[q]) : q \in {q \in Ports : Switch[q] = sw}}}

SingleAsn == \A p \in Ports : Cardinality(SwitchAsns(Switch[p])) <= 1

\* Reserved address blocks and address configs agree across creates,
\* deletes and updates: a block is reserved exactly for the one settings
\* object whose address config names it, and a deleted or rewritten
\* settings object leaves no reservation behind.
ReservationsMatchSettings ==
  \A a \in Addrs, s \in SettingsIds :
    rsvd[a] = s <=> settings[s] # NoSettings /\ a \in settings[s].addrs

\* The asn check of switch_port_set_settings_id is sound for settings whose
\* peers use one asn: a step that changes no settings row, from a state in
\* which every switch runs one asn, never lets a switch run two, as long as
\* the settings active afterwards each use a single asn.
SingleAsnActivation ==
  [][ /\ settings' = settings /\ SingleAsn
      /\ \A p \in Ports : Cardinality({Asn[c] : c \in Configs(ports'[p])}) <= 1
      => SingleAsn' ]_vars

\* The comment in switch_port_set_settings_id: multiple ASNs on one switch
\* are refused until multi-asn-per-switch is supported.
OneAsnPerSwitch == SingleAsn

=============================================================================
