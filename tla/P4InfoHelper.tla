---------------------------- MODULE P4InfoHelper ----------------------------
(***************************************************************************)
(* How a rule becomes a P4Runtime message: p4runtime_lib looks its names   *)
(* up in the P4Info of the switch, which p4c derives from the switch's own *)
(* program, and packs its values into as many bytes as the field has.      *)
(* Either raises, before anything is sent, when a name is unknown or a     *)
(* value does not fit.                                                     *)
(*                                                                         *)
(* A value is [form, of]: of is what it stands for, form how it is written *)
(* in Python, which is what encode goes by.                                *)
(***************************************************************************)
EXTENDS SetupRules

MacAddr(a) == [form |-> "mac", of |-> a]
IpAddr(a) == [form |-> "ip", of |-> a]
Number(n) == [form |-> "int", of |-> n]

(* Mutant: a width that is no multiple of 8 loses its last byte.           *)
BytesRoundedDown(width) == width \div 8

BitwidthToBytes(width) == (width + 7) \div 8

(* encode returns: a number fits its field, in two's complement if it is   *)
(* negative, and an address has as many bytes as the field.                *)
Encodes(x, width) ==
  CASE x.form = "mac" -> BitwidthToBytes(width) = 6
    [] x.form = "ip" -> BitwidthToBytes(width) = 4
    [] x.form = "int" ->
         /\ -(2 ^ (width - 1)) <= x.of /\ x.of < 2 ^ width
         /\ x.of % 2 ^ width < 256 ^ BitwidthToBytes(width)

(* The bytes: how many, and what they stand for.                           *)
Encode(x, width) ==
  <<BitwidthToBytes(width), IF x.form = "int" THEN x.of % 2 ^ width ELSE x.of>>

-----------------------------------------------------------------------------
(* What p4c writes into the P4Info files of the four programs.             *)

Field(name, type, width) == [name |-> name, type |-> type, width |-> width]
Param(name, width) == [name |-> name, width |-> width]
Entity(name, parts) == [name |-> "MyIngress." \o name, alias |-> name, parts |-> parts]

EdgeTables ==
  {Entity("sMacLookup", {Field("hdr.eth.srcAddr", "exact", 48)}),
   Entity("dMacLookup", {Field("hdr.eth.dstAddr", "exact", 48)}),
   Entity("switchIdTable", {Field("meta.constant", "exact", 8)})}
EdgeActions ==
  {Entity("forward", {Param("egress_port", 9)}),
   Entity("set_switch_id", {Param("id", 8)})}

MarkingTable ==
  Entity("intMarkingTable", {Field("hdr.ipv4.srcAddr", "ternary", 32),
                             Field("hdr.ipv4.dstAddr", "ternary", 32)})

RouterTables ==
  {Entity("ipv4Lpm", {Field("hdr.ipv4.dstAddr", "lpm", 32)}),
   Entity("internalMacLookup", {Field("std_meta.egress_spec", "exact", 9)}),
   Entity("switchIdTable", {Field("meta.constant", "exact", 8)})}
RouterActions ==
  {Entity("forward", {Param("egressPort", 9), Param("nextHopMac", 48)}),
   Entity("rewriteMacs", {Param("srcMac", 48)}),
   Entity("set_switch_id", {Param("id", 8)})}

P4Info(sw) ==
  CASE sw = "s1" -> [tables |-> EdgeTables \cup {MarkingTable},
                     actions |-> EdgeActions \cup {Entity("mark_int", {})}]
    [] sw = "s4" -> [tables |-> EdgeTables, actions |-> EdgeActions]
    [] sw \in Router -> [tables |-> RouterTables, actions |-> RouterActions]

(* get takes a name or an alias, the lookup of a part the full name only;  *)
(* an empty result is an AttributeError.                                   *)
Get(entities, name) == {o \in entities : o.name = name \/ o.alias = name}
GetPart(entities, name, part) ==
  UNION {{p \in o.parts : p.name = part} : o \in {e \in entities : e.name = name}}

-----------------------------------------------------------------------------
(* The arguments of install_table_entry for each kind of rule.             *)

Rule(table, match, action, params, priority) ==
  [table |-> "MyIngress." \o table, match |-> match,
   action |-> "MyIngress." \o action, params |-> params, priority |-> priority]
On(field, value) == [name |-> field, value |-> value]

RuleOf(w) ==
  CASE w.op = "dMac" ->
         Rule("dMacLookup", {On("hdr.eth.dstAddr", <<MacAddr(w.mac)>>)},
              "forward", {On("egress_port", Number(w.port))}, 0)
    [] w.op = "lpm" ->
         Rule("ipv4Lpm",
              {On("hdr.ipv4.dstAddr",
                  <<IpAddr(w.dst), IF w.dst = "subnet1" THEN 24 ELSE 32>>)},
              "forward",
              {On("egressPort", Number(w.port)), On("nextHopMac", MacAddr(w.mac))}, 0)
    [] w.op = "rewrite" ->
         Rule("internalMacLookup", {On("std_meta.egress_spec", <<Number(w.port)>>)},
              "rewriteMacs", {On("srcMac", MacAddr(w.mac))}, 0)
    [] w.op = "switchId" ->
         Rule("switchIdTable", {On("meta.constant", <<Number(1)>>)},
              "set_switch_id", {On("id", Number(w.id))}, 0)
    [] w.op = "marking" ->
         Rule("intMarkingTable",
              {On("hdr.ipv4.srcAddr", <<IpAddr("10.0.1.0"), IpAddr("255.255.255.0")>>),
               On("hdr.ipv4.dstAddr", <<IpAddr("10.0.2.0"), IpAddr("255.255.255.0")>>)},
              "mark_int", {}, 100)

(* get_match_field_pb: an exact value, a value with a prefix length, or a  *)
(* value with a mask.                                                      *)
FieldBuilds(f, value) ==
  /\ Encodes(value[1], f.width)
  /\ f.type = "ternary" => Encodes(value[2], f.width)

FieldMatch(f, value) ==
  [field |-> f.name, value |-> Encode(value[1], f.width),
   rest |-> CASE f.type = "exact" -> <<>>
              [] f.type = "lpm" -> <<value[2]>>
              [] f.type = "ternary" -> <<Encode(value[2], f.width)>>]

(* buildTableEntry returns, and what it returns.                           *)
RuleBuilds(sw, r) ==
  /\ Get(P4Info(sw).tables, r.table) # {}
  /\ \A m \in r.match :
       \E f \in GetPart(P4Info(sw).tables, r.table, m.name) : FieldBuilds(f, m.value)
  /\ Get(P4Info(sw).actions, r.action) # {}
  /\ \A a \in r.params :
       \E p \in GetPart(P4Info(sw).actions, r.action, a.name) : Encodes(a.value, p.width)

BuildTableEntry(sw, r) ==
  [key |-> [table |-> r.table, priority |-> r.priority,
            match |-> UNION {{FieldMatch(f, m.value) :
                               f \in GetPart(P4Info(sw).tables, r.table, m.name)} :
                             m \in r.match}],
   action |-> [name |-> r.action,
               params |-> UNION {{[name |-> p.name, value |-> Encode(a.value, p.width)] :
                                   p \in GetPart(P4Info(sw).actions, r.action, a.name)} :
                                 a \in r.params}]]

(* buildMulticastGroupEntry and buildCloneSessionEntry look nothing up.    *)
BuildPreEntry(w) ==
  IF w.op = "mcast" THEN [key |-> <<"group", 1>>, replicas |-> w.ports]
  ELSE [key |-> <<"session", w.session>>,
        replicas |-> {IF w.session = 100 THEN 510 ELSE 6}]

=============================================================================
