----------------------------- MODULE AclFilter -----------------------------
(***************************************************************************)
(* Access rules and the packet filter compiled from them:                  *)
(* internal/store/acl.go, internal/coord/aclcompile.go, internal/filter.   *)
(*                                                                         *)
(* An admin writes rules about device ids; CompileFilterForNode renders    *)
(* them into source addresses for one receiving device, and the daemon     *)
(* applies the result to the packets that come out of its tunnel.  The     *)
(* saved list is chosen once (SetACL replaces it as a whole); devices come *)
(* and go.  Ids are never given out again.                                 *)
(***************************************************************************)
EXTENDS Integers, Sequences, FiniteSets

CONSTANTS
    Ids,       \* device ids
    Ports,     \* port numbers packets carry; 0 is a packet without one
    Specs,     \* port specs a rule may list: inclusive ranges <<first, last>>
    MaxRules   \* bound on the length of a rule list

ASSUME FilterAssumption ==
    /\ 0 \notin Ids    \* Outside is the address of no device
    /\ 0 \in Ports /\ Ports \subseteq Nat
    /\ Specs \subseteq Nat \X Nat
    /\ MaxRules \in Nat

VARIABLES
    nodes,   \* the devices that exist
    rules    \* acl_rules in position order

aclVars == <<nodes, rules>>

-----------------------------------------------------------------------------
(* Rules.                                                                  *)

ParsePortSpec(spec) == spec[1] # 0 /\ spec[1] <= spec[2]

\* What handleSetACL and SetACL let through.
SetACL(r) ==
    /\ \A spec \in r.ports : ParsePortSpec(spec)
    /\ r.ports # {} => r.protocol \in {"tcp", "udp"}
    /\ r.action \in {"allow", "deny"}
    /\ r.protocol \in {"", "tcp", "udp", "icmp"}

RawRules == [action : {"allow", "deny"}, src : SUBSET Ids, dst : SUBSET Ids,
             protocol : {"", "tcp", "udp", "icmp"}, ports : SUBSET Specs]
ACLRule == {r \in RawRules : SetACL(r)}

-----------------------------------------------------------------------------
(* CompileFilterForNode.  A device has one IPv4 and one IPv6 address.      *)

addrsOf(id) == {<<4, id>>, <<6, id>>}
\* An address of no device: a host behind an approved subnet route.
Outside == <<4, 0>>

idListMatches(ids, id) == ids = {} \/ id \in ids

srcCIDRs(r, nds) == UNION {addrsOf(id) : id \in r.src \cap nds}

\* A slip: a rule whose sources are all gone is kept, without sources.
compiles_GoneSources(r, nds, dst) == idListMatches(r.dst, dst)

\* Whether the rule yields a filter rule at dst.
compiles(r, nds, dst) ==
    /\ idListMatches(r.dst, dst)
    /\ r.src # {} => srcCIDRs(r, nds) # {}

\* The filter's rules keep the order of the rules they come from; here they keep
\* their positions too, so that the list has gaps where a rule was dropped.
CompileFilterForNode(rs, nds, dst) ==
    [enabled |-> rs # <<>>,
     rules |-> [i \in {j \in DOMAIN rs : compiles(rs[j], nds, dst)} |->
         [allow |-> rs[i].action = "allow", srcs |-> srcCIDRs(rs[i], nds),
          protocol |-> rs[i].protocol, ports |-> rs[i].ports]]]

-----------------------------------------------------------------------------
(* filter.Filter.                                                          *)

Protos == {"tcp", "udp", "icmp4", "icmp6", "other"}

matchesSrc(fr, src) == fr.srcs = {} \/ src \in fr.srcs

\* A slip: IPv6 echo requests do not count as icmp.
matchesProto_NoICMP6(fr, proto) ==
    \/ fr.protocol = ""
    \/ fr.protocol = proto
    \/ fr.protocol = "icmp" /\ proto = "icmp4"

matchesProto(fr, proto) ==
    \/ fr.protocol = ""
    \/ fr.protocol = proto
    \/ fr.protocol = "icmp" /\ proto \in {"icmp4", "icmp6"}

matchesPort(fr, proto, port) ==
    \/ fr.ports = {}
    \/ /\ proto \in {"tcp", "udp"}
       /\ \E spec \in fr.ports : spec[1] <= port /\ port <= spec[2]

matches(fr, src, proto, port) ==
    matchesProto(fr, proto) /\ matchesSrc(fr, src) /\ matchesPort(fr, proto, port)

\* A slip: any allowing rule that matches lets the packet in.
allows_AnyMatch(f, src, proto, port) ==
    \E i \in DOMAIN f.rules : matches(f.rules[i], src, proto, port) /\ f.rules[i].allow

\* The first rule that matches decides; no match means deny.
allows(f, src, proto, port) ==
    \E i \in DOMAIN f.rules :
        /\ matches(f.rules[i], src, proto, port)
        /\ f.rules[i].allow
        /\ \A j \in DOMAIN f.rules : j < i => ~ matches(f.rules[j], src, proto, port)

\* The dry-run tester.
Check(f, src, name, port) ==
    LET proto == IF name # "icmp" THEN name ELSE IF src[1] = 6 THEN "icmp6" ELSE "icmp4" IN
    ~ f.enabled \/ allows(f, src, proto, port)

\* A packet: cut is where it ends too early; later says it is a fragment
\* other than the first, which carries no ports.
Packets(srcs, cuts, later) ==
    [src : srcs, proto : Protos, port : Ports, cut : cuts, later : later]
AddrsOf(ids) == {Outside} \cup UNION {addrsOf(id) : id \in ids}

hasPorts(pkt) == pkt.proto \in {"tcp", "udp"}

parses(pkt) == pkt.cut # "l3" /\ (hasPorts(pkt) => pkt.cut # "l4")
dstPort(pkt) == IF hasPorts(pkt) /\ ~ (pkt.later /\ pkt.src[1] = 4) THEN pkt.port ELSE 0

AllowsPacket(f, pkt) ==
    ~ f.enabled \/ (parses(pkt) /\ allows(f, pkt.src, pkt.proto, dstPort(pkt)))

-----------------------------------------------------------------------------
ACLInit ==
    /\ nodes = Ids
    /\ rules \in UNION {[1 .. n -> ACLRule] : n \in 0 .. MaxRules}

DeleteNode(id) ==
    /\ id \in nodes
    /\ nodes' = nodes \ {id}
    /\ UNCHANGED rules

ACLNext == \E id \in Ids : DeleteNode(id)

ACLSpec == ACLInit /\ [][ACLNext]_aclVars

-----------------------------------------------------------------------------
(* What the rules mean, in terms of devices: the reference.                *)

Verdict(dst, id, proto, port) ==
    LET applies(r) ==
            /\ idListMatches(r.dst, dst)
            /\ idListMatches(r.src, id)
            /\ r.protocol \in {"", proto} \/ (r.protocol = "icmp" /\ proto \in {"icmp4", "icmp6"})
            /\ r.ports # {} => \E spec \in r.ports : port \in spec[1] .. spec[2]
        hits == {i \in DOMAIN rules : applies(rules[i])}
    IN  rules = <<>> \/ \E i \in hits : rules[i].action = "allow" /\ \A j \in hits : i <= j

(* ACLRule, "rules are evaluated top-down on the receiving node, first     *)
(* match wins; with zero rules everything is allowed; with rules present,  *)
(* no match means deny": compiling rules about devices into source         *)
(* addresses, dropping the rules that cannot match, gives the receiving    *)
(* device exactly that verdict on every packet of a device, and a packet   *)
(* too short for its headers gets in only when there are no rules.         *)
FilterMeansRules ==
    \A dst \in nodes :
      LET f == CompileFilterForNode(rules, nodes, dst) IN
      \A id \in nodes : \A pkt \in Packets(addrsOf(id), {"whole", "l4", "l3"}, {FALSE}) :
        AllowsPacket(f, pkt) =
          CASE pkt.cut = "l3" \/ (pkt.cut = "l4" /\ hasPorts(pkt)) -> rules = <<>>
            [] OTHER -> Verdict(dst, id, pkt.proto, dstPort(pkt))

(* CompileFilterForNode is "used for netmap delivery and by the admin      *)
(* API's dry-run tester, so both always agree": the tester, which asks     *)
(* about the IPv4 address, predicts the packets of both addresses.         *)
DryRunAgrees ==
    \A dst \in nodes :
      LET f == CompileFilterForNode(rules, nodes, dst) IN
      \A id \in nodes, name \in {"tcp", "udp", "icmp"}, port \in Ports, v \in {4, 6} :
        LET proto == IF name # "icmp" THEN name ELSE IF v = 6 THEN "icmp6" ELSE "icmp4"
            pkt == [src |-> <<v, id>>, proto |-> proto, cut |-> "whole", later |-> FALSE,
                    port |-> IF name = "icmp" THEN 0 ELSE port]
        IN  AllowsPacket(f, pkt) = Check(f, <<4, id>>, name, port)

(* Deleting a device changes no verdict between the devices that stay:     *)
(* recompiling without it neither widens a rule nor drops one that still   *)
(* matches somebody.                                                       *)
DeletionIsLocal ==
    [][\A dst \in nodes' :
        LET before == CompileFilterForNode(rules, nodes, dst)
            after == CompileFilterForNode(rules, nodes', dst) IN
        \A pkt \in Packets(AddrsOf(nodes'), {"whole"}, {FALSE}) :
          AllowsPacket(before, pkt) = AllowsPacket(after, pkt)]_aclVars

(* parse, on fragments past the first: "match them by protocol only".  The *)
(* rules' ports play no part in the verdict on such a fragment.            *)
FragmentsByProtocol ==
    \A dst \in nodes :
      LET f == CompileFilterForNode(rules, nodes, dst)
          noPorts == [f EXCEPT !.rules = [i \in DOMAIN f.rules |-> [f.rules[i] EXCEPT !.ports = {}]]]
      IN  \A id \in nodes : \A pkt \in Packets({<<4, id>>}, {"whole"}, {TRUE}) :
            AllowsPacket(f, pkt) = AllowsPacket(noPorts, pkt)
=============================================================================
