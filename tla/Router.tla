------------------------------- MODULE Router -------------------------------
(***************************************************************************)
(* What a node changes in the Linux host to serve and to use routes        *)
(* (internal/router/router_linux.go), as the daemon drives it: a session   *)
(* makes an Advertiser, an ExitClient and a RouteSync, calls them on every *)
(* netmap, and closes them when it ends.                                   *)
(*                                                                         *)
(* Every change is a command that may fail.  Each call holds its object's  *)
(* lock throughout, so it is one action; a fault picks the command that    *)
(* fails.  The interface is the session's, has one name, and takes the     *)
(* routes through it along when it goes; iptables rules, policy rules and  *)
(* sysctls stay in the host until somebody removes them.                   *)
(***************************************************************************)
EXTENDS Naturals, FiniteSets

CONSTANTS
    Prefixes,   \* subnet routes of the peers
    MaxFaults,  \* bound on failing commands and crashes
    Faults      \* the kinds considered: "command", "crash"

ASSUME RouterAssumption ==
    /\ IsFiniteSet(Prefixes)
    /\ MaxFaults \in Nat /\ Faults \subseteq {"command", "crash"}

Fams == {4, 6}
Rules == 1 .. 4          \* of Advertiser.rules: mark, masquerade, forward in and out
Prefs == {5250, 5270}    \* the two policy rules of ExitClient

VARIABLES
    found,    \* the forwarding sysctls before the daemon ever ran
    fwd,      \* the forwarding sysctls
    ipt,      \* the iptables rules present, by family
    pol,      \* the policy rules present, by family
    tbl,      \* the families whose table 52 has a default route
    net,      \* the subnet routes present
    up,       \* a session is up
    adv,      \* Advertiser: the families on, the sysctl values to restore
    active,   \* ExitClient.active
    current,  \* RouteSync.current
    faults,
    failed    \* history: a command failed, or the daemon died, at some time

host == <<fwd, ipt, pol, tbl, net>>
vars == <<found, host, up, adv, active, current, faults, failed>>

\* n commands fail, or none.
Failing(n) ==
    /\ n > 0 => "command" \in Faults
    /\ faults + n <= MaxFaults
    /\ faults' = faults + n /\ failed' = (failed \/ n > 0)

Empty == [f \in Fams |-> {}]
NewAdvertiser == [on |-> {}, old |-> [f \in Fams |-> FALSE]]

Init ==
    /\ found \in [Fams -> BOOLEAN] /\ fwd = found
    /\ ipt = Empty /\ pol = Empty /\ tbl = {} /\ net = {}
    /\ up = FALSE
    /\ adv = NewAdvertiser /\ active = FALSE /\ current = {}
    /\ faults = 0 /\ failed = FALSE

\* A session makes its three objects.
Start ==
    /\ ~ up /\ up' = TRUE
    /\ adv' = NewAdvertiser /\ active' = FALSE /\ current' = {}
    /\ UNCHANGED <<found, host, faults, failed>>

-----------------------------------------------------------------------------
(* Advertiser.                                                             *)

\* The host and the Advertiser as one value, to run the families in turn.
Now == [fwd |-> fwd, ipt |-> ipt, adv |-> adv, ok |-> TRUE, bad |-> 0]

\* The forwarding sysctl of family f is saved, set and put back.
readSysctl(x, f) == [x EXCEPT !.adv.old[f] = x.fwd[f]]
writeSysctl(x, f) == [x EXCEPT !.fwd[f] = TRUE]
restoreSysctl(x, f) == [x EXCEPT !.fwd[f] = x.adv.old[f]]

\* Family f goes on: save the sysctl, set it, add the rules not there yet.  Either
\* all of it works, or the sysctl or one of the rules fails and the rest is not done.
\* A value that cannot be read is not restored later, as if it had been on.
Enable(x, f) ==
    LET y == readSysctl(x, f)
        z == writeSysctl(y, f)
    IN  {[z EXCEPT !.ipt[f] = Rules, !.adv.on = @ \cup {f}],
         [z EXCEPT !.ipt[f] = Rules, !.adv.on = @ \cup {f}, !.adv.old[f] = TRUE, !.bad = @ + 1]}
        \cup {[y EXCEPT !.ok = FALSE, !.bad = @ + 1]}
        \cup {[z EXCEPT !.ipt[f] = @ \cup 1 .. k - 1, !.ok = FALSE, !.bad = @ + 1] : k \in Rules \ x.ipt[f]}

\* Family f goes off: delete the rules, restore the sysctl; any of these may fail unseen.
Disable(x, f) ==
    LET y == [x EXCEPT !.adv.on = @ \ {f}]
        z == restoreSysctl(y, f)
    IN  {[z EXCEPT !.ipt[f] = left, !.bad = @ + Cardinality(left)] : left \in SUBSET x.ipt[f]}
        \cup {[y EXCEPT !.ipt[f] = left, !.bad = @ + (1 + Cardinality(left))] : left \in SUBSET x.ipt[f]}

Family(x, f, want) ==
    IF f \in want /\ f \notin x.adv.on THEN Enable(x, f)
    ELSE IF f \notin want /\ f \in x.adv.on THEN Disable(x, f)
    ELSE {x}

\* A slip: an error for IPv4 is logged and IPv4 taken for served.
AdvertiserApplied_Blind(want) ==
    {[x EXCEPT !.adv.on = @ \cup want] : x \in Family(Now, 4, want)}

\* IPv4, then IPv6; an error for IPv4 returns, one for IPv6 is logged.
AdvertiserApplied(want) ==
    UNION {IF x.ok THEN Family(x, 6, want) ELSE {x} : x \in Family(Now, 4, want)}

\* Outcome x of a call of the Advertiser.
Outcome(x) ==
    /\ fwd' = x.fwd /\ ipt' = x.ipt /\ adv' = x.adv
    /\ Failing(x.bad)

AdvertiserApply(want) ==
    /\ up
    /\ \E x \in AdvertiserApplied(want) : Outcome(x)
    /\ UNCHANGED <<found, pol, tbl, net, up, active, current>>

-----------------------------------------------------------------------------
(* ExitClient.                                                             *)

\* "ip rule add" fails for a rule that is there already, and may fail for one that is not.
RuleAddFails(q) == Failing(IF q \in pol[4] THEN 0 ELSE 1)

\* The IPv4 commands in order, the route and the two rules, up to the one that fails.
ExitApplyFails ==
    /\ ~ active
    /\ \/ Failing(1) /\ UNCHANGED <<tbl, pol>>
       \/ tbl' = tbl \cup {4} /\ RuleAddFails(5250) /\ pol' = pol
       \/ /\ tbl' = tbl \cup {4}
          /\ 5250 \notin pol[4] /\ pol' = [pol EXCEPT ![4] = @ \cup {5250}]
          /\ RuleAddFails(5270)
    /\ active' = active

\* All of IPv4 worked; IPv6 is best effort.
ExitApplySucceeds(v6) ==
    /\ ~ active /\ pol[4] = {}
    /\ \/ /\ Failing(IF v6 THEN 1 ELSE 0)
          /\ tbl' = tbl \cup {4} /\ pol' = [pol EXCEPT ![4] = Prefs]
       \/ \E bad \in SUBSET Prefs :
             /\ v6 /\ Failing(Cardinality(bad))
             /\ tbl' = tbl \cup {4, 6}
             /\ pol' = [pol EXCEPT ![4] = Prefs, ![6] = @ \cup (Prefs \ bad)]
    /\ active' = TRUE

\* Nothing is done while active, whatever the family asked for.
ExitApply(v6) ==
    /\ up
    /\ ExitApplySucceeds(v6) \/ ExitApplyFails
    /\ UNCHANGED <<found, fwd, ipt, net, up, adv, current>>

\* A slip: the IPv6 rules are forgotten.
ExitTeardown_V4Only(p, t) ==
    IF active THEN {[pol |-> [p EXCEPT ![4] = {}], tbl |-> t \ {4}, bad |-> 0]}
    ELSE {[pol |-> p, tbl |-> t, bad |-> 0]}

\* teardownLocked: rules and table of both families, errors ignored.
ExitTeardown(p, t) ==
    IF ~ active THEN {[pol |-> p, tbl |-> t, bad |-> 0]}
    ELSE {[pol |-> [Empty EXCEPT ![4] = a, ![6] = b], tbl |-> s,
           bad |-> Cardinality(a) + Cardinality(b) + Cardinality(s)] :
              a \in SUBSET p[4], b \in SUBSET p[6], s \in SUBSET t}

ExitRemove ==
    /\ up /\ active
    /\ \E x \in ExitTeardown(pol, tbl) :
          /\ pol' = x.pol /\ tbl' = x.tbl
          /\ Failing(x.bad)
    /\ active' = FALSE
    /\ UNCHANGED <<found, fwd, ipt, net, up, adv, current>>

-----------------------------------------------------------------------------
(* RouteSync.                                                              *)

\* Unwanted routes are deleted, errors ignored; missing ones added, and remembered
\* only if that worked.
Synced(want) ==
    {[net |-> (net \ ((current \ want) \ left)) \cup ((want \ current) \ missed),
      current |-> want \ missed, bad |-> Cardinality(left) + Cardinality(missed)] :
         left \in SUBSET (current \ want), missed \in SUBSET (want \ current)}

RouteSyncSync(want) ==
    /\ up
    /\ \E x \in Synced(want) :
          /\ net' = x.net /\ current' = x.current
          /\ Failing(x.bad)
    /\ UNCHANGED <<found, fwd, ipt, pol, tbl, up, adv, active>>

-----------------------------------------------------------------------------
(* The end of a session.                                                   *)

\* Advertiser.Close: both families go off.
Closed == UNION {Family(x, 6, {}) : x \in Family(Now, 4, {})}

\* The routes are deleted; those a failure leaves go with the interface.
RouteSyncClose == net' = {} /\ current' = {}

\* ExitClient.Remove, RouteSync.Close and Advertiser.Close; then the interface goes.
Close ==
    /\ up /\ up' = FALSE
    /\ \E x \in Closed, y \in ExitTeardown(pol, tbl) :
          /\ Outcome([x EXCEPT !.bad = @ + y.bad])
          /\ pol' = y.pol
    /\ RouteSyncClose
    /\ tbl' = {} /\ active' = FALSE
    /\ found' = found

\* The daemon dies; the interface and the routes through it go with it.
Crash ==
    /\ up /\ up' = FALSE
    /\ "crash" \in Faults /\ faults < MaxFaults
    /\ faults' = faults + 1 /\ failed' = TRUE
    /\ tbl' = {} /\ net' = {}
    /\ adv' = NewAdvertiser /\ active' = FALSE /\ current' = {}
    /\ UNCHANGED <<found, fwd, ipt, pol>>

Next ==
    \/ Start \/ Close \/ Crash
    \/ \E want \in SUBSET Fams : AdvertiserApply(want)
    \/ \E v6 \in BOOLEAN : ExitApply(v6)
    \/ ExitRemove
    \/ \E want \in SUBSET Prefixes : RouteSyncSync(want)

Spec == Init /\ [][Next]_vars

-----------------------------------------------------------------------------
(* Properties.                                                             *)

\* Every variable keeps its type: only the rules, routes and sysctls of router_linux.go
\* are ever touched.
TypeOK ==
    /\ found \in [Fams -> BOOLEAN] /\ fwd \in [Fams -> BOOLEAN]
    /\ ipt \in [Fams -> SUBSET Rules] /\ pol \in [Fams -> SUBSET Prefs]
    /\ tbl \subseteq Fams /\ net \subseteq Prefixes
    /\ up \in BOOLEAN /\ active \in BOOLEAN /\ failed \in BOOLEAN
    /\ adv \in [on : SUBSET Fams, old : [Fams -> BOOLEAN]]
    /\ current \subseteq Prefixes
    /\ faults \in 0 .. MaxFaults

\* A family the Advertiser believes it serves is served: forwarding is on and all
\* four rules are there, whatever commands failed and whatever a dead daemon left.
ServedMeansServed == \A f \in adv.on : fwd[f] /\ ipt[f] = Rules

\* While the exit client is active all IPv4 traffic goes through the mesh.
ActiveMeansRouted == active => 4 \in tbl /\ pol[4] = Prefs

\* A session that ends leaves the host as the first one found it, as long as no
\* command failed and the daemon did not die.
HostRestored == (~ up /\ ~ failed) => fwd = found /\ ipt = Empty /\ pol = Empty

\* RouteSync remembers no route that is not there, and without a failure forgets none.
RoutesKnown == current \subseteq net /\ (failed \/ net = current)

\* What the three objects of a session believe of the host is so, whatever commands
\* failed and whatever a dead daemon left: the Advertiser of the families it serves,
\* the ExitClient of the traffic it redirects, RouteSync of the routes it installed.
BeliefsTrue == ServedMeansServed /\ ActiveMeansRouted /\ RoutesKnown

\* What ExitClient.Remove is documented to do: without an active exit client the
\* host's traffic is routed as if there were none.
RemoveRestoresRouting == ~ active => ~ (4 \in tbl /\ 5270 \in pol[4])
=============================================================================
