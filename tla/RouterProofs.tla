---------------------------- MODULE RouterProofs ----------------------------
(***************************************************************************)
(* The host's routing under any number of prefixes, sessions and faults.   *)
(***************************************************************************)
EXTENDS Router, FiniteSetTheorems, TLAPS

-----------------------------------------------------------------------------
(* The Advertiser's calls.                                                 *)

Advertisers == [on : SUBSET Fams, old : [Fams -> BOOLEAN]]
Values == [fwd : [Fams -> BOOLEAN], ipt : [Fams -> SUBSET Rules], adv : Advertisers,
           ok : BOOLEAN, bad : Nat]

\* A family believed to be served is.
Served(x) == \A f \in x.adv.on : x.fwd[f] /\ x.ipt[f] = Rules

\* A family that is on has saved the sysctl found; one that is off is as it was.
Clean(x, orig) ==
    \A f \in Fams : IF f \in x.adv.on THEN x.adv.old[f] = orig[f]
                    ELSE x.fwd[f] = orig[f] /\ x.ipt[f] = {}

\* y comes from x by changes to family f alone.
Only(f, x, y) ==
    \A g \in Fams \ {f} : /\ y.fwd[g] = x.fwd[g] /\ y.ipt[g] = x.ipt[g]
                          /\ y.adv.old[g] = x.adv.old[g]
                          /\ g \in y.adv.on <=> g \in x.adv.on

(* Saving a sysctl, setting it, restoring it.                              *)
LEMMA SysctlFacts ==
    ASSUME NEW x \in Values, NEW f \in Fams
    PROVE  /\ readSysctl(x, f) =
                  [x EXCEPT !.adv = [x.adv EXCEPT !.old = [x.adv.old EXCEPT ![f] = x.fwd[f]]]]
           /\ writeSysctl(x, f) = [x EXCEPT !.fwd = [x.fwd EXCEPT ![f] = TRUE]]
           /\ restoreSysctl(x, f) = [x EXCEPT !.fwd = [x.fwd EXCEPT ![f] = x.adv.old[f]]]
BY Zenon DEF readSysctl, writeSysctl, restoreSysctl

(* readSysctl saves the family's value and touches nothing else.           *)
LEMMA ReadFacts ==
    ASSUME NEW x \in Values, NEW f \in Fams
    PROVE  LET y == readSysctl(x, f)
           IN  /\ y \in Values /\ Only(f, x, y) /\ y.ok = x.ok /\ y.bad = x.bad
               /\ y.fwd[f] = x.fwd[f] /\ y.ipt[f] = x.ipt[f] /\ y.adv.on = x.adv.on /\ y.adv.old[f] = x.fwd[f]
<1> DEFINE o == [x.adv.old EXCEPT ![f] = x.fwd[f]]
           v == [x.adv EXCEPT !.old = o]
<1>1. x.adv \in Advertisers /\ x.fwd[f] \in BOOLEAN
  BY Zenon DEF Values
<1>2. o \in [Fams -> BOOLEAN]
  BY <1>1, Zenon DEF Advertisers
<1> HIDE DEF o
<1>3. v \in Advertisers /\ v.on = x.adv.on /\ v.old = o
  BY <1>1, <1>2, Zenon DEF Advertisers
<1>4. readSysctl(x, f) = [x EXCEPT !.adv = v]
  BY SysctlFacts, Zenon DEF o
<1> HIDE DEF v
<1>5. LET y == readSysctl(x, f)
      IN  /\ y \in Values /\ y.fwd = x.fwd /\ y.ipt = x.ipt /\ y.ok = x.ok /\ y.bad = x.bad
          /\ y.adv = v
  BY <1>3, <1>4, Zenon DEF Values
<1>9. LET t == readSysctl(x, f)
        IN  /\ t \in Values /\ t.fwd = x.fwd /\ t.ipt = x.ipt /\ t.ok = x.ok /\ t.bad = x.bad
            /\ t.adv.on = x.adv.on /\ t.adv.old = [x.adv.old EXCEPT ![f] = x.fwd[f]]
  BY <1>3, <1>5, Zenon DEF o
<1> QED
  BY <1>9, Zenon DEF Only, Values, Advertisers

(* writeSysctl turns forwarding on for the family.                         *)
LEMMA WriteFacts ==
    ASSUME NEW x \in Values, NEW f \in Fams
    PROVE  LET y == writeSysctl(x, f)
           IN  /\ y \in Values /\ Only(f, x, y) /\ y.ok = x.ok /\ y.bad = x.bad
               /\ y.fwd[f] /\ y.ipt[f] = x.ipt[f] /\ y.adv = x.adv
<1> DEFINE w == [x.fwd EXCEPT ![f] = TRUE]
<1>1. w \in [Fams -> BOOLEAN]
  BY Zenon DEF Values
<1>2. writeSysctl(x, f) = [x EXCEPT !.fwd = w]
  BY SysctlFacts, Zenon
<1> HIDE DEF w
<1>3. LET y == writeSysctl(x, f)
      IN  /\ y \in Values /\ y.ipt = x.ipt /\ y.ok = x.ok /\ y.bad = x.bad
          /\ y.adv = x.adv /\ y.fwd = w
  BY <1>1, <1>2, Zenon DEF Values
<1>9. LET t == writeSysctl(x, f)
        IN  /\ t \in Values /\ t.ipt = x.ipt /\ t.ok = x.ok /\ t.bad = x.bad
            /\ t.adv = x.adv /\ t.fwd = [x.fwd EXCEPT ![f] = TRUE]
  BY <1>3, Zenon DEF w
<1> QED
  BY <1>9, Zenon DEF Only, Values, Advertisers

(* restoreSysctl puts the saved value back.                                *)
LEMMA RestoreFacts ==
    ASSUME NEW x \in Values, NEW f \in Fams
    PROVE  LET y == restoreSysctl(x, f)
           IN  /\ y \in Values /\ Only(f, x, y) /\ y.ok = x.ok /\ y.bad = x.bad
               /\ y.fwd[f] = x.adv.old[f] /\ y.ipt[f] = x.ipt[f] /\ y.adv = x.adv
<1> DEFINE w == [x.fwd EXCEPT ![f] = x.adv.old[f]]
<1>1. w \in [Fams -> BOOLEAN]
  BY Zenon DEF Values, Advertisers
<1>2. restoreSysctl(x, f) = [x EXCEPT !.fwd = w]
  BY SysctlFacts, Zenon
<1> HIDE DEF w
<1>3. LET y == restoreSysctl(x, f)
      IN  /\ y \in Values /\ y.ipt = x.ipt /\ y.ok = x.ok /\ y.bad = x.bad
          /\ y.adv = x.adv /\ y.fwd = w
  BY <1>1, <1>2, Zenon DEF Values
<1>9. LET t == restoreSysctl(x, f)
        IN  /\ t \in Values /\ t.ipt = x.ipt /\ t.ok = x.ok /\ t.bad = x.bad
            /\ t.adv = x.adv /\ t.fwd = [x.fwd EXCEPT ![f] = x.adv.old[f]]
  BY <1>3, Zenon DEF w
<1> QED
  BY <1>9, Zenon DEF Only, Values, Advertisers

(* The outcomes of Enable and Disable: all of it worked, the sysctl could  *)
(* not be read, a rule could not be added; a family turned off.            *)
AllOn(z, f) == [z EXCEPT !.ipt[f] = Rules, !.adv.on = @ \cup {f}]
AllOnUnread(z, f) ==
    [z EXCEPT !.ipt[f] = Rules, !.adv.on = @ \cup {f}, !.adv.old[f] = TRUE, !.bad = @ + 1]
SomeRules(z, f, s) == [z EXCEPT !.ipt[f] = @ \cup s, !.ok = FALSE, !.bad = @ + 1]
NoSysctl(z) == [z EXCEPT !.ok = FALSE, !.bad = @ + 1]
RulesLeft(z, f, s, n) == [z EXCEPT !.ipt[f] = s, !.bad = @ + n]
TurnOff(z, f) == [z EXCEPT !.adv.on = @ \ {f}]

(* What each changes, field by field.                                      *)
LEMMA Enabled ==
    ASSUME NEW z \in Values, NEW f \in Fams
    PROVE  LET w == AllOn(z, f)
           IN  /\ w \in Values /\ Only(f, z, w) /\ w.ok = z.ok /\ w.bad = z.bad
               /\ w.fwd[f] = z.fwd[f] /\ w.ipt[f] = Rules /\ f \in w.adv.on /\ w.adv.old[f] = z.adv.old[f]
<1> DEFINE i == [z.ipt EXCEPT ![f] = Rules]
           v == [z.adv EXCEPT !.on = z.adv.on \cup {f}]
           w == [z EXCEPT !.ipt[f] = Rules, !.adv.on = @ \cup {f}]
<1>1. i \in [Fams -> SUBSET Rules]
  BY Zenon DEF Values
<1>2. v \in Advertisers /\ v.on = z.adv.on \cup {f} /\ v.old = z.adv.old
  BY Zenon DEF Values, Advertisers
<1>3. z = [fwd |-> z.fwd, ipt |-> z.ipt, adv |-> z.adv, ok |-> z.ok, bad |-> z.bad]
  BY Zenon DEF Values
<1>4. w = [z EXCEPT !.ipt = i, !.adv = v]
  BY <1>3, Zenon DEF Values
<1> HIDE DEF i, v
<1>9. LET t == AllOn(z, f)
        IN  /\ t \in Values /\ t.fwd = z.fwd /\ t.ok = z.ok /\ t.bad = z.bad
            /\ t.ipt = [z.ipt EXCEPT ![f] = Rules]
            /\ t.adv.on = z.adv.on \cup {f} /\ t.adv.old = z.adv.old
  BY <1>1, <1>2, <1>4, Zenon DEF Values, i, AllOn
<1> QED
  BY <1>9, Zenon DEF Only, Values, Advertisers

(* The same, with a sysctl that could not be read.                         *)
LEMMA EnabledUnread ==
    ASSUME NEW z \in Values, NEW f \in Fams
    PROVE  LET w == AllOnUnread(z, f)
           IN  /\ w \in Values /\ Only(f, z, w) /\ w.ok = z.ok /\ w.bad = z.bad + 1
               /\ w.fwd[f] = z.fwd[f] /\ w.ipt[f] = Rules /\ f \in w.adv.on
<1> DEFINE i == [z.ipt EXCEPT ![f] = Rules]
           o == [z.adv.old EXCEPT ![f] = TRUE]
           v == [z.adv EXCEPT !.on = z.adv.on \cup {f}, !.old = o]
           m == z.bad + 1
           w == [z EXCEPT !.ipt[f] = Rules, !.adv.on = @ \cup {f}, !.adv.old[f] = TRUE, !.bad = @ + 1]
<1>1. i \in [Fams -> SUBSET Rules]
  BY Zenon DEF Values
<1>2. o \in [Fams -> BOOLEAN]
  BY Zenon DEF Values, Advertisers
<1>3. z = [fwd |-> z.fwd, ipt |-> z.ipt, adv |-> z.adv, ok |-> z.ok, bad |-> z.bad]
  BY Zenon DEF Values
<1>4. z.adv = [on |-> z.adv.on, old |-> z.adv.old]
  BY Zenon DEF Values, Advertisers
<1>5. w = [z EXCEPT !.ipt = i, !.adv = v, !.bad = m]
  BY <1>3, <1>4, Zenon DEF Values, Advertisers
<1>6. v \in Advertisers /\ v.on = z.adv.on \cup {f} /\ v.old = o
  <2> HIDE DEF o
  <2> QED
    BY <1>2, Zenon DEF Values, Advertisers
<1>0. m \in Nat
  BY DEF Values
<1> HIDE DEF i, v, m, w
<1>7. w \in Values /\ w.fwd = z.fwd /\ w.ok = z.ok /\ w.bad = m /\ w.ipt = i /\ w.adv = v
  BY <1>0, <1>1, <1>5, <1>6, Zenon DEF Values
<1>9. LET t == AllOnUnread(z, f)
        IN  /\ t \in Values /\ t.fwd = z.fwd /\ t.ok = z.ok /\ t.bad = z.bad + 1
            /\ t.ipt = [z.ipt EXCEPT ![f] = Rules]
            /\ t.adv.on = z.adv.on \cup {f} /\ t.adv.old = [z.adv.old EXCEPT ![f] = TRUE]
  BY <1>6, <1>7, Zenon DEF i, m, w, AllOnUnread
<1> QED
  BY <1>9, ZenonT(30) DEF Only, Values, Advertisers

(* A rule could not be added: the family stays off.                        *)
LEMMA NotEnabled ==
    ASSUME NEW z \in Values, NEW f \in Fams, NEW s \in SUBSET Rules
    PROVE  LET w == SomeRules(z, f, s)
           IN  /\ w \in Values /\ Only(f, z, w) /\ w.ok = FALSE /\ w.bad = z.bad + 1
               /\ w.fwd[f] = z.fwd[f] /\ w.adv = z.adv
<1> DEFINE i == [z.ipt EXCEPT ![f] = z.ipt[f] \cup s]
           m == z.bad + 1
           w == [z EXCEPT !.ipt[f] = @ \cup s, !.ok = FALSE, !.bad = @ + 1]
<1>1. i \in [Fams -> SUBSET Rules]
  BY Zenon DEF Values
<1>2. z = [fwd |-> z.fwd, ipt |-> z.ipt, adv |-> z.adv, ok |-> z.ok, bad |-> z.bad]
  BY Zenon DEF Values
<1>3. w = [z EXCEPT !.ipt = i, !.ok = FALSE, !.bad = m]
  BY <1>2, Zenon DEF Values
<1>0. m \in Nat
  BY DEF Values
<1> HIDE DEF i, m, w
<1>4. /\ w \in Values /\ w.fwd = z.fwd /\ w.ok = FALSE /\ w.bad = m /\ w.adv = z.adv
      /\ w.ipt = i
  BY <1>0, <1>1, <1>3, Zenon DEF Values
<1>9. LET t == SomeRules(z, f, s)
        IN  /\ t \in Values /\ t.fwd = z.fwd /\ t.ok = FALSE /\ t.bad = z.bad + 1 /\ t.adv = z.adv
            /\ t.ipt = [z.ipt EXCEPT ![f] = z.ipt[f] \cup s]
  BY <1>4, Zenon DEF i, m, w, SomeRules
<1> QED
  BY <1>9, Zenon DEF Only, Values, Advertisers

(* Rules of the family are left and failures counted.                      *)
LEMMA Disabled ==
    ASSUME NEW z \in Values, NEW f \in Fams, NEW s \in SUBSET Rules, NEW n \in Nat
    PROVE  LET w == RulesLeft(z, f, s, n)
           IN  /\ w \in Values /\ Only(f, z, w) /\ w.ok = z.ok /\ w.bad = z.bad + n
               /\ w.fwd[f] = z.fwd[f] /\ w.ipt[f] = s /\ w.adv = z.adv
<1> DEFINE i == [z.ipt EXCEPT ![f] = s]
           m == z.bad + n
           w == [z EXCEPT !.ipt[f] = s, !.bad = @ + n]
<1>1. i \in [Fams -> SUBSET Rules]
  BY Zenon DEF Values
<1>2. z = [fwd |-> z.fwd, ipt |-> z.ipt, adv |-> z.adv, ok |-> z.ok, bad |-> z.bad]
  BY Zenon DEF Values
<1>3. w = [z EXCEPT !.ipt = i, !.bad = m]
  BY <1>2, Zenon DEF Values
<1>0. m \in Nat
  BY DEF Values
<1> HIDE DEF i, m, w
<1>4. /\ w \in Values /\ w.fwd = z.fwd /\ w.ok = z.ok /\ w.bad = m /\ w.adv = z.adv
      /\ w.ipt = i
  BY <1>0, <1>1, <1>3, Zenon DEF Values
<1>9. LET t == RulesLeft(z, f, s, n)
        IN  /\ t \in Values /\ t.fwd = z.fwd /\ t.ok = z.ok /\ t.bad = z.bad + n /\ t.adv = z.adv
            /\ t.ipt = [z.ipt EXCEPT ![f] = s]
  BY <1>4, Zenon DEF i, m, w, RulesLeft
<1> QED
  BY <1>9, Zenon DEF Only, Values, Advertisers

(* The Advertiser no longer counts the family as on.                       *)
LEMMA TurnedOff ==
    ASSUME NEW x \in Values, NEW f \in Fams
    PROVE  LET y == TurnOff(x, f)
           IN  /\ y \in Values /\ Only(f, x, y) /\ y.ok = x.ok /\ y.bad = x.bad
               /\ y.fwd[f] = x.fwd[f] /\ y.ipt[f] = x.ipt[f] /\ y.adv.on = x.adv.on \ {f} /\ y.adv.old = x.adv.old
<1> DEFINE v == [x.adv EXCEPT !.on = x.adv.on \ {f}]
           y == [x EXCEPT !.adv.on = @ \ {f}]
<1>1. v \in Advertisers /\ v.on = x.adv.on \ {f} /\ v.old = x.adv.old
  BY Zenon DEF Values, Advertisers
<1>2. y = [x EXCEPT !.adv = v]
  BY Zenon DEF Values
<1> HIDE DEF v
<1>9. LET t == TurnOff(x, f)
        IN  /\ t \in Values /\ t.fwd = x.fwd /\ t.ipt = x.ipt /\ t.ok = x.ok /\ t.bad = x.bad
            /\ t.adv.on = x.adv.on \ {f} /\ t.adv.old = x.adv.old
  BY <1>1, <1>2, Zenon DEF Values, TurnOff
<1> QED
  BY <1>9, Zenon DEF Only, Values, Advertisers

-----------------------------------------------------------------------------
(* One family, then both.                                                  *)

(* Nothing is left of a set when as many as it has elements, none, failed. *)
LEMMA NoneLeft ==
    ASSUME NEW S, IsFiniteSet(S), NEW left \in SUBSET S
    PROVE  Cardinality(left) \in Nat /\ (Cardinality(left) = 0 => left = {})
<1>1. IsFiniteSet(left)
  BY FS_Subset, Zenon
<1> QED
  BY <1>1, FS_CardinalityType, FS_EmptySet, Zenon

(* The rules, the policy rules and the families are finitely many.         *)
LEMMA RulesFinite == IsFiniteSet(Rules) /\ IsFiniteSet(Prefs) /\ IsFiniteSet(Fams)
<1>1. /\ Rules \in SUBSET Nat /\ \A n \in Rules : n <= 4
      /\ Prefs \in SUBSET Nat /\ \A n \in Prefs : n <= 5270
      /\ Fams \in SUBSET Nat /\ \A n \in Fams : n <= 6
  BY DEF Rules, Prefs, Fams
<1>2. 4 \in Nat /\ 6 \in Nat /\ 5270 \in Nat
  OBVIOUS
<1> QED
  BY <1>1, <1>2, FS_BoundedSetOfNaturals

(* Two changes to one family alone are changes to it alone.                *)
LEMMA OnlyTwice ==
    ASSUME NEW f \in Fams, NEW x, NEW y, NEW z, Only(f, x, y), Only(f, y, z)
    PROVE  Only(f, x, z)
BY Zenon DEF Only

(* A call for one family keeps what it must: y is what it makes of x.      *)
Keeps(x, y, orig) ==
    /\ y \in Values /\ Served(y) /\ y.bad >= x.bad
    /\ (y.bad = 0 /\ Clean(x, orig)) => Clean(y, orig)

(* ... if it does right by that family.                                    *)
LEMMA OneFamily ==
    ASSUME NEW x \in Values, NEW f \in Fams, Served(x), NEW orig, NEW y \in Values, Only(f, x, y),
           y.bad >= x.bad,
           f \in y.adv.on => y.fwd[f] /\ y.ipt[f] = Rules,
           (y.bad = 0 /\ Clean(x, orig))
               => IF f \in y.adv.on THEN y.adv.old[f] = orig[f] ELSE y.fwd[f] = orig[f] /\ y.ipt[f] = {}
    PROVE  Keeps(x, y, orig)
<1>1. y.adv.on \subseteq Fams
  BY Zenon DEF Values, Advertisers
<1>2. Served(y)
  BY <1>1, Zenon DEF Served, Only
<1>3. (y.bad = 0 /\ Clean(x, orig)) => Clean(y, orig)
  BY DEF Clean, Only
<1> QED
  BY <1>2, <1>3, Zenon DEF Keeps

(* Whatever fails, Enable counts a family as on only if it is served.      *)
LEMMA EnableKeeps ==
    ASSUME NEW x \in Values, NEW f \in Fams, f \notin x.adv.on, Served(x), NEW orig,
           NEW y \in Enable(x, f)
    PROVE  Keeps(x, y, orig) /\ y.adv.on \subseteq x.adv.on \cup {f}
<1> DEFINE r == readSysctl(x, f)
           z == writeSysctl(r, f)
<1>1. /\ r \in Values /\ Only(f, x, r) /\ r.bad = x.bad
      /\ r.adv.on = x.adv.on /\ r.adv.old[f] = x.fwd[f]
  BY ReadFacts, Zenon
<1>2. \/ y = AllOn(z, f)
      \/ y = AllOnUnread(z, f)
      \/ y = NoSysctl(r)
      \/ \E k \in Rules : y = SomeRules(z, f, 1 .. k - 1)
  BY Zenon DEF Enable, AllOn, AllOnUnread, NoSysctl, SomeRules
<1> HIDE DEF r
<1>3. z \in Values /\ Only(f, r, z) /\ z.bad = r.bad /\ z.adv = r.adv /\ z.fwd[f]
  BY <1>1, WriteFacts, Zenon
<1> HIDE DEF z
<1>4. Only(f, x, z) /\ z.bad = x.bad /\ z.adv.on = x.adv.on /\ z.adv.old[f] = x.fwd[f]
  BY <1>1, <1>3, OnlyTwice, Zenon
<1>5. x.bad \in Nat
  BY Zenon DEF Values
<1>6. CASE y = AllOn(z, f)
  <2>1. /\ y \in Values /\ Only(f, z, y) /\ y.bad = z.bad /\ y.fwd[f] = z.fwd[f] /\ y.ipt[f] = Rules
        /\ f \in y.adv.on /\ y.adv.old[f] = z.adv.old[f]
    BY <1>3, <1>6, Enabled, Zenon
  <2>2. Only(f, x, y) /\ y.bad >= x.bad /\ f \in y.adv.on /\ y.adv.old[f] = x.fwd[f] /\ y.fwd[f]
    BY <1>3, <1>4, <1>5, <2>1, OnlyTwice
  <2>3. Clean(x, orig) => x.fwd[f] = orig[f]
    BY Zenon DEF Clean
  <2>4. y.adv.on \subseteq x.adv.on \cup {f}
    BY <2>1, <2>2, Zenon DEF Only, Values, Advertisers
  <2> QED
    BY <2>1, <2>2, <2>3, <2>4, OneFamily, Zenon
<1>7. CASE y = AllOnUnread(z, f)
  <2>1. /\ y \in Values /\ Only(f, z, y) /\ y.bad = z.bad + 1 /\ y.fwd[f] = z.fwd[f] /\ y.ipt[f] = Rules
        /\ f \in y.adv.on
    <3>1. z \in Values
      BY <1>3, Zenon
    <3>2. LET w == AllOnUnread(z, f)
          IN  /\ w \in Values /\ Only(f, z, w) /\ w.ok = z.ok /\ w.bad = z.bad + 1
              /\ w.fwd[f] = z.fwd[f] /\ w.ipt[f] = Rules /\ f \in w.adv.on
      BY <3>1, EnabledUnread, Zenon
    <3> QED
      BY <1>7, <3>2, Zenon
  <2>2. Only(f, x, y) /\ y.bad >= x.bad /\ y.bad # 0 /\ f \in y.adv.on /\ y.fwd[f]
    BY <1>3, <1>4, <1>5, <2>1, OnlyTwice
  <2>3. y.adv.on \subseteq x.adv.on \cup {f}
    BY <2>1, <2>2, Zenon DEF Only, Values, Advertisers
  <2> QED
    BY <2>1, <2>2, <2>3, OneFamily, Zenon
<1>8. CASE y = NoSysctl(r)
  <2> DEFINE m == r.bad + 1
  <2>1. m \in Nat /\ m >= x.bad /\ m # 0 /\ y = [r EXCEPT !.ok = FALSE, !.bad = m]
    BY <1>1, <1>5, <1>8 DEF NoSysctl
  <2> HIDE DEF m
  <2>2. y \in Values /\ y.bad = m /\ y.fwd = r.fwd /\ y.ipt = r.ipt /\ y.adv = r.adv
    BY <1>1, <2>1, Zenon DEF Values
  <2>3. Only(f, x, y) /\ y.bad >= x.bad /\ y.bad # 0 /\ y.adv.on = x.adv.on
    BY <1>1, <2>1, <2>2, Zenon DEF Only
  <2> QED
    BY <2>2, <2>3, OneFamily, Zenon
<1>9. ASSUME NEW k \in Rules, y = SomeRules(z, f, 1 .. k - 1)
      PROVE  Keeps(x, y, orig) /\ y.adv.on \subseteq x.adv.on \cup {f}
  <2> DEFINE s == 1 .. k - 1
  <2>1. s \in SUBSET Rules
    BY DEF Rules
  <2>2. y = SomeRules(z, f, s)
    BY <1>9, Zenon
  <2> HIDE DEF s
  <2>3. y \in Values /\ Only(f, z, y) /\ y.bad = z.bad + 1 /\ y.adv = z.adv
    BY <1>3, <2>1, <2>2, NotEnabled, ZenonT(60)
  <2>4. Only(f, x, y) /\ y.bad >= x.bad /\ y.bad # 0 /\ y.adv.on = x.adv.on
    BY <1>4, <1>5, <2>3, OnlyTwice
  <2> QED
    BY <2>3, <2>4, OneFamily, Zenon
<1> QED
  BY <1>2, <1>6, <1>7, <1>8, <1>9, Zenon

(* Disable takes the family off; without a failure it is as found.         *)
LEMMA DisableKeeps ==
    ASSUME NEW x \in Values, NEW f \in Fams, f \in x.adv.on, Served(x), NEW orig,
           NEW y \in Disable(x, f)
    PROVE  Keeps(x, y, orig) /\ y.adv.on \subseteq x.adv.on \ {f}
<1> DEFINE o == TurnOff(x, f)
           z == restoreSysctl(o, f)
<1>1. /\ o \in Values /\ Only(f, x, o) /\ o.bad = x.bad
      /\ o.adv.on = x.adv.on \ {f} /\ o.adv.old = x.adv.old
  BY TurnedOff, Zenon
<1>2. PICK left \in SUBSET x.ipt[f] :
          \/ y = RulesLeft(z, f, left, Cardinality(left))
          \/ y = RulesLeft(o, f, left, 1 + Cardinality(left))
  BY Zenon DEF Disable, TurnOff, RulesLeft
<1> HIDE DEF o
<1>3. /\ z \in Values /\ Only(f, o, z) /\ z.bad = o.bad /\ z.adv = o.adv
      /\ z.fwd[f] = o.adv.old[f]
  BY <1>1, RestoreFacts, Zenon
<1> HIDE DEF z
<1>4. /\ Only(f, x, z) /\ z.bad = x.bad /\ z.adv.on = x.adv.on \ {f}
      /\ z.fwd[f] = x.adv.old[f]
  BY <1>1, <1>3, OnlyTwice, Zenon
<1>5. x.bad \in Nat /\ left \in SUBSET Rules
  BY Zenon DEF Values
<1>6. Cardinality(left) \in Nat /\ (Cardinality(left) = 0 => left = {})
  BY <1>5, RulesFinite, NoneLeft, Zenon
<1> DEFINE n == Cardinality(left)
<1>7. CASE y = RulesLeft(z, f, left, n)
  <2> HIDE DEF n
  <2>0. n \in Nat /\ (n = 0 => left = {})
    BY <1>6, Zenon DEF n
  <2>1. /\ y \in Values /\ Only(f, z, y) /\ y.bad = z.bad + n /\ y.fwd[f] = z.fwd[f] /\ y.ipt[f] = left
        /\ y.adv = z.adv
    BY <1>3, <1>5, <1>7, <2>0, Disabled, SMTT(60)
  <2>2. Only(f, x, y) /\ y.bad >= x.bad /\ (y.bad = 0 => left = {}) /\ y.adv.on = x.adv.on \ {f}
    BY <1>4, <1>5, <2>0, <2>1, OnlyTwice
  <2>3. Clean(x, orig) => x.adv.old[f] = orig[f]
    BY Zenon DEF Clean
  <2> QED
    BY <1>4, <2>1, <2>2, <2>3, OneFamily, Zenon
<1>8. CASE y = RulesLeft(o, f, left, 1 + n)
  <2> HIDE DEF n
  <2>0. 1 + n \in Nat /\ 1 + n > 0
    BY <1>6 DEF n
  <2>1. y \in Values /\ Only(f, o, y) /\ y.bad = o.bad + (1 + n) /\ y.adv = o.adv
    BY <1>1, <1>5, <1>8, <2>0, Disabled
  <2>2. Only(f, x, y) /\ y.bad >= x.bad /\ y.bad # 0 /\ y.adv.on = x.adv.on \ {f}
    BY <1>1, <1>5, <2>0, <2>1, OnlyTwice
  <2> QED
    BY <2>1, <2>2, OneFamily, Zenon
<1> QED
  BY <1>2, <1>7, <1>8, Zenon

(* One family's part of Apply or of Close.                                 *)
LEMMA FamilyKeeps ==
    ASSUME NEW x \in Values, NEW f \in Fams, NEW want, Served(x), NEW orig, NEW y \in Family(x, f, want)
    PROVE  Keeps(x, y, orig) /\ y.adv.on \subseteq (x.adv.on \ {f}) \cup want
<1>1. CASE f \in want /\ f \notin x.adv.on
  <2>1. y \in Enable(x, f)
    BY <1>1, Zenon DEF Family
  <2> QED
    BY <1>1, <2>1, EnableKeeps, Zenon
<1>2. CASE f \notin want /\ f \in x.adv.on
  <2>1. y \in Disable(x, f)
    BY <1>2, Zenon DEF Family
  <2> QED
    BY <1>2, <2>1, DisableKeeps, Zenon
<1>3. CASE f \in want <=> f \in x.adv.on
  <2>1. y = x
    BY <1>3, Zenon DEF Family
  <2>2. x.bad \in Nat /\ x.bad >= x.bad
    BY DEF Values
  <2> QED
    BY <1>3, <2>1, <2>2, Zenon DEF Keeps
<1> QED
  BY <1>1, <1>2, <1>3, Zenon

(* Two calls that keep what they must keep it together.                    *)
LEMMA KeepsTwice ==
    ASSUME NEW x \in Values, NEW y, NEW z, NEW orig, Keeps(x, y, orig), Keeps(y, z, orig)
    PROVE  Keeps(x, z, orig)
<1>1. x.bad \in Nat /\ y.bad \in Nat /\ z.bad \in Nat /\ y.bad >= x.bad /\ z.bad >= y.bad
  BY Zenon DEF Keeps, Values
<1>2. z.bad >= x.bad /\ (z.bad = 0 => y.bad = 0)
  BY <1>1
<1> QED
  BY <1>2, Zenon DEF Keeps

(* IPv4 and IPv6 in turn; with nothing wanted none stays on.               *)
LEMMA BothFamilies ==
    ASSUME NEW x \in Values, NEW want, Served(x), NEW orig
    PROVE  /\ \A y \in Family(x, 4, want) : \A z \in Family(y, 6, want) :
                  Keeps(x, z, orig) /\ (want = {} => z.adv.on = {})
           /\ \A y \in Family(x, 4, want) : Keeps(x, y, orig)
<1>0. 4 \in Fams /\ 6 \in Fams
  BY Zenon DEF Fams
<1>1. ASSUME NEW y \in Family(x, 4, want)
      PROVE  Keeps(x, y, orig) /\ y.adv.on \subseteq (x.adv.on \ {4}) \cup want
  BY <1>0, FamilyKeeps
<1>2. ASSUME NEW y \in Family(x, 4, want), NEW z \in Family(y, 6, want)
      PROVE  Keeps(x, z, orig) /\ (want = {} => z.adv.on = {})
  <2>1. y \in Values /\ Served(y) /\ Keeps(x, y, orig)
    BY <1>1, Zenon DEF Keeps
  <2>2. Keeps(y, z, orig) /\ z.adv.on \subseteq (y.adv.on \ {6}) \cup want
    BY <1>0, <2>1, FamilyKeeps
  <2>3. Keeps(x, z, orig)
    BY <2>1, <2>2, KeepsTwice, Zenon
  <2>4. x.adv.on \subseteq {4, 6}
    BY Zenon DEF Values, Advertisers, Fams
  <2>5. want = {} => z.adv.on = {}
    BY <1>1, <2>2, <2>4, Zenon
  <2> QED
    BY <2>3, <2>5, Zenon
<1> QED
  BY <1>1, <1>2, Zenon

-----------------------------------------------------------------------------
(* The invariant.                                                          *)

\* Between sessions the three objects hold nothing.
Ended == ~ up => adv.on = {} /\ ~ active /\ current = {}

\* Before the first failure what is not in use is as it was found.
Untouched == ~ failed => Clean(Now, found) /\ (~ active => pol = Empty)

IInv == TypeOK /\ ServedMeansServed /\ ActiveMeansRouted /\ RoutesKnown /\ Ended /\ Untouched

(* The state is a value the Advertiser's calls can start from.             *)
LEMMA NowFacts ==
    ASSUME TypeOK, ServedMeansServed
    PROVE  Now \in Values /\ Now.bad = 0 /\ Served(Now)
<1>1. Now \in Values /\ Now.bad = 0 /\ Now.adv = adv /\ Now.fwd = fwd /\ Now.ipt = ipt
  BY Zenon DEF Now, Values, Advertisers, TypeOK
<1> QED
  BY <1>1, Zenon DEF Served, ServedMeansServed

(* Commands that fail leave a trace, and stay within the bound.            *)
LEMMA FailingFacts ==
    ASSUME TypeOK, NEW n \in Nat, Failing(n)
    PROVE  faults' \in 0 .. MaxFaults /\ failed' \in BOOLEAN /\ (~ failed' => ~ failed /\ n = 0)
<1>1. faults' = faults + n /\ faults + n <= MaxFaults /\ failed' = (failed \/ n > 0)
  BY Zenon DEF Failing
<1>2. faults \in Nat /\ failed \in BOOLEAN /\ MaxFaults \in Nat
  BY RouterAssumption DEF TypeOK
<1>3. faults' \in 0 .. MaxFaults
  BY <1>1, <1>2
<1>4. n = 0 \/ n > 0
  OBVIOUS
<1>5. failed' \in BOOLEAN /\ (~ failed' => ~ failed /\ n = 0)
  BY <1>1, <1>2, <1>4, Zenon
<1> QED
  BY <1>3, <1>5, Zenon

(* A call of the Advertiser that keeps what it must.                       *)
LEMMA OutcomeStep ==
    ASSUME IInv, NEW x, Keeps(Now, x, found), NEW n \in Nat, n >= x.bad, Failing(n),
           fwd' = x.fwd, ipt' = x.ipt, adv' = x.adv, found' = found
    PROVE  /\ fwd' \in [Fams -> BOOLEAN] /\ ipt' \in [Fams -> SUBSET Rules] /\ adv' \in Advertisers
           /\ faults' \in 0 .. MaxFaults /\ failed' \in BOOLEAN /\ (~ failed' => ~ failed /\ n = 0)
           /\ ServedMeansServed' /\ (~ failed' => Clean(Now, found)')
<1>1. x \in Values /\ Served(x) /\ ((x.bad = 0 /\ Clean(Now, found)) => Clean(x, found))
  BY Zenon DEF Keeps
<1>2. /\ fwd' \in [Fams -> BOOLEAN] /\ ipt' \in [Fams -> SUBSET Rules] /\ adv' \in Advertisers
      /\ x.bad \in Nat
  BY <1>1, Zenon DEF Values
<1>3. faults' \in 0 .. MaxFaults /\ failed' \in BOOLEAN /\ (~ failed' => ~ failed /\ n = 0)
  BY FailingFacts, Zenon DEF IInv
<1>4. ServedMeansServed'
  BY <1>1, Zenon DEF Served, ServedMeansServed
<1>5. ASSUME ~ failed' PROVE Clean(Now, found)'
  <2>1. x.bad = 0 /\ Clean(Now, found)
    BY <1>2, <1>3, <1>5 DEF IInv, Untouched
  <2>2. Clean(x, found)
    BY <1>1, <2>1, Zenon
  <2>3. Now'.fwd = x.fwd /\ Now'.ipt = x.ipt /\ Now'.adv = x.adv
    BY Zenon DEF Now
  <2> QED
    BY <2>2, <2>3, Zenon DEF Clean
<1> QED
  BY <1>2, <1>3, <1>4, <1>5, Zenon

(* What the other calls leave alone.                                       *)
LEMMA CleanSame ==
    ASSUME UNCHANGED <<fwd, ipt, adv, found>>
    PROVE  (Clean(Now, found)' <=> Clean(Now, found)) /\ (ServedMeansServed' <=> ServedMeansServed)
<1>1. Now' = Now
  BY Zenon DEF Now
<1> QED
  BY <1>1, Zenon DEF Clean, ServedMeansServed

(* A session starts.                                                       *)
LEMMA StartStep == ASSUME IInv, Start PROVE IInv'
<1> USE DEF IInv
<1>1. /\ ~ up /\ up' = TRUE /\ adv' = NewAdvertiser /\ active' = FALSE /\ current' = {}
      /\ UNCHANGED <<found, fwd, ipt, pol, tbl, net, faults, failed>>
  BY Zenon DEF Start, host
<1>2. NewAdvertiser \in Advertisers /\ NewAdvertiser.on = {}
  BY Zenon DEF NewAdvertiser, Advertisers
<1>3. TypeOK'
  BY <1>1, <1>2, Zenon DEF TypeOK, Advertisers
<1>4. ServedMeansServed' /\ ActiveMeansRouted' /\ RoutesKnown' /\ Ended'
  BY <1>1, <1>2, Zenon DEF ServedMeansServed, ActiveMeansRouted, RoutesKnown, Ended
<1>5. Untouched'
  <2>1. Now'.fwd = Now.fwd /\ Now'.ipt = Now.ipt /\ Now'.adv.on = {} /\ Now.adv.on = {}
    BY <1>1, <1>2, Zenon DEF Now, Ended
  <2>2. Clean(Now, found) => Clean(Now, found)'
    BY <1>1, <2>1, Zenon DEF Clean
  <2> QED
    BY <1>1, <2>2, Zenon DEF Untouched, Ended
<1> QED
  BY <1>3, <1>4, <1>5, Zenon

(* Advertiser.Apply.                                                       *)
LEMMA AdvertiserApplyStep ==
    ASSUME IInv, NEW want \in SUBSET Fams, AdvertiserApply(want)
    PROVE  IInv'
<1> USE DEF IInv
<1>1. up /\ UNCHANGED <<found, pol, tbl, net, up, active, current>>
  BY Zenon DEF AdvertiserApply
<1>2. PICK x \in AdvertiserApplied(want) : Outcome(x)
  BY Zenon DEF AdvertiserApply
<1>3. Keeps(Now, x, found)
  <2>1. PICK y \in Family(Now, 4, want) : x \in IF y.ok THEN Family(y, 6, want) ELSE {y}
    BY Zenon DEF AdvertiserApplied
  <2> QED
    BY <2>1, NowFacts, BothFamilies, Zenon
<1>4. x.bad \in Nat /\ x.bad >= x.bad
  BY <1>3 DEF Keeps, Values
<1>5. /\ fwd' \in [Fams -> BOOLEAN] /\ ipt' \in [Fams -> SUBSET Rules] /\ adv' \in Advertisers
      /\ faults' \in 0 .. MaxFaults /\ failed' \in BOOLEAN /\ (~ failed' => ~ failed)
      /\ ServedMeansServed' /\ (~ failed' => Clean(Now, found)')
  BY <1>1, <1>2, <1>3, <1>4, OutcomeStep, Zenon DEF Outcome
<1>6. TypeOK'
  BY <1>1, <1>5, Zenon DEF TypeOK, Advertisers
<1>7. ActiveMeansRouted' /\ RoutesKnown' /\ Ended' /\ Untouched'
  BY <1>1, <1>5, Zenon DEF ActiveMeansRouted, RoutesKnown, Ended, Untouched, TypeOK
<1> QED
  BY <1>5, <1>6, <1>7, Zenon

(* ExitClient.Apply and Remove.                                            *)
LEMMA ExitApplyStep ==
    ASSUME IInv, NEW v6 \in BOOLEAN, ExitApply(v6)
    PROVE  IInv'
<1> USE DEF IInv
<1>1. up /\ ~ active /\ UNCHANGED <<found, fwd, ipt, net, up, adv, current>>
  BY DEF ExitApply, ExitApplySucceeds, ExitApplyFails
<1>2. CASE ExitApplySucceeds(v6)
  <2>0. pol \in [Fams -> SUBSET Prefs] /\ tbl \subseteq Fams /\ 4 \in Fams /\ 6 \in Fams /\ 4 # 6
    BY DEF TypeOK, Fams
  <2>1. \E n \in Nat : Failing(n)
    <3>1. ASSUME NEW bad \in SUBSET Prefs PROVE Cardinality(bad) \in Nat
      BY RulesFinite, NoneLeft, Zenon
    <3> QED
      BY <1>2, <3>1, Zenon DEF ExitApplySucceeds
  <2>2. faults' \in 0 .. MaxFaults /\ failed' \in BOOLEAN /\ (~ failed' => ~ failed)
    BY <2>1, FailingFacts, Zenon
  <2>3. /\ active' = TRUE /\ tbl' \subseteq Fams /\ 4 \in tbl'
        /\ pol' \in [Fams -> SUBSET Prefs] /\ pol'[4] = Prefs
    BY <1>2, <2>0, ZenonT(30) DEF ExitApplySucceeds
  <2>4. TypeOK' /\ ActiveMeansRouted'
    BY <1>1, <2>2, <2>3, Zenon DEF TypeOK, ActiveMeansRouted
  <2>5. RoutesKnown' /\ Ended'
    BY <1>1, <2>2, Zenon DEF RoutesKnown, Ended, TypeOK
  <2>6. ServedMeansServed' /\ Untouched'
    BY <1>1, <2>2, <2>3, CleanSame, Zenon DEF Untouched
  <2> QED
    BY <2>4, <2>5, <2>6, Zenon
<1>3. CASE ExitApplyFails
  <2>0. pol \in [Fams -> SUBSET Prefs] /\ tbl \subseteq Fams /\ 4 \in Fams
    BY Zenon DEF TypeOK, Fams
  <2>1. /\ active' = active /\ tbl' \subseteq Fams /\ pol' \in [Fams -> SUBSET Prefs]
        /\ \E n \in Nat : Failing(n)
    BY <1>3, <2>0 DEF ExitApplyFails, RuleAddFails, Prefs
  <2>2. faults' \in 0 .. MaxFaults /\ failed' \in BOOLEAN /\ (~ failed' => ~ failed)
    BY <2>1, FailingFacts, Zenon
  <2>3. failed'
    <3>1. ASSUME Failing(1) PROVE failed'
      BY <3>1, FailingFacts
    <3>2. failed => failed'
      BY <2>2, Zenon
    <3>3. ASSUME ~ failed PROVE pol[4] = {}
      BY <1>1, <3>3, Zenon DEF Untouched, Empty, Fams
    <3> QED
      BY <1>3, <3>1, <3>2, <3>3 DEF ExitApplyFails, RuleAddFails
  <2>4. TypeOK'
    BY <1>1, <2>1, <2>2, Zenon DEF TypeOK
  <2>5. ActiveMeansRouted' /\ RoutesKnown' /\ Ended' /\ Untouched'
    BY <1>1, <2>1, <2>3, Zenon DEF ActiveMeansRouted, RoutesKnown, Ended, Untouched
  <2>6. ServedMeansServed'
    BY <1>1, CleanSame, Zenon
  <2> QED
    BY <2>4, <2>5, <2>6, Zenon
<1> QED
  BY <1>2, <1>3, Zenon DEF ExitApply

(* ExitClient's teardown; without a failure no policy rule is left.        *)
LEMMA TeardownFacts ==
    ASSUME TypeOK, NEW y \in ExitTeardown(pol, tbl)
    PROVE  /\ y.pol \in [Fams -> SUBSET Prefs] /\ y.tbl \subseteq Fams /\ y.bad \in Nat
           /\ (active /\ y.bad = 0) => y.pol = Empty
           /\ ~ active => y.pol = pol
<1>0. pol \in [Fams -> SUBSET Prefs] /\ tbl \subseteq Fams /\ 4 \in Fams /\ 6 \in Fams
  BY Zenon DEF TypeOK, Fams
<1>1. CASE ~ active
  <2>1. y = [pol |-> pol, tbl |-> tbl, bad |-> 0]
    BY <1>1, SMTT(60) DEF ExitTeardown
  <2> QED
    BY <1>0, <1>1, <2>1, Zenon
<1>2. CASE active
  <2> DEFINE R(a, b, s) == [pol |-> [Empty EXCEPT ![4] = a, ![6] = b], tbl |-> s,
                            bad |-> Cardinality(a) + Cardinality(b) + Cardinality(s)]
  <2>0. y \in {R(a, b, s) : a \in SUBSET pol[4], b \in SUBSET pol[6], s \in SUBSET tbl}
    BY <1>2 DEF ExitTeardown
  <2> HIDE DEF R
  <2>1. PICK a \in SUBSET pol[4], b \in SUBSET pol[6], s \in SUBSET tbl : y = R(a, b, s)
    BY <2>0
  <2> DEFINE na == Cardinality(a)
             nb == Cardinality(b)
             ns == Cardinality(s)
             p == [Empty EXCEPT ![4] = a, ![6] = b]
             n == na + nb + ns
  <2>2. a \in SUBSET Prefs /\ b \in SUBSET Prefs /\ s \in SUBSET Fams
    BY <1>0, Zenon
  <2>3. na \in Nat /\ nb \in Nat /\ ns \in Nat /\ (na = 0 => a = {}) /\ (nb = 0 => b = {})
    BY <2>2, RulesFinite, NoneLeft, Zenon
  <2>4. y = [pol |-> p, tbl |-> s, bad |-> n]
    BY <2>1, Zenon DEF R
  <2> HIDE DEF na, nb, ns
  <2>5. n \in Nat /\ (n = 0 => na = 0 /\ nb = 0)
    BY <2>3
  <2>6. p \in [Fams -> SUBSET Prefs] /\ (a = {} /\ b = {} => p = Empty)
    BY <2>2, Zenon DEF Empty, Fams
  <2> HIDE DEF n, p
  <2>7. y.pol = p /\ y.tbl = s /\ y.bad = n
    BY <2>4, Zenon
  <2> QED
    BY <1>2, <2>2, <2>3, <2>5, <2>6, <2>7, Zenon
<1> QED
  BY <1>1, <1>2, Zenon

(* ExitClient.Remove.                                                      *)
LEMMA ExitRemoveStep == ASSUME IInv, ExitRemove PROVE IInv'
<1> USE DEF IInv
<1>1. up /\ active /\ active' = FALSE /\ UNCHANGED <<found, fwd, ipt, net, up, adv, current>>
  BY Zenon DEF ExitRemove
<1>2. PICK y \in ExitTeardown(pol, tbl) : pol' = y.pol /\ tbl' = y.tbl /\ Failing(y.bad)
  BY Zenon DEF ExitRemove
<1>3. /\ pol' \in [Fams -> SUBSET Prefs] /\ tbl' \subseteq Fams /\ y.bad \in Nat
      /\ y.bad = 0 => pol' = Empty
  BY <1>1, <1>2, TeardownFacts, Zenon
<1>4. faults' \in 0 .. MaxFaults /\ failed' \in BOOLEAN /\ (~ failed' => ~ failed /\ y.bad = 0)
  BY <1>2, <1>3, FailingFacts, Zenon
<1>5. TypeOK'
  BY <1>1, <1>3, <1>4, Zenon DEF TypeOK
<1>6. ActiveMeansRouted' /\ RoutesKnown' /\ Ended'
  BY <1>1, <1>4, Zenon DEF ActiveMeansRouted, RoutesKnown, Ended, TypeOK
<1>7. ServedMeansServed' /\ Untouched'
  BY <1>1, <1>3, <1>4, CleanSame, Zenon DEF Untouched
<1> QED
  BY <1>5, <1>6, <1>7, Zenon

(* RouteSync.                                                              *)
LEMMA RouteSyncStep ==
    ASSUME IInv, NEW want \in SUBSET Prefixes, RouteSyncSync(want)
    PROVE  IInv'
<1>1. up /\ UNCHANGED <<found, fwd, ipt, pol, tbl, up, adv, active>>
  BY Zenon DEF RouteSyncSync
<1>2. PICK left \in SUBSET (current \ want), missed \in SUBSET (want \ current) :
          /\ net' = (net \ ((current \ want) \ left)) \cup ((want \ current) \ missed)
          /\ current' = want \ missed
          /\ Failing(Cardinality(left) + Cardinality(missed))
  <2>1. PICK x \in Synced(want) : net' = x.net /\ current' = x.current /\ Failing(x.bad)
    BY Zenon DEF RouteSyncSync
  <2>2. PICK left \in SUBSET (current \ want), missed \in SUBSET (want \ current) :
            x = [net |-> (net \ ((current \ want) \ left)) \cup ((want \ current) \ missed),
                 current |-> want \ missed, bad |-> Cardinality(left) + Cardinality(missed)]
    BY <2>1 DEF Synced
  <2>3. /\ x.net = (net \ ((current \ want) \ left)) \cup ((want \ current) \ missed)
        /\ x.current = want \ missed /\ x.bad = Cardinality(left) + Cardinality(missed)
    BY <2>2, Zenon
  <2> WITNESS left \in SUBSET (current \ want), missed \in SUBSET (want \ current)
  <2> QED
    BY <2>1, <2>3, Zenon
<1> USE DEF IInv
<1>3. left \in SUBSET Prefixes /\ missed \in SUBSET Prefixes
  BY Zenon DEF TypeOK
<1> DEFINE nl == Cardinality(left)
           nm == Cardinality(missed)
<1>4. nl \in Nat /\ nm \in Nat /\ (nl = 0 => left = {}) /\ (nm = 0 => missed = {})
  BY <1>3, NoneLeft, RouterAssumption, Zenon
<1>5. Failing(nl + nm)
  BY <1>2, Zenon
<1> HIDE DEF nl, nm
<1>6. nl + nm \in Nat /\ (nl + nm = 0 => nl = 0 /\ nm = 0)
  BY <1>4
<1>7. /\ faults' \in 0 .. MaxFaults /\ failed' \in BOOLEAN
      /\ ~ failed' => ~ failed /\ left = {} /\ missed = {}
  BY <1>4, <1>5, <1>6, FailingFacts, Zenon
<1>8. TypeOK'
  BY <1>1, <1>2, <1>7, Zenon DEF TypeOK
<1>9. RoutesKnown'
  <2>1. current' \subseteq net'
    BY <1>2, Zenon DEF RoutesKnown
  <2>2. ~ failed' => net' = current'
    BY <1>2, <1>7, Zenon DEF RoutesKnown
  <2> QED
    BY <1>7, <2>1, <2>2, Zenon DEF RoutesKnown
<1>10. ActiveMeansRouted' /\ Ended'
  BY <1>1, Zenon DEF ActiveMeansRouted, Ended
<1>11. ServedMeansServed' /\ Untouched'
  BY <1>1, <1>7, CleanSame, Zenon DEF Untouched
<1> QED
  BY <1>8, <1>9, <1>10, <1>11, Zenon

(* The end of a session, in order and by a crash.                          *)
LEMMA CloseStep == ASSUME IInv, Close PROVE IInv'
<1> USE DEF IInv
<1>1. /\ up /\ up' = FALSE /\ net' = {} /\ current' = {} /\ tbl' = {} /\ active' = FALSE
      /\ found' = found
  BY Zenon DEF Close, RouteSyncClose
<1>2. PICK x \in Closed, y \in ExitTeardown(pol, tbl) :
          Outcome([x EXCEPT !.bad = @ + y.bad]) /\ pol' = y.pol
  BY Zenon DEF Close
<1>3. Keeps(Now, x, found) /\ x.adv.on = {}
  <2>1. PICK z \in Family(Now, 4, {}) : x \in Family(z, 6, {})
    BY Zenon DEF Closed
  <2> QED
    BY <2>1, NowFacts, BothFamilies, Zenon
<1>4. x \in Values /\ x.bad \in Nat
  BY <1>3, Zenon DEF Keeps, Values
<1>5. /\ pol' \in [Fams -> SUBSET Prefs] /\ y.bad \in Nat
      /\ (active /\ y.bad = 0) => pol' = Empty
      /\ ~ active => pol' = pol
  BY <1>2, TeardownFacts, Zenon
<1> DEFINE n == x.bad + y.bad
<1>6. n \in Nat /\ n >= x.bad /\ (n = 0 => y.bad = 0)
  BY <1>4, <1>5
<1>7. fwd' = x.fwd /\ ipt' = x.ipt /\ adv' = x.adv /\ Failing(n)
  <2> DEFINE xx == [x EXCEPT !.bad = n]
  <2>1. Outcome(xx)
    BY <1>2, Zenon
  <2> HIDE DEF n
  <2>2. xx.fwd = x.fwd /\ xx.ipt = x.ipt /\ xx.adv = x.adv /\ xx.bad = n
    BY <1>4, Zenon DEF Values
  <2> HIDE DEF xx
  <2> QED
    BY <2>1, <2>2, Zenon DEF Outcome
<1> HIDE DEF n
<1>8. /\ fwd' \in [Fams -> BOOLEAN] /\ ipt' \in [Fams -> SUBSET Rules] /\ adv' \in Advertisers
      /\ faults' \in 0 .. MaxFaults /\ failed' \in BOOLEAN /\ (~ failed' => ~ failed /\ n = 0)
      /\ ServedMeansServed' /\ (~ failed' => Clean(Now, found)')
  BY <1>1, <1>3, <1>6, <1>7, OutcomeStep, Zenon
<1>9. TypeOK'
  BY <1>1, <1>5, <1>8, Zenon DEF TypeOK, Advertisers
<1>10. ActiveMeansRouted' /\ RoutesKnown' /\ Ended'
  BY <1>1, <1>3, <1>7, Zenon DEF ActiveMeansRouted, RoutesKnown, Ended
<1>11. Untouched'
  BY <1>5, <1>6, <1>8, Zenon DEF Untouched
<1> QED
  BY <1>8, <1>9, <1>10, <1>11, Zenon

(* The daemon dies.                                                        *)
LEMMA CrashStep == ASSUME IInv, Crash PROVE IInv'
<1> USE DEF IInv
<1>1. /\ up' = FALSE /\ failed' = TRUE /\ tbl' = {} /\ net' = {}
      /\ adv' = NewAdvertiser /\ active' = FALSE /\ current' = {}
      /\ UNCHANGED <<found, fwd, ipt, pol>>
  BY Zenon DEF Crash
<1>2. faults' \in 0 .. MaxFaults
  BY RouterAssumption, SMTT(60) DEF Crash, TypeOK
<1>3. NewAdvertiser \in Advertisers /\ NewAdvertiser.on = {}
  BY Zenon DEF NewAdvertiser, Advertisers
<1>4. TypeOK'
  BY <1>1, <1>2, <1>3, Zenon DEF TypeOK, Advertisers
<1>5. ServedMeansServed' /\ ActiveMeansRouted' /\ RoutesKnown' /\ Ended' /\ Untouched'
  BY <1>1, <1>3, Zenon DEF ServedMeansServed, ActiveMeansRouted, RoutesKnown, Ended, Untouched
<1> QED
  BY <1>4, <1>5, Zenon

-----------------------------------------------------------------------------
(* Theorems.                                                               *)

(* A host no daemon has touched satisfies the invariant.                   *)
LEMMA InitIInv == Init => IInv
<1> SUFFICES ASSUME Init PROVE IInv
  BY Zenon
<1> USE DEF Init
<1>1. NewAdvertiser \in Advertisers /\ NewAdvertiser.on = {}
  BY Zenon DEF NewAdvertiser, Advertisers
<1>2. Empty \in [Fams -> SUBSET Rules] /\ Empty \in [Fams -> SUBSET Prefs] /\ \A f \in Fams : Empty[f] = {}
  BY Zenon DEF Empty
<1>3. TypeOK
  <2>1. faults \in 0 .. MaxFaults
    BY RouterAssumption
  <2>2. adv \in Advertisers /\ ipt \in [Fams -> SUBSET Rules] /\ pol \in [Fams -> SUBSET Prefs]
    BY <1>1, <1>2, Zenon
  <2>3. /\ found \in [Fams -> BOOLEAN] /\ fwd \in [Fams -> BOOLEAN]
        /\ tbl \subseteq Fams /\ net \subseteq Prefixes /\ current \subseteq Prefixes
        /\ up \in BOOLEAN /\ active \in BOOLEAN /\ failed \in BOOLEAN
    BY Zenon
  <2> QED
    BY <2>1, <2>2, <2>3, Zenon DEF TypeOK, Advertisers
<1>4. ServedMeansServed /\ ActiveMeansRouted /\ RoutesKnown /\ Ended
  BY <1>1, Zenon DEF ServedMeansServed, ActiveMeansRouted, RoutesKnown, Ended
<1>5. Untouched
  BY <1>1, <1>2, Zenon DEF Untouched, Clean, Now
<1> QED
  BY <1>3, <1>4, <1>5, Zenon DEF IInv

(* One case for each action.                                               *)
LEMMA NextIInv == IInv /\ [Next]_vars => IInv'
<1> SUFFICES ASSUME IInv, [Next]_vars PROVE IInv'
  BY Zenon
<1>1. CASE Start
  BY <1>1, StartStep, Zenon
<1>2. CASE Close
  BY <1>2, CloseStep, Zenon
<1>3. CASE Crash
  BY <1>3, CrashStep, Zenon
<1>4. ASSUME NEW want \in SUBSET Fams, AdvertiserApply(want) PROVE IInv'
  BY <1>4, AdvertiserApplyStep, Zenon
<1>5. ASSUME NEW v6 \in BOOLEAN, ExitApply(v6) PROVE IInv'
  BY <1>5, ExitApplyStep, Zenon
<1>6. CASE ExitRemove
  BY <1>6, ExitRemoveStep, Zenon
<1>7. ASSUME NEW want \in SUBSET Prefixes, RouteSyncSync(want) PROVE IInv'
  BY <1>7, RouteSyncStep, Zenon
<1>8. CASE UNCHANGED vars
  <2>1. Now' = Now
    BY <1>8, Zenon DEF vars, host, Now
  <2> QED
    BY <1>8, <2>1, Zenon DEF vars, host, IInv, TypeOK, ServedMeansServed, ActiveMeansRouted, RoutesKnown,
                      Ended, Untouched, Clean
<1> QED
  BY <1>1, <1>2, <1>3, <1>4, <1>5, <1>6, <1>7, <1>8, Zenon DEF Next

(* The invariant holds in every reachable state.                           *)
LEMMA IInvHolds == Spec => []IInv
BY InitIInv, NextIInv, PTL DEF Spec

(* However many commands fail, and however often the daemon dies, what the *)
(* Advertiser, the ExitClient and RouteSync believe of the host is so, for *)
(* any finite set of prefixes.                                             *)
THEOREM ObjectsTruthful == Spec => []BeliefsTrue
<1>1. IInv => BeliefsTrue
  BY Zenon DEF IInv, BeliefsTrue
<1> QED
  BY <1>1, IInvHolds, PTL

(* After any number of sessions in which no command failed and none died,  *)
(* the host's sysctls, iptables and policy rules are as first found.       *)
THEOREM HostIsRestored == Spec => []HostRestored
<1>1. ASSUME IInv PROVE HostRestored
  <2> SUFFICES ASSUME ~ up, ~ failed PROVE fwd = found /\ ipt = Empty /\ pol = Empty
    BY Zenon DEF HostRestored
  <2>1. Clean(Now, found) /\ pol = Empty /\ adv.on = {}
    BY <1>1, Zenon DEF IInv, Untouched, Ended
  <2>2. \A f \in Fams : fwd[f] = found[f] /\ ipt[f] = {}
    BY <2>1, Zenon DEF Clean, Now
  <2>3. fwd \in [Fams -> BOOLEAN] /\ found \in [Fams -> BOOLEAN] /\ ipt \in [Fams -> SUBSET Rules]
    BY <1>1, Zenon DEF IInv, TypeOK
  <2> QED
    BY <2>1, <2>2, <2>3, SMTT(60) DEF Empty
<1> QED
  BY <1>1, IInvHolds, PTL
=============================================================================
