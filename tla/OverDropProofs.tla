--------------------------- MODULE OverDropProofs ---------------------------
(***************************************************************************)
(* File transfer is right for any number of transfers and of files, with   *)
(* broken connections and receiver restarts anywhere: what is received was *)
(* sent as long as no file is edited in place between two attempts,        *)
(* nothing is overwritten as long as files of one name have one size, and  *)
(* under both conditions every success the sender saw has its file.        *)
(***************************************************************************)
EXTENDS OverDrop, FiniteSetTheorems, FunctionTheorems, WellFoundedInduction, NaturalsInduction, TLAPS

\* A part file's name determines the edition: nobody replaces a file by another
\* of the same name and size.
OneEdition == \A f, g \in Files : paths(f) = paths(g) => f = g

\* Files of one name have one size, so that busy covers the name.
OneSize == \A f, g \in Files : NameOf[f] = NameOf[g] => SizeOf[f] = SizeOf[g]

Handling(t) == put[t] \in {"copy", "rename"}

Stored == [bytes : Seq(Files), by : Transfers]

DropTypes ==
    /\ TypeOK
    /\ offset \in [Transfers -> Nat]
    /\ parts \in [DOMAIN parts -> Seq(Files)]
    /\ inbox \in [DOMAIN inbox -> Stored]

\* A transfer has a file once it started, and a handler once it was told an offset.
Started ==
    \A t \in Transfers :
        /\ send[t] = "new" <=> file[t] = NoFile
        /\ send[t] \in {"new", "ask"} => put[t] = "none"

\* One handler at a time has a part open.
Exclusive == \A t, u \in Transfers : Handling(t) /\ Handling(u) /\ Key(t) = Key(u) => t = u

\* ... and the part is as long as what its handler has read.
StagedBy(t) ==
    /\ Handling(t) => Key(t) \in DOMAIN parts /\ Len(parts[Key(t)]) = offset[t]
    /\ put[t] = "rename" => offset[t] = SizeOf[file[t]]
                            /\ dst[t] \in Paths /\ dst[t][1] = NameOf[file[t]]

Staged == \A t \in Transfers : StagedBy(t)

\* The bytes s come from files whose part is k.
From(s, k) == \A i \in 1 .. Len(s) : paths(s[i]) = k

PartBytes == \A k \in DOMAIN parts : From(parts[k], k)

\* A received file has the name and the length of the one its transfer was for, and
\* bytes staged under that name and length.
Received ==
    \A p \in DOMAIN inbox :
        LET t == inbox[p].by IN
        /\ put[t] = "returned" /\ file[t] \in Files
        /\ p[1] = NameOf[file[t]]
        /\ Len(inbox[p].bytes) = SizeOf[file[t]] /\ From(inbox[p].bytes, Key(t))

\* A transfer brings one file.
Brought == \A p, q \in DOMAIN inbox : inbox[p].by = inbox[q].by => p = q

DropInv == DropTypes /\ Started /\ Exclusive /\ Staged /\ PartBytes /\ Received /\ Brought

\* While files of one name have one size, the name a handler found stays free.
Free == \A t \in Transfers : put[t] = "rename" => dst[t] \notin DOMAIN inbox

\* A transfer that succeeded has its file in the inbox.
Arrived == \A t \in Transfers : send[t] = "done" => \E p \in DOMAIN inbox : inbox[p].by = t

-----------------------------------------------------------------------------
(* Operators.                                                              *)

LEMMA Update ==
    ASSUME NEW D, NEW T, NEW f \in [D -> T], NEW x, NEW v \in T
    PROVE  /\ [f EXCEPT ![x] = v] \in [D -> T]
           /\ \A y \in D : [f EXCEPT ![x] = v][y] = IF y = x THEN v ELSE f[y]
  BY Zenon

LEMMA WithIs ==
    ASSUME NEW f, NEW x, NEW v
    PROVE  /\ DOMAIN With(f, x, v) = DOMAIN f \cup {x}
           /\ With(f, x, v)[x] = v
           /\ \A y \in DOMAIN f : y # x => With(f, x, v)[y] = f[y]
           /\ \A T : f \in [DOMAIN f -> T] /\ v \in T => With(f, x, v) \in [DOMAIN f \cup {x} -> T]
  BY Zenon DEF With

LEMMA WithoutIs ==
    ASSUME NEW f, NEW x
    PROVE  /\ DOMAIN Without(f, x) = DOMAIN f \ {x}
           /\ \A y \in DOMAIN f \ {x} : Without(f, x)[y] = f[y]
           /\ \A T : f \in [DOMAIN f -> T] => Without(f, x) \in [DOMAIN f \ {x} -> T]
  BY Zenon DEF Without

Statuses == {"new", "ask", "put", "done", "error"}

LEMMA AnswerIs ==
    ASSUME DropTypes, NEW t \in Transfers, NEW status \in Statuses, Answer(t, status)
    PROVE  /\ send' \in [Transfers -> Statuses]
           /\ \A u \in Transfers : send'[u] = IF u = t /\ send[t] = "put" THEN status ELSE send[u]
<1> DEFINE v == IF send[t] = "put" THEN status ELSE send[t]
<1>1. send \in [Transfers -> Statuses]
  BY Zenon DEF DropTypes, TypeOK, Statuses
<1>2. v \in Statuses /\ send' = [send EXCEPT ![t] = v]
  BY <1>1, Zenon DEF Answer
<1> HIDE DEF v
<1>3. \A u \in Transfers : send'[u] = IF u = t THEN v ELSE send[u]
  BY <1>1, <1>2, Update, Zenon
<1> QED
  BY <1>1, <1>2, <1>3, Update, Zenon DEF v

(* The bytes of a part, one more.                                          *)
LEMMA OneMore ==
    ASSUME NEW s \in Seq(Files), NEW b \in Files, From(s, paths(b))
    PROVE  /\ Append(s, b) \in Seq(Files) /\ Len(Append(s, b)) = Len(s) + 1
           /\ From(Append(s, b), paths(b))
<1>1. Append(s, b) \in Seq(Files) /\ Len(Append(s, b)) = Len(s) + 1 /\ Len(s) \in Nat
  OBVIOUS
<1>2. \A i \in 1 .. Len(s) + 1 : Append(s, b)[i] = IF i = Len(s) + 1 THEN b ELSE s[i]
  OBVIOUS
<1>3. \A i \in 1 .. Len(s) + 1 : i = Len(s) + 1 \/ i \in 1 .. Len(s)
  BY <1>1
<1>4. \A i \in 1 .. Len(s) + 1 : paths(Append(s, b)[i]) = paths(b)
  <2> SUFFICES ASSUME NEW i \in 1 .. Len(s) + 1 PROVE paths(Append(s, b)[i]) = paths(b)
    BY Zenon
  <2>1. CASE i = Len(s) + 1
    BY <1>2, <2>1, Zenon
  <2>2. CASE i # Len(s) + 1
    <3>1. Append(s, b)[i] = s[i] /\ i \in 1 .. Len(s)
      BY <1>2, <1>3, <2>2, Zenon
    <3>2. paths(s[i]) = paths(b)
      BY <3>1, Zenon DEF From
    <3> QED
      BY <3>1, <3>2, Zenon
  <2> QED
    BY <2>1, <2>2, Zenon
<1> QED
  BY <1>1, <1>4, Zenon DEF From

(* Among variants of a name there is a free one, and a first one: each     *)
(* transfer brings one file at most, and there are more variants than      *)
(* transfers.                                                              *)
LEMMA LeastFree ==
    ASSUME NEW S \in SUBSET Nat, S # {}
    PROVE  \E n \in S : \A m \in S : n <= m
<1> DEFINE R == OpToRel(<, Nat)
<1>1. PICK n \in S : \A m \in S : ~ (<<m, n>> \in R)
  BY WFMin, NatLessThanWellFounded, Zenon
<1>2. \A m \in S : ~ (m < n)
  BY <1>1, Zenon DEF OpToRel
<1> QED
  BY <1>2

LEMMA SomeFree ==
    ASSUME DropInv, NEW name \in Names
    PROVE  \E n \in 1 .. Cardinality(Transfers) + 1 : <<name, n>> \notin DOMAIN inbox
<1> DEFINE N == Cardinality(Transfers)
<1>1. N \in Nat /\ IsFiniteSet(Transfers)
  BY DropAssumption, FS_CardinalityType, Zenon
<1>2. IsFiniteSet(1 .. N + 1) /\ Cardinality(1 .. N + 1) = N + 1
  <2>1. 1 \in Int /\ N + 1 \in Int /\ ~ (1 > N + 1) /\ (N + 1) - 1 + 1 = N + 1
    BY <1>1
  <2> HIDE DEF N
  <2> QED
    BY <2>1, FS_Interval, Zenon
<1>3. SUFFICES ASSUME \A n \in 1 .. N + 1 : <<name, n>> \in DOMAIN inbox PROVE FALSE
  BY Zenon
<1> DEFINE by == [n \in 1 .. N + 1 |-> inbox[<<name, n>>].by]
<1>4. by \in [1 .. N + 1 -> Transfers]
  BY <1>3, Zenon DEF DropInv, DropTypes, Stored
<1>5. N < N + 1
  BY <1>1
<1> HIDE DEF N, by
<1>6. PICK m \in 1 .. N + 1, n \in 1 .. N + 1 : m # n /\ by[m] = by[n]
  BY <1>1, <1>2, <1>4, <1>5, FS_PigeonHole, Zenon DEF N
<1>7. <<name, m>> = <<name, n>>
  BY <1>3, <1>6, Zenon DEF by, DropInv, Brought
<1> QED
  BY <1>6, <1>7, Zenon

LEMMA DedupeFinds ==
    ASSUME DropInv, NEW name \in Names
    PROVE  LET p == dedupePath(name) IN p \in Paths /\ p[1] = name /\ p \notin DOMAIN inbox
<1> DEFINE N == Cardinality(Transfers)
           S == {n \in 1 .. N + 1 : <<name, n>> \notin DOMAIN inbox}
<1>1. N \in Nat
  BY DropAssumption, FS_CardinalityType, Zenon
<1>2. S # {} /\ S \in SUBSET Nat
  BY <1>1, SomeFree
<1>3. PICK n \in S : \A m \in S : n <= m
  <2> HIDE DEF S
  <2> QED
    BY <1>2, LeastFree, Zenon
<1>4. n \in 1 .. N + 1 /\ <<name, n>> \notin DOMAIN inbox
  BY Zenon
<1>5. \A i \in 1 .. n - 1 : <<name, i>> \in DOMAIN inbox
  <2> SUFFICES ASSUME NEW i \in 1 .. n - 1, <<name, i>> \notin DOMAIN inbox PROVE FALSE
    BY Zenon
  <2>1. i \in S
    BY <1>1, <1>4
  <2> QED
    BY <1>1, <1>3, <1>4, <2>1
<1> DEFINE q == <<name, n>>
           Found(p) == /\ p[1] = name /\ p \notin DOMAIN inbox
                       /\ \A i \in 1 .. p[2] - 1 : <<name, i>> \in DOMAIN inbox
<1>6. q \in Paths /\ Found(q)
  BY <1>4, <1>5, Zenon DEF Paths
<1>7. dedupePath(name) = CHOOSE p \in Paths : Found(p)
  BY Zenon DEF dedupePath
<1>8. dedupePath(name) \in Paths /\ Found(dedupePath(name))
  <2> HIDE DEF Found, q
  <2> QED
    BY <1>6, <1>7, Zenon
<1> QED
  BY <1>8, Zenon

-----------------------------------------------------------------------------
(* Frames: what a step keeps when it leaves some of the state alone.       *)

(* No handler starts or ends, and those that run keep their files.         *)
LEMMA SameHandlers ==
    ASSUME DropInv, \A u \in Transfers : Handling(u)' <=> Handling(u),
           \A u \in Transfers : Handling(u) => file'[u] = file[u], busy' = busy
    PROVE  /\ busy' = {Key(u) : u \in {v \in Transfers : put[v] \in {"copy", "rename"}}}'
           /\ Exclusive'
<1>1. \A u \in Transfers : Handling(u) => Key(u)' = Key(u)
  BY Zenon DEF Key
<1>2. Exclusive'
  BY <1>1, Zenon DEF DropInv, Exclusive
<1>3. busy = {Key(u) : u \in {v \in Transfers : Handling(v)}}
  BY Zenon DEF DropInv, DropTypes, TypeOK, Handling
<1>4. {Key(u) : u \in {v \in Transfers : Handling(v)}}' = {Key(u) : u \in {v \in Transfers : Handling(v)}}
  BY <1>1, Zenon
<1>5. busy' = {Key(u) : u \in {v \in Transfers : Handling(v)}}'
  BY <1>3, <1>4, Zenon
<1> QED
  BY <1>2, <1>5, Zenon DEF Handling

(* One handler returns.                                                    *)
LEMMA OneReturns ==
    ASSUME DropInv, NEW t \in Transfers, Handling(t), Return(t), file' = file
    PROVE  /\ busy' = {Key(u) : u \in {v \in Transfers : put[v] \in {"copy", "rename"}}}'
           /\ Exclusive'
           /\ put' \in [Transfers -> {"none", "copy", "rename", "returned"}]
           /\ put'[t] = "returned"
           /\ \A u \in Transfers : u # t => put'[u] = put[u]
<1>1. /\ put' \in [Transfers -> {"none", "copy", "rename", "returned"}]
      /\ put'[t] = "returned"
      /\ \A u \in Transfers : u # t => put'[u] = put[u]
  BY Zenon DEF Return, DropInv, DropTypes, TypeOK
<1>2. ~ Handling(t)'
  BY <1>1, Zenon DEF Handling
<1>3. \A u \in Transfers : u # t => (Handling(u)' <=> Handling(u))
  BY <1>1, Zenon DEF Handling
<1>4. \A u \in Transfers : Key(u)' = Key(u)
  BY Zenon DEF Key
<1>5. Exclusive'
  BY <1>2, <1>3, <1>4, Zenon DEF DropInv, Exclusive
<1>6. busy = {Key(u) : u \in {v \in Transfers : Handling(v)}} /\ busy' = busy \ {Key(t)}
  BY Zenon DEF DropInv, DropTypes, TypeOK, Handling, Return
<1>7. \A u \in Transfers : Handling(u) /\ u # t => Key(u) # Key(t)
  BY Zenon DEF DropInv, Exclusive
<1>8. busy' = {Key(u)' : u \in {v \in Transfers : Handling(v)'}}
  BY <1>2, <1>3, <1>4, <1>6, <1>7, Zenon
<1> QED
  BY <1>1, <1>5, <1>8, Zenon DEF Handling

(* A handler starts on a part nobody has open.                             *)
LEMMA OneBegins ==
    ASSUME DropInv, NEW t \in Transfers, put' = [put EXCEPT ![t] = "copy"],
           Key(t) \notin busy, busy' = busy \cup {Key(t)}, file' = file
    PROVE  /\ busy' = {Key(u) : u \in {v \in Transfers : put[v] \in {"copy", "rename"}}}'
           /\ Exclusive'
           /\ put' \in [Transfers -> {"none", "copy", "rename", "returned"}]
           /\ put'[t] = "copy"
           /\ \A u \in Transfers : u # t => put'[u] = put[u]
<1>1. /\ put' \in [Transfers -> {"none", "copy", "rename", "returned"}]
      /\ put'[t] = "copy"
      /\ \A u \in Transfers : u # t => put'[u] = put[u]
  BY Zenon DEF DropInv, DropTypes, TypeOK
<1>2. Handling(t)'
  BY <1>1, Zenon DEF Handling
<1>3. \A u \in Transfers : u # t => (Handling(u)' <=> Handling(u))
  BY <1>1, Zenon DEF Handling
<1>4. \A u \in Transfers : Key(u)' = Key(u)
  BY Zenon DEF Key
<1>5. busy = {Key(u) : u \in {v \in Transfers : Handling(v)}}
  BY Zenon DEF DropInv, DropTypes, TypeOK, Handling
<1>6. \A u \in Transfers : Handling(u) => Key(u) # Key(t)
  BY <1>5, Zenon
<1>7. Exclusive'
  BY <1>3, <1>4, <1>6, Zenon DEF DropInv, Exclusive
<1>8. busy' = {Key(u)' : u \in {v \in Transfers : Handling(v)'}}
  BY <1>2, <1>3, <1>4, <1>5, <1>6, Zenon
<1> QED
  BY <1>1, <1>7, <1>8, Zenon DEF Handling

(* The inbox stays, and the transfers that filled it too.                  *)
LEMMA SameInbox ==
    ASSUME DropInv, inbox' = inbox,
           \A u \in Transfers : put[u] = "returned" => put'[u] = "returned" /\ file'[u] = file[u]
    PROVE  /\ Received' /\ Brought'
           /\ DOMAIN inbox' \subseteq Paths /\ inbox' \in [DOMAIN inbox' -> Stored]
<1>1. DOMAIN inbox \subseteq Paths /\ inbox \in [DOMAIN inbox -> Stored] /\ Brought /\ Received
  BY Zenon DEF DropInv, DropTypes, TypeOK
<1>2. \A p \in DOMAIN inbox : inbox[p].by \in Transfers
  BY <1>1, Zenon DEF Stored
<1>3. Received'
  BY <1>1, <1>2, Zenon DEF Received, Key
<1> QED
  BY <1>1, <1>3, Zenon DEF Brought

(* The parts stay, and so do the handlers and what they have read.         *)
LEMMA SameParts ==
    ASSUME DropInv, parts' = parts,
           \A u \in Transfers : Handling(u)' =>
               put'[u] = put[u] /\ file'[u] = file[u] /\ offset'[u] = offset[u] /\ dst'[u] = dst[u]
    PROVE  /\ Staged' /\ PartBytes'
           /\ DOMAIN parts' \subseteq {paths(f) : f \in Files} /\ parts' \in [DOMAIN parts' -> Seq(Files)]
<1>1. /\ DOMAIN parts \subseteq {paths(f) : f \in Files} /\ parts \in [DOMAIN parts -> Seq(Files)]
      /\ PartBytes /\ Staged
  BY Zenon DEF DropInv, DropTypes, TypeOK
<1>2. \A u \in Transfers : put'[u] = "rename" => Handling(u)'
  BY Zenon DEF Handling
<1>3. \A u \in Transfers : Handling(u)' => Handling(u)
  BY Zenon DEF Handling
<1>4. Staged'
  BY <1>1, <1>2, <1>3, Zenon DEF Staged, StagedBy, Key
<1> QED
  BY <1>1, <1>4, Zenon DEF PartBytes
(* A handler the step does not touch keeps its part, if that is not touched. *)
LEMMA KeepsPart ==
    ASSUME DropInv, NEW u \in Transfers, file' = file, dst'[u] = dst[u],
           put'[u] = put[u], offset'[u] = offset[u],
           Handling(u) /\ Key(u) \in DOMAIN parts
               => Key(u) \in DOMAIN parts' /\ parts'[Key(u)] = parts[Key(u)]
    PROVE  StagedBy(u)'
<1>1. Key(u)' = Key(u) /\ (Handling(u)' <=> Handling(u)) /\ StagedBy(u)
  BY Zenon DEF Key, Handling, DropInv, Staged
<1> QED
  BY <1>1, Zenon DEF StagedBy

-----------------------------------------------------------------------------
(* Every step keeps DropInv.                                               *)

(* The types of what a step leaves alone.                                  *)
LEMMA Known ==
    ASSUME DropInv
    PROVE  /\ file \in [Transfers -> Files \cup {NoFile}] /\ send \in [Transfers -> Statuses]
           /\ put \in [Transfers -> {"none", "copy", "rename", "returned"}]
           /\ dst \in [Transfers -> Paths \cup {NoPath}] /\ offset \in [Transfers -> Nat]
           /\ Started
           /\ \A t \in Transfers : send[t] # "new" => file[t] \in Files /\ Key(t) \in {paths(f) : f \in Files}
           /\ \A t \in Transfers : put[t] # "none" => send[t] # "new"
           /\ \A t \in Transfers : put[t] = "none" => ~ Handling(t)
<1>1. /\ file \in [Transfers -> Files \cup {NoFile}] /\ send \in [Transfers -> Statuses]
      /\ put \in [Transfers -> {"none", "copy", "rename", "returned"}]
      /\ dst \in [Transfers -> Paths \cup {NoPath}] /\ offset \in [Transfers -> Nat]
      /\ Started
  BY Zenon DEF DropInv, DropTypes, TypeOK, Statuses
<1>2. \A t \in Transfers : send[t] # "new" => file[t] \in Files
  BY <1>1, Zenon DEF Started
<1>3. \A t \in Transfers : put[t] # "none" => send[t] # "new"
  BY <1>1, Zenon DEF Started
<1>4. \A t \in Transfers : put[t] = "none" => ~ Handling(t)
  BY Zenon DEF Handling
<1> QED
  BY <1>1, <1>2, <1>3, <1>4, Zenon DEF Key

LEMMA StartDropStep ==
    ASSUME DropInv, NEW t \in Transfers, NEW f \in Files, StartDrop(t, f)
    PROVE  DropInv'
<1>1. /\ file' \in [Transfers -> Files \cup {NoFile}] /\ file'[t] = f
      /\ \A u \in Transfers : u # t => file'[u] = file[u]
  BY Known, Zenon DEF StartDrop
<1>2. /\ send' \in [Transfers -> Statuses] /\ send'[t] = "ask"
      /\ \A u \in Transfers : u # t => send'[u] = send[u]
  BY Known, Zenon DEF StartDrop, Statuses
<1>3. put[t] = "none" /\ UNCHANGED <<offset, put, dst, parts, busy, inbox>> /\ f # NoFile
  BY Known, DropAssumption, Zenon DEF StartDrop, Started
<1>4. put[t] # "returned" /\ ~ Handling(t)
  BY <1>3, Known, Zenon
<1>5. \A u \in Transfers : Handling(u)' <=> Handling(u)
  BY <1>3, Zenon DEF Handling
<1>6. \A u \in Transfers : (Handling(u) \/ put[u] = "returned") => file'[u] = file[u]
  BY <1>1, <1>4, Zenon
<1>7. /\ busy' = {Key(u) : u \in {v \in Transfers : put[v] \in {"copy", "rename"}}}'
      /\ Exclusive'
  BY <1>3, <1>5, <1>6, SameHandlers, Zenon
<1>8. /\ Received' /\ Brought'
      /\ DOMAIN inbox' \subseteq Paths /\ inbox' \in [DOMAIN inbox' -> Stored]
  BY <1>3, <1>6, SameInbox, Zenon
<1>9. /\ Staged' /\ PartBytes'
      /\ DOMAIN parts' \subseteq {paths(g) : g \in Files} /\ parts' \in [DOMAIN parts' -> Seq(Files)]
  BY <1>3, <1>5, <1>6, SameParts, Zenon
<1>10. Started'
  BY <1>1, <1>2, <1>3, Known, Zenon DEF Started
<1> QED
  BY <1>1, <1>2, <1>3, <1>7, <1>8, <1>9, <1>10, Known, Zenon DEF DropInv, DropTypes, TypeOK, Statuses

LEMMA HandleOffsetStep ==
    ASSUME DropInv, NEW t \in Transfers, handleOffset(t)
    PROVE  DropInv'
<1> DEFINE off == IF Size(Key(t)) > SizeOf[file[t]] THEN 0 ELSE Size(Key(t))
<1>1. off \in Nat
  <2>1. \A k \in DOMAIN parts : parts[k] \in Seq(Files)
    BY Zenon DEF DropInv, DropTypes
  <2>2. \A k \in DOMAIN parts : Len(parts[k]) \in Nat
    BY <2>1
  <2>3. Size(Key(t)) \in Nat
    BY <2>2, Zenon DEF Size
  <2> QED
    BY <2>3, Zenon
<1>2. offset' = [offset EXCEPT ![t] = off]
  BY Zenon DEF handleOffset
<1> HIDE DEF off
<1>3. /\ offset' \in [Transfers -> Nat]
      /\ \A u \in Transfers : u # t => offset'[u] = offset[u]
  BY <1>1, <1>2, Known, Zenon
<1>4. /\ send' \in [Transfers -> Statuses] /\ send'[t] = "put"
      /\ \A u \in Transfers : u # t => send'[u] = send[u]
  BY Known, Zenon DEF handleOffset, Statuses
<1>5. put[t] = "none" /\ UNCHANGED <<file, put, dst, parts, busy, inbox>> /\ send[t] = "ask"
  BY Known, Zenon DEF handleOffset, Started
<1>6. ~ Handling(t)
  BY <1>5, Known, Zenon
<1>7. \A u \in Transfers : Handling(u)' <=> Handling(u)
  BY <1>5, Zenon DEF Handling
<1>8. /\ busy' = {Key(u) : u \in {v \in Transfers : put[v] \in {"copy", "rename"}}}'
      /\ Exclusive'
  BY <1>5, <1>7, SameHandlers, Zenon
<1>9. /\ Received' /\ Brought'
      /\ DOMAIN inbox' \subseteq Paths /\ inbox' \in [DOMAIN inbox' -> Stored]
  BY <1>5, SameInbox, Zenon
<1>10. /\ Staged' /\ PartBytes'
       /\ DOMAIN parts' \subseteq {paths(g) : g \in Files} /\ parts' \in [DOMAIN parts' -> Seq(Files)]
  BY <1>3, <1>5, <1>6, <1>7, SameParts, Zenon
<1>11. Started'
  BY <1>4, <1>5, Known, Zenon DEF Started
<1> QED
  BY <1>3, <1>4, <1>5, <1>8, <1>9, <1>10, <1>11, Known, Zenon DEF DropInv, DropTypes, TypeOK, Statuses

LEMMA InterruptedStep ==
    ASSUME DropInv, NEW t \in Transfers, Interrupted(t)
    PROVE  DropInv'
<1>1. /\ send' \in [Transfers -> Statuses] /\ send'[t] = "error"
      /\ \A u \in Transfers : u # t => send'[u] = send[u]
  BY Known, Zenon DEF Interrupted, Statuses
<1>2. UNCHANGED <<file, offset, put, dst, parts, busy, inbox>> /\ send[t] # "new"
  BY Zenon DEF Interrupted
<1>3. \A u \in Transfers : Handling(u)' <=> Handling(u)
  BY <1>2, Zenon DEF Handling
<1>4. /\ busy' = {Key(u) : u \in {v \in Transfers : put[v] \in {"copy", "rename"}}}'
      /\ Exclusive'
  BY <1>2, <1>3, SameHandlers, Zenon
<1>5. /\ Received' /\ Brought'
      /\ DOMAIN inbox' \subseteq Paths /\ inbox' \in [DOMAIN inbox' -> Stored]
  BY <1>2, SameInbox, Zenon
<1>6. /\ Staged' /\ PartBytes'
      /\ DOMAIN parts' \subseteq {paths(g) : g \in Files} /\ parts' \in [DOMAIN parts' -> Seq(Files)]
  BY <1>2, SameParts, Zenon
<1>7. Started'
  BY <1>1, <1>2, Known, Zenon DEF Started
<1> QED
  BY <1>1, <1>2, <1>4, <1>5, <1>6, <1>7, Known, Zenon DEF DropInv, DropTypes, TypeOK, Statuses


(* A handler that refuses returns at once; only the part's file may be new. *)
LEMMA Refused ==
    ASSUME DropInv, NEW t \in Transfers, send[t] = "put", put[t] = "none",
           put' = [put EXCEPT ![t] = "returned"], Answer(t, "error"),
           UNCHANGED <<file, offset, dst, busy, inbox>>,
           Staged', PartBytes', DOMAIN parts' \subseteq {paths(g) : g \in Files},
           parts' \in [DOMAIN parts' -> Seq(Files)]
    PROVE  DropInv'
<1>1. /\ put' \in [Transfers -> {"none", "copy", "rename", "returned"}] /\ put'[t] = "returned"
      /\ \A u \in Transfers : u # t => put'[u] = put[u]
  BY Known, Zenon
<1>2. /\ send' \in [Transfers -> Statuses]
      /\ \A u \in Transfers : send'[u] = IF u = t /\ send[t] = "put" THEN "error" ELSE send[u]
  BY AnswerIs, Zenon DEF Statuses, DropInv
<1>3. \A u \in Transfers : Handling(u)' <=> Handling(u)
  <2>1. ~ Handling(t) /\ ~ Handling(t)'
    BY <1>1, Zenon DEF Handling
  <2> QED
    BY <1>1, <2>1, Zenon DEF Handling
<1>4. /\ busy' = {Key(u) : u \in {v \in Transfers : put[v] \in {"copy", "rename"}}}'
      /\ Exclusive'
  BY <1>3, SameHandlers, Zenon
<1>5. /\ Received' /\ Brought'
      /\ DOMAIN inbox' \subseteq Paths /\ inbox' \in [DOMAIN inbox' -> Stored]
  BY <1>1, SameInbox, Zenon
<1>6. Started'
  BY <1>1, <1>2, Known DEF Started
<1> QED
  BY <1>1, <1>2, <1>4, <1>5, <1>6, Known, Zenon DEF DropInv, DropTypes, TypeOK, Statuses

LEMMA PutBusyStep ==
    ASSUME DropInv, NEW t \in Transfers, PutBusy(t)
    PROVE  DropInv'
<1>1. /\ send[t] = "put" /\ put[t] = "none" /\ put' = [put EXCEPT ![t] = "returned"]
      /\ Answer(t, "error") /\ UNCHANGED <<file, offset, dst, parts, busy, inbox>>
  BY Zenon DEF PutBusy
<1>2. /\ put'[t] = "returned"
      /\ \A u \in Transfers : u # t => put'[u] = put[u]
  BY <1>1, Known, Zenon
<1>3. ~ Handling(t)'
  BY <1>2, Zenon DEF Handling
<1>4. /\ Staged' /\ PartBytes'
      /\ DOMAIN parts' \subseteq {paths(g) : g \in Files} /\ parts' \in [DOMAIN parts' -> Seq(Files)]
  BY <1>1, <1>2, <1>3, SameParts, Zenon
<1> QED
  BY <1>1, <1>4, Refused, Zenon

(* A part is opened: it keeps its bytes, and a new one is empty.           *)
LEMMA OpenedIs ==
    ASSUME DropInv, NEW t \in Transfers, send[t] = "put"
    PROVE  LET q == Opened(t) IN
           /\ DOMAIN q \subseteq {paths(g) : g \in Files} /\ q \in [DOMAIN q -> Seq(Files)]
           /\ \A k \in DOMAIN q : From(q[k], k)
           /\ \A k \in DOMAIN parts : k \in DOMAIN q /\ q[k] = parts[k]
           /\ Key(t) \in DOMAIN q /\ Len(q[Key(t)]) = Size(Key(t))
<1>1. /\ DOMAIN parts \subseteq {paths(f) : f \in Files} /\ parts \in [DOMAIN parts -> Seq(Files)]
      /\ \A k \in DOMAIN parts : From(parts[k], k)
  BY Zenon DEF DropInv, DropTypes, TypeOK, PartBytes
<1>2. CASE Key(t) \in DOMAIN parts
  BY <1>1, <1>2, Zenon DEF Opened, Size
<1>3. CASE Key(t) \notin DOMAIN parts
  <2> DEFINE q == With(parts, Key(t), <<>>)
  <2>1. Key(t) \in {paths(f) : f \in Files}
    BY Known, Zenon
  <2>2. Len(<<>>) = 0 /\ <<>> \in Seq(Files)
    OBVIOUS
  <2>3. From(<<>>, Key(t))
    BY <2>2 DEF From
  <2>4. /\ DOMAIN q = DOMAIN parts \cup {Key(t)} /\ q[Key(t)] = <<>>
        /\ \A k \in DOMAIN parts : k # Key(t) => q[k] = parts[k]
    BY Zenon DEF With
  <2>5. q \in [DOMAIN q -> Seq(Files)]
    BY <1>1, <2>2, <2>4, WithIs, Zenon
  <2>6. Opened(t) = q /\ Size(Key(t)) = 0
    BY <1>3, Zenon DEF Opened, Size
  <2> HIDE DEF q
  <2>7. \A k \in DOMAIN q : From(q[k], k)
    BY <1>1, <2>3, <2>4, Zenon
  <2>8. \A k \in DOMAIN parts : k \in DOMAIN q /\ q[k] = parts[k]
    BY <1>3, <2>4, Zenon
  <2>9. DOMAIN q \subseteq {paths(g) : g \in Files}
    BY <1>1, <2>1, <2>4, Zenon
  <2>10. Key(t) \in DOMAIN q /\ Len(q[Key(t)]) = Size(Key(t))
    BY <2>2, <2>4, <2>6, Zenon
  <2> QED
    BY <2>5, <2>6, <2>7, <2>8, <2>9, <2>10, Zenon
<1> QED
  BY <1>2, <1>3, Zenon

LEMMA PutMismatchStep ==
    ASSUME DropInv, NEW t \in Transfers, PutMismatch(t)
    PROVE  DropInv'
<1>1. /\ send[t] = "put" /\ put[t] = "none" /\ put' = [put EXCEPT ![t] = "returned"]
      /\ Answer(t, "error") /\ UNCHANGED <<file, offset, dst, busy, inbox>> /\ parts' = Opened(t)
  BY Zenon DEF PutMismatch
<1>2. /\ put'[t] = "returned"
      /\ \A u \in Transfers : u # t => put'[u] = put[u]
  BY <1>1, Known, Zenon
<1>3. ~ Handling(t)' /\ put'[t] # "rename"
  BY <1>2, Zenon DEF Handling
<1>4. /\ DOMAIN parts' \subseteq {paths(g) : g \in Files} /\ parts' \in [DOMAIN parts' -> Seq(Files)]
      /\ PartBytes'
      /\ \A k \in DOMAIN parts : k \in DOMAIN parts' /\ parts'[k] = parts[k]
  BY <1>1, OpenedIs, Zenon DEF PartBytes
<1>5. \A u \in Transfers \ {t} : StagedBy(u)'
  BY <1>1, <1>2, <1>4, KeepsPart, Zenon
<1>6. StagedBy(t)'
  BY <1>3, Zenon DEF StagedBy
<1>7. Staged'
  BY <1>5, <1>6, Zenon DEF Staged
<1> QED
  BY <1>1, <1>4, <1>7, Refused, Zenon

LEMMA PutBeginStep ==
    ASSUME DropInv, NEW t \in Transfers, PutBegin(t)
    PROVE  DropInv'
<1>1. /\ send[t] = "put" /\ put[t] = "none" /\ put' = [put EXCEPT ![t] = "copy"]
      /\ Key(t) \notin busy /\ busy' = busy \cup {Key(t)} /\ Size(Key(t)) = offset[t]
      /\ UNCHANGED <<file, send, offset, dst, inbox>> /\ parts' = Opened(t)
  BY Zenon DEF PutBegin
<1>2. /\ busy' = {Key(u) : u \in {v \in Transfers : put[v] \in {"copy", "rename"}}}'
      /\ Exclusive'
      /\ put' \in [Transfers -> {"none", "copy", "rename", "returned"}]
      /\ put'[t] = "copy"
      /\ \A u \in Transfers : u # t => put'[u] = put[u]
  BY <1>1, OneBegins, Zenon
<1>3. /\ DOMAIN parts' \subseteq {paths(g) : g \in Files} /\ parts' \in [DOMAIN parts' -> Seq(Files)]
      /\ PartBytes'
      /\ \A k \in DOMAIN parts : k \in DOMAIN parts' /\ parts'[k] = parts[k]
      /\ Key(t) \in DOMAIN parts' /\ Len(parts'[Key(t)]) = Size(Key(t))
  BY <1>1, OpenedIs, Zenon DEF PartBytes
<1>4. put'[t] # "rename" /\ put[t] # "returned"
  BY <1>1, <1>2, Zenon
<1>5. \A u \in Transfers \ {t} : StagedBy(u)'
  BY <1>1, <1>2, <1>3, KeepsPart, Zenon
<1>6. StagedBy(t)'
  BY <1>1, <1>3, <1>4, Zenon DEF StagedBy, Key
<1>7. Staged'
  BY <1>5, <1>6, Zenon DEF Staged
<1>8. /\ Received' /\ Brought'
      /\ DOMAIN inbox' \subseteq Paths /\ inbox' \in [DOMAIN inbox' -> Stored]
  BY <1>1, <1>2, <1>4, SameInbox, Zenon
<1>9. Started'
  BY <1>1, <1>2, Known, Zenon DEF Started
<1> QED
  BY <1>1, <1>2, <1>3, <1>7, <1>8, <1>9, Known, Zenon DEF DropInv, DropTypes, TypeOK, Statuses


LEMMA CopyStep ==
    ASSUME DropInv, NEW t \in Transfers, Copy(t)
    PROVE  DropInv'
<1> DEFINE k == Key(t)
           o == offset[t]
           f == file[t]
<1>1. /\ put[t] = "copy" /\ offset' = [offset EXCEPT ![t] = @ + 1]
      /\ parts' = [parts EXCEPT ![k] = Append(@, Bytes(f)[o + 1])] /\ o < SizeOf[f]
      /\ UNCHANGED <<file, send, put, dst, busy, inbox>>
  BY Zenon DEF Copy
<1>2. Handling(t) /\ put[t] # "none" /\ put[t] # "rename"
  BY <1>1, Zenon DEF Handling
<1>3. f \in Files /\ k \in {paths(g) : g \in Files} /\ o \in Nat
  BY <1>2, Known, Zenon
<1>4. SizeOf[f] \in Nat
  BY <1>3, DropAssumption, Zenon
<1>5. Bytes(f)[o + 1] = f
  <2>1. o + 1 \in 1 .. SizeOf[f]
    BY <1>1, <1>3, <1>4
  <2> QED
    BY <2>1, Zenon DEF Bytes
<1>6. /\ DOMAIN parts \subseteq {paths(g) : g \in Files} /\ parts \in [DOMAIN parts -> Seq(Files)]
      /\ \A q \in DOMAIN parts : From(parts[q], q)
  BY Zenon DEF DropInv, DropTypes, TypeOK, PartBytes
<1>7. k \in DOMAIN parts /\ Len(parts[k]) = o
  BY <1>2, Zenon DEF DropInv, Staged, StagedBy
<1>8. parts[k] \in Seq(Files) /\ From(parts[k], paths(f)) /\ k = paths(f)
  BY <1>6, <1>7, Zenon DEF Key
<1> HIDE DEF o, f, k
<1> DEFINE s == Append(parts[k], f)
<1>9. s \in Seq(Files) /\ Len(s) = o + 1 /\ From(s, k)
  BY <1>3, <1>7, <1>8, OneMore, Zenon
<1>10. parts' = [parts EXCEPT ![k] = s]
  BY <1>1, <1>5, Zenon
<1> HIDE DEF s
<1>11. /\ parts' \in [DOMAIN parts -> Seq(Files)] /\ DOMAIN parts' = DOMAIN parts /\ parts'[k] = s
       /\ \A q \in DOMAIN parts : q # k => parts'[q] = parts[q]
  BY <1>6, <1>7, <1>9, <1>10, Zenon
<1>12. PartBytes'
  BY <1>6, <1>9, <1>11, Zenon DEF PartBytes
<1>13. /\ offset' = [offset EXCEPT ![t] = o + 1] /\ o + 1 \in Nat
  BY <1>1, <1>3 DEF o
<1>14. /\ offset' \in [Transfers -> Nat] /\ offset'[t] = o + 1
       /\ \A u \in Transfers : u # t => offset'[u] = offset[u]
  BY <1>13, Known, Zenon
<1>15. \A u \in Transfers \ {t} : Handling(u) => Key(u) # k
  BY <1>2, Zenon DEF k, DropInv, Exclusive
<1>16. \A u \in Transfers \ {t} : StagedBy(u)'
  BY <1>1, <1>11, <1>14, <1>15, KeepsPart, Zenon
<1>17. StagedBy(t)'
  BY <1>1, <1>2, <1>7, <1>9, <1>11, <1>14, Zenon DEF StagedBy, Key, k, f
<1>18. Staged'
  BY <1>16, <1>17, Zenon DEF Staged
<1>19. /\ busy' = {Key(u) : u \in {v \in Transfers : put[v] \in {"copy", "rename"}}}'
       /\ Exclusive'
  BY <1>1, SameHandlers, Zenon DEF Handling
<1>20. /\ Received' /\ Brought'
       /\ DOMAIN inbox' \subseteq Paths /\ inbox' \in [DOMAIN inbox' -> Stored]
  BY <1>1, SameInbox, Zenon
<1>21. Started'
  BY <1>1, Known, Zenon DEF Started
<1> QED
  BY <1>1, <1>6, <1>11, <1>12, <1>14, <1>18, <1>19, <1>20, <1>21, Known, ZenonT(30)
  DEF DropInv, DropTypes, TypeOK, Statuses

(* A handler ends without a file: its part stays or goes.                  *)
LEMMA GivesUp ==
    ASSUME DropInv, NEW t \in Transfers, put[t] = "copy", Return(t),
           UNCHANGED <<file, offset, dst, inbox>>,
           send' = send \/ Answer(t, "error"),
           parts' = parts \/ parts' = Without(parts, Key(t))
    PROVE  DropInv'
<1>1. Handling(t) /\ put[t] # "none" /\ put[t] # "returned"
  BY Zenon DEF Handling
<1>2. /\ busy' = {Key(u) : u \in {v \in Transfers : put[v] \in {"copy", "rename"}}}'
      /\ Exclusive'
      /\ put' \in [Transfers -> {"none", "copy", "rename", "returned"}]
      /\ put'[t] = "returned"
      /\ \A u \in Transfers : u # t => put'[u] = put[u]
  BY <1>1, OneReturns, Zenon
<1>3. /\ send' \in [Transfers -> Statuses]
      /\ \A u \in Transfers : send'[u] = send[u] \/ (send[u] = "put" /\ send'[u] = "error")
  <2>1. CASE send' = send
    BY <2>1, Known, Zenon
  <2>2. CASE Answer(t, "error")
    BY <2>2, AnswerIs, Zenon DEF DropInv, Statuses
  <2> QED
    BY <2>1, <2>2, Zenon
<1>4. /\ DOMAIN parts \subseteq {paths(g) : g \in Files} /\ parts \in [DOMAIN parts -> Seq(Files)]
      /\ \A q \in DOMAIN parts : From(parts[q], q)
  BY Zenon DEF DropInv, DropTypes, TypeOK, PartBytes
<1>5. /\ DOMAIN parts' \subseteq DOMAIN parts /\ parts' \in [DOMAIN parts' -> Seq(Files)]
      /\ \A q \in DOMAIN parts' : parts'[q] = parts[q]
      /\ \A q \in DOMAIN parts : q # Key(t) => q \in DOMAIN parts'
  <2>1. CASE parts' = parts
    BY <1>4, <2>1, Zenon
  <2>2. CASE parts' = Without(parts, Key(t))
    BY <1>4, <2>2 DEF Without
  <2> QED
    BY <2>1, <2>2, Zenon
<1>6. PartBytes'
  BY <1>4, <1>5, Zenon DEF PartBytes
<1>7. \A u \in Transfers \ {t} : Handling(u) => Key(u) # Key(t)
  BY <1>1, Zenon DEF DropInv, Exclusive
<1>8. \A u \in Transfers \ {t} : StagedBy(u)'
  BY <1>2, <1>5, <1>7, KeepsPart, Zenon
<1>9. StagedBy(t)'
  BY <1>2, Zenon DEF StagedBy, Handling
<1>10. Staged'
  BY <1>8, <1>9, Zenon DEF Staged
<1>11. /\ Received' /\ Brought'
       /\ DOMAIN inbox' \subseteq Paths /\ inbox' \in [DOMAIN inbox' -> Stored]
  BY <1>1, <1>2, SameInbox, Zenon
<1>12. Started'
  BY <1>1, <1>2, <1>3, Known, Zenon DEF Started
<1> QED
  BY <1>2, <1>3, <1>4, <1>5, <1>6, <1>10, <1>11, <1>12, Known, Zenon
  DEF DropInv, DropTypes, TypeOK, Statuses

LEMMA CopyShortStep ==
    ASSUME DropInv, NEW t \in Transfers, CopyShort(t)
    PROVE  DropInv'
  BY GivesUp, Zenon DEF CopyShort

LEMMA CopyLongStep ==
    ASSUME DropInv, NEW t \in Transfers, CopyLong(t)
    PROVE  DropInv'
  BY GivesUp, Zenon DEF CopyLong


LEMMA DedupeStep ==
    ASSUME DropInv, NEW t \in Transfers, Dedupe(t)
    PROVE  DropInv' /\ dst'[t] \notin DOMAIN inbox'
<1> DEFINE p == dedupePath(NameOf[file[t]])
<1>1. /\ put[t] = "copy" /\ offset[t] = SizeOf[file[t]] /\ dst' = [dst EXCEPT ![t] = p]
      /\ put' = [put EXCEPT ![t] = "rename"] /\ UNCHANGED <<file, send, offset, parts, busy, inbox>>
  BY Zenon DEF Dedupe
<1>2. Handling(t) /\ put[t] # "none" /\ put[t] # "returned"
  BY <1>1, Zenon DEF Handling
<1>3. file[t] \in Files /\ NameOf[file[t]] \in Names
  BY <1>2, Known, Zenon DEF Names
<1>4. p \in Paths /\ p[1] = NameOf[file[t]] /\ p \notin DOMAIN inbox
  BY <1>3, DedupeFinds, Zenon
<1> HIDE DEF p
<1>5. /\ dst' \in [Transfers -> Paths \cup {NoPath}] /\ dst'[t] = p
      /\ \A u \in Transfers : u # t => dst'[u] = dst[u]
  BY <1>1, <1>4, Known, Zenon
<1>6. /\ put' \in [Transfers -> {"none", "copy", "rename", "returned"}] /\ put'[t] = "rename"
      /\ \A u \in Transfers : u # t => put'[u] = put[u]
  BY <1>1, Known, Zenon
<1>7. \A u \in Transfers : Handling(u)' <=> Handling(u)
  BY <1>2, <1>6, Zenon DEF Handling
<1>8. /\ busy' = {Key(u) : u \in {v \in Transfers : put[v] \in {"copy", "rename"}}}'
      /\ Exclusive'
  BY <1>1, <1>7, SameHandlers, Zenon
<1>9. /\ Received' /\ Brought'
      /\ DOMAIN inbox' \subseteq Paths /\ inbox' \in [DOMAIN inbox' -> Stored]
  BY <1>1, <1>2, <1>6, SameInbox, Zenon
<1>10. \A u \in Transfers \ {t} : StagedBy(u)'
  BY <1>1, <1>5, <1>6, KeepsPart, Zenon
<1>11. Key(t) \in DOMAIN parts /\ Len(parts[Key(t)]) = offset[t]
  BY <1>2, Zenon DEF DropInv, Staged, StagedBy
<1>12. StagedBy(t)'
  BY <1>1, <1>4, <1>5, <1>11, Zenon DEF StagedBy, Key
<1>13. Staged'
  BY <1>10, <1>12, Zenon DEF Staged
<1>14. PartBytes' /\ DOMAIN parts' \subseteq {paths(g) : g \in Files} /\ parts' \in [DOMAIN parts' -> Seq(Files)]
  BY <1>1, Zenon DEF PartBytes, DropInv, DropTypes, TypeOK
<1>15. Started'
  BY <1>1, <1>2, <1>6, Known, Zenon DEF Started
<1> QED
  BY <1>1, <1>4, <1>5, <1>6, <1>8, <1>9, <1>13, <1>14, <1>15, Known, ZenonT(30)
  DEF DropInv, DropTypes, TypeOK, Statuses

LEMMA RenameStep ==
    ASSUME DropInv, NEW t \in Transfers, Rename(t)
    PROVE  /\ DropInv'
           /\ DOMAIN inbox' = DOMAIN inbox \cup {dst[t]} /\ inbox'[dst[t]].by = t
           /\ \A q \in DOMAIN inbox : q # dst[t] => inbox'[q] = inbox[q]
<1> DEFINE k == Key(t)
           p == dst[t]
           r == [bytes |-> parts[k], by |-> t]
<1>1. /\ put[t] = "rename" /\ inbox' = With(inbox, p, r) /\ parts' = Without(parts, k)
      /\ Return(t) /\ Answer(t, "done") /\ UNCHANGED <<file, offset, dst>>
  BY Zenon DEF Rename
<1>2. Handling(t) /\ put[t] # "none" /\ put[t] # "returned"
  BY <1>1, Zenon DEF Handling
<1>3. /\ busy' = {Key(u) : u \in {v \in Transfers : put[v] \in {"copy", "rename"}}}'
      /\ Exclusive'
      /\ put' \in [Transfers -> {"none", "copy", "rename", "returned"}]
      /\ put'[t] = "returned"
      /\ \A u \in Transfers : u # t => put'[u] = put[u]
  BY <1>1, <1>2, OneReturns, Zenon
<1>4. /\ send' \in [Transfers -> Statuses]
      /\ \A u \in Transfers : send'[u] = send[u] \/ (send[u] = "put" /\ send'[u] = "done")
  BY <1>1, AnswerIs, Zenon DEF DropInv, Statuses
<1>5. /\ DOMAIN parts \subseteq {paths(g) : g \in Files} /\ parts \in [DOMAIN parts -> Seq(Files)]
      /\ \A q \in DOMAIN parts : From(parts[q], q)
  BY Zenon DEF DropInv, DropTypes, TypeOK, PartBytes
<1>6. /\ DOMAIN parts' = DOMAIN parts \ {k} /\ parts' \in [DOMAIN parts' -> Seq(Files)]
      /\ \A q \in DOMAIN parts' : parts'[q] = parts[q]
  BY <1>1, <1>5, Zenon DEF Without
<1>7. PartBytes'
  BY <1>5, <1>6, Zenon DEF PartBytes
<1>8. \A u \in Transfers \ {t} : Handling(u) => Key(u) # k
  BY <1>2, Zenon DEF DropInv, Exclusive
<1>9. \A u \in Transfers \ {t} : StagedBy(u)'
  BY <1>1, <1>3, <1>6, <1>8, KeepsPart, Zenon
<1>10. StagedBy(t)'
  BY <1>3, Zenon DEF StagedBy, Handling
<1>11. Staged'
  BY <1>9, <1>10, Zenon DEF Staged
<1>12. /\ k \in DOMAIN parts /\ Len(parts[k]) = offset[t] /\ offset[t] = SizeOf[file[t]]
       /\ p \in Paths /\ p[1] = NameOf[file[t]]
  BY <1>1, <1>2, Zenon DEF DropInv, Staged, StagedBy
<1>13. parts[k] \in Seq(Files) /\ From(parts[k], k) /\ file[t] \in Files
  BY <1>2, <1>5, <1>12, Known, Zenon
<1>14. r \in Stored /\ r.bytes = parts[k] /\ r.by = t
  BY <1>13, Zenon DEF Stored
<1> HIDE DEF r, p
<1>15. /\ DOMAIN inbox \subseteq Paths /\ inbox \in [DOMAIN inbox -> Stored] /\ Received /\ Brought
  BY Zenon DEF DropInv, DropTypes, TypeOK
<1>16. /\ DOMAIN inbox' = DOMAIN inbox \cup {p} /\ inbox' \in [DOMAIN inbox' -> Stored]
       /\ inbox'[p] = r
       /\ \A q \in DOMAIN inbox : q # p => inbox'[q] = inbox[q]
  BY <1>1, <1>14, <1>15, Zenon DEF With
<1>17. \A q \in DOMAIN inbox : inbox[q].by \in Transfers \ {t}
  BY <1>2, <1>15, Zenon DEF Stored, Received
<1>18. Brought'
  BY <1>14, <1>15, <1>16, <1>17, ZenonT(30) DEF Brought
<1>19. Received'
  <2> SUFFICES ASSUME NEW q \in DOMAIN inbox'
               PROVE  /\ put'[inbox'[q].by] = "returned" /\ file[inbox'[q].by] \in Files
                      /\ q[1] = NameOf[file[inbox'[q].by]]
                      /\ Len(inbox'[q].bytes) = SizeOf[file[inbox'[q].by]]
                      /\ From(inbox'[q].bytes, Key(inbox'[q].by))
    BY <1>1, Zenon DEF Received, Key
  <2>1. CASE q = p
    BY <1>3, <1>12, <1>13, <1>14, <1>16, <2>1, Zenon
  <2>2. CASE q # p
    <3>1. q \in DOMAIN inbox /\ inbox'[q] = inbox[q]
      BY <1>16, <2>2, Zenon
    <3> QED
      BY <1>3, <1>15, <1>17, <3>1, Zenon DEF Received
  <2> QED
    BY <2>1, <2>2, Zenon
<1>20. Started'
  BY <1>1, <1>2, <1>3, <1>4, Known, Zenon DEF Started
<1>21. DropInv'
  BY <1>1, <1>3, <1>4, <1>5, <1>6, <1>7, <1>11, <1>12, <1>15, <1>16, <1>18, <1>19, <1>20, Known, ZenonT(30)
  DEF DropInv, DropTypes, TypeOK, Statuses
<1> QED
  BY <1>14, <1>16, <1>21, Zenon DEF p

LEMMA RestartStep ==
    ASSUME DropInv, Restart
    PROVE  DropInv'
<1>1. /\ put' = [t \in Transfers |-> IF put[t] = "none" THEN "none" ELSE "returned"]
      /\ send' = [t \in Transfers |-> IF send[t] = "put" /\ put[t] # "none" THEN "error" ELSE send[t]]
      /\ busy' = {} /\ UNCHANGED <<file, offset, dst, parts, inbox>>
  BY Zenon DEF Restart
<1>2. /\ put' \in [Transfers -> {"none", "copy", "rename", "returned"}]
      /\ \A u \in Transfers : put'[u] = IF put[u] = "none" THEN "none" ELSE "returned"
  BY <1>1, Zenon
<1>3. /\ send' \in [Transfers -> Statuses]
      /\ \A u \in Transfers : send'[u] = IF send[u] = "put" /\ put[u] # "none" THEN "error" ELSE send[u]
  BY <1>1, Known, Zenon DEF Statuses
<1>4. \A u \in Transfers : ~ Handling(u)'
  BY <1>2, Zenon DEF Handling
<1>5. /\ busy' = {Key(u) : u \in {v \in Transfers : put[v] \in {"copy", "rename"}}}'
      /\ Exclusive'
  BY <1>1, <1>4, Zenon DEF Handling, Exclusive
<1>6. /\ Received' /\ Brought'
      /\ DOMAIN inbox' \subseteq Paths /\ inbox' \in [DOMAIN inbox' -> Stored]
  BY <1>1, <1>2, SameInbox, Zenon
<1>7. /\ Staged' /\ PartBytes'
      /\ DOMAIN parts' \subseteq {paths(g) : g \in Files} /\ parts' \in [DOMAIN parts' -> Seq(Files)]
  BY <1>1, <1>4, SameParts, Zenon
<1>8. Started'
  BY <1>1, <1>2, <1>3, Known, Zenon DEF Started
<1> QED
  BY <1>1, <1>2, <1>3, <1>5, <1>6, <1>7, <1>8, Known, Zenon DEF DropInv, DropTypes, TypeOK, Statuses


LEMMA DropInit ==
    ASSUME Init
    PROVE  DropInv /\ Free /\ Arrived
<1>1. /\ file = [t \in Transfers |-> NoFile] /\ send = [t \in Transfers |-> "new"]
      /\ offset = [t \in Transfers |-> 0] /\ put = [t \in Transfers |-> "none"]
      /\ dst = [t \in Transfers |-> NoPath] /\ parts = <<>> /\ busy = {} /\ inbox = <<>>
  BY Zenon DEF Init
<1>2. DOMAIN parts = {} /\ DOMAIN inbox = {}
  BY <1>1
<1>3. \A t \in Transfers : /\ file[t] = NoFile /\ send[t] = "new" /\ ~ Handling(t)
                           /\ put[t] = "none" /\ put[t] # "rename" /\ send[t] # "done"
  BY <1>1, Zenon DEF Handling
<1>4. /\ file \in [Transfers -> Files \cup {NoFile}] /\ send \in [Transfers -> Statuses]
      /\ put \in [Transfers -> {"none", "copy", "rename", "returned"}]
      /\ dst \in [Transfers -> Paths \cup {NoPath}] /\ offset \in [Transfers -> Nat]
  BY <1>1, Zenon DEF Statuses
<1>5. parts \in [DOMAIN parts -> Seq(Files)] /\ inbox \in [DOMAIN inbox -> Stored]
  BY <1>1
<1>6. busy = {Key(u) : u \in {v \in Transfers : put[v] \in {"copy", "rename"}}}
  BY <1>1, <1>3, Zenon DEF Handling
<1>7. DropTypes
  BY <1>2, <1>4, <1>5, <1>6, Zenon DEF DropTypes, TypeOK, Statuses
<1>8. Started /\ Exclusive /\ Staged
  BY <1>3, Zenon DEF Started, Exclusive, Staged, StagedBy
<1>9. PartBytes /\ Received /\ Brought /\ Free /\ Arrived
  BY <1>2, <1>3, Zenon DEF PartBytes, Received, Brought, Free, Arrived
<1> QED
  BY <1>7, <1>8, <1>9, Zenon DEF DropInv

LEMMA DropNext ==
    ASSUME DropInv, [Next]_vars
    PROVE  DropInv'
<1>1. ASSUME NEW t \in Transfers, handlePut(t) PROVE DropInv'
  BY <1>1, PutBusyStep, PutMismatchStep, PutBeginStep, CopyStep, CopyShortStep, CopyLongStep,
     DedupeStep, RenameStep, Zenon DEF handlePut
<1>2. CASE Next
  BY <1>1, <1>2, StartDropStep, HandleOffsetStep, InterruptedStep, RestartStep, Zenon DEF Next
<1>3. CASE UNCHANGED vars
  <2>1. UNCHANGED <<file, send, offset, put, dst, parts, busy, inbox>>
    BY <1>3, Zenon DEF vars
  <2>2. Started' /\ Staged' /\ PartBytes' /\ Received' /\ Brought' /\ Exclusive'
    BY <2>1, Zenon DEF DropInv, Started, Staged, StagedBy, Handling, Key, PartBytes, Received,
                       Brought, Exclusive
  <2>3. DropTypes'
    BY <2>1, Zenon DEF DropInv, DropTypes, TypeOK, Key
  <2> QED
    BY <2>2, <2>3, Zenon DEF DropInv
<1> QED
  BY <1>2, <1>3, Zenon

(* Only a rename fills the inbox and completes a transfer.                 *)
LEMMA Elsewhere ==
    ASSUME DropInv, [Next]_vars, \A t \in Transfers : ~ Rename(t)
    PROVE  /\ inbox' = inbox
           /\ \A u \in Transfers : send'[u] = "done" => send[u] = "done"
           /\ \A u \in Transfers : put'[u] = "rename" =>
                  dst'[u] \notin DOMAIN inbox' \/ (put[u] = "rename" /\ dst'[u] = dst[u])
<1> DEFINE Quiet == /\ inbox' = inbox
                    /\ \A u \in Transfers : send'[u] = "done" => send[u] = "done"
                    /\ \A u \in Transfers : put'[u] = "rename" =>
                           dst'[u] \notin DOMAIN inbox' \/ (put[u] = "rename" /\ dst'[u] = dst[u])
<1>1. /\ send \in [Transfers -> Statuses] /\ DropTypes
      /\ put \in [Transfers -> {"none", "copy", "rename", "returned"}]
  BY Known, Zenon DEF DropInv
<1>2. ASSUME NEW t \in Transfers, NEW f \in Files, StartDrop(t, f) PROVE Quiet
  BY <1>1, <1>2, Zenon DEF StartDrop
<1>3. ASSUME NEW t \in Transfers, handleOffset(t) PROVE Quiet
  BY <1>1, <1>3, Zenon DEF handleOffset
<1>4. ASSUME NEW t \in Transfers, Interrupted(t) PROVE Quiet
  BY <1>1, <1>4, Zenon DEF Interrupted
<1>5. ASSUME NEW t \in Transfers, Answer(t, "error") \/ send' = send
      PROVE  \A u \in Transfers : send'[u] = "done" => send[u] = "done"
  BY <1>1, <1>5, AnswerIs, Zenon DEF Statuses
<1>6. ASSUME NEW t \in Transfers, NEW s \in {"copy", "returned"}, put' = [put EXCEPT ![t] = s]
      PROVE  \A u \in Transfers : put'[u] = "rename" => put[u] = "rename"
  BY <1>1, <1>6, Zenon
<1>7. ASSUME NEW t \in Transfers, PutBusy(t) \/ PutMismatch(t) \/ PutBegin(t) \/ CopyShort(t) \/ CopyLong(t)
      PROVE  Quiet
  <2>1. /\ inbox' = inbox /\ dst' = dst /\ (Answer(t, "error") \/ send' = send)
        /\ \E s \in {"copy", "returned"} : put' = [put EXCEPT ![t] = s]
    BY <1>7, Zenon DEF PutBusy, PutMismatch, PutBegin, CopyShort, CopyLong, Return
  <2> QED
    BY <1>5, <1>6, <2>1, Zenon
<1>8. ASSUME NEW t \in Transfers, Copy(t) PROVE Quiet
  BY <1>8, Zenon DEF Copy
<1>9. ASSUME NEW t \in Transfers, Dedupe(t) PROVE Quiet
  <2>1. /\ inbox' = inbox /\ send' = send /\ put' = [put EXCEPT ![t] = "rename"]
        /\ dst' = [dst EXCEPT ![t] = dedupePath(NameOf[file[t]])]
    BY <1>9, Zenon DEF Dedupe
  <2>2. \A u \in Transfers : u # t => put'[u] = put[u] /\ dst'[u] = dst[u]
    BY <1>1, <2>1, Known, Zenon
  <2>3. dst'[t] \notin DOMAIN inbox'
    BY <1>9, DedupeStep, Zenon
  <2> QED
    BY <2>1, <2>2, <2>3, Zenon
<1>10. ASSUME Restart PROVE Quiet
  BY <1>1, <1>10, Zenon DEF Restart
<1>11. ASSUME UNCHANGED vars PROVE Quiet
  BY <1>11, Zenon DEF vars
<1> HIDE DEF Quiet
<1>12. ASSUME NEW t \in Transfers, handlePut(t) PROVE Quiet
  BY <1>7, <1>8, <1>9, <1>12, Zenon DEF handlePut
<1>13. ASSUME Next PROVE Quiet
  BY <1>2, <1>3, <1>4, <1>10, <1>12, <1>13, Zenon DEF Next
<1>14. Quiet
  BY <1>11, <1>13, Zenon
<1> QED
  BY <1>14, Zenon DEF Quiet


(* The names found stay free.  Two handlers of one name have one part, so  *)
(* there is one of them.                                                   *)
LEMMA FreeNext ==
    ASSUME OneSize, DropInv, Free, [Next]_vars
    PROVE  /\ Free'
           /\ \A p \in DOMAIN inbox : p \in DOMAIN inbox' /\ inbox'[p] = inbox[p]
<1>1. CASE \A t \in Transfers : ~ Rename(t)
  BY <1>1, Elsewhere, Zenon DEF Free
<1>2. ASSUME NEW t \in Transfers, Rename(t)
      PROVE  /\ Free'
             /\ \A p \in DOMAIN inbox : p \in DOMAIN inbox' /\ inbox'[p] = inbox[p]
  <2>1. put[t] = "rename" /\ dst' = dst /\ Return(t)
    BY <1>2, Zenon DEF Rename
  <2>2. DOMAIN inbox' = DOMAIN inbox \cup {dst[t]} /\ \A q \in DOMAIN inbox : q # dst[t] => inbox'[q] = inbox[q]
    BY <1>2, RenameStep, Zenon
  <2>3. dst[t] \notin DOMAIN inbox
    BY <2>1, Zenon DEF Free
  <2>4. put'[t] # "rename" /\ \A u \in Transfers : u # t => put'[u] = put[u]
    BY <2>1, Known, Zenon DEF Return
  <2>5. \A u \in Transfers : put[u] = "rename" =>
            Handling(u) /\ dst[u][1] = NameOf[file[u]] /\ file[u] \in Files
    <3> SUFFICES ASSUME NEW u \in Transfers, put[u] = "rename"
                 PROVE  Handling(u) /\ dst[u][1] = NameOf[file[u]] /\ file[u] \in Files
      BY Zenon
    <3>1. Handling(u) /\ put[u] # "none"
      BY Zenon DEF Handling
    <3> QED
      BY <3>1, Known, Zenon DEF DropInv, Staged, StagedBy
  <2>6. \A u \in Transfers : u # t /\ put[u] = "rename" => dst[u] # dst[t]
    <3> SUFFICES ASSUME NEW u \in Transfers, put[u] = "rename", dst[u] = dst[t] PROVE u = t
      BY Zenon
    <3>1. NameOf[file[u]] = NameOf[file[t]] /\ file[u] \in Files /\ file[t] \in Files
      BY <2>1, <2>5, Zenon
    <3>2. Key(u) = Key(t)
      BY <3>1, Zenon DEF OneSize, Key, paths
    <3> QED
      BY <2>1, <2>5, <3>2, Zenon DEF DropInv, Exclusive
  <2>7. Free'
    BY <2>1, <2>2, <2>4, <2>6, Zenon DEF Free
  <2> QED
    BY <2>2, <2>3, <2>7, Zenon
<1> QED
  BY <1>1, <1>2, Zenon

LEMMA ArrivedNext ==
    ASSUME OneSize, DropInv, Free, Arrived, [Next]_vars
    PROVE  Arrived'
<1>1. \A p \in DOMAIN inbox : p \in DOMAIN inbox' /\ inbox'[p] = inbox[p]
  BY FreeNext, Zenon
<1>2. CASE \A t \in Transfers : ~ Rename(t)
  BY <1>1, <1>2, Elsewhere, ZenonT(30) DEF Arrived
<1>3. ASSUME NEW t \in Transfers, Rename(t) PROVE Arrived'
  <2>1. Answer(t, "done")
    BY <1>3, Zenon DEF Rename
  <2>2. \A u \in Transfers : u # t => send'[u] = send[u]
    BY <2>1, AnswerIs, Zenon DEF DropInv, Statuses
  <2>3. dst[t] \in DOMAIN inbox' /\ inbox'[dst[t]].by = t
    BY <1>3, RenameStep, Zenon
  <2> QED
    BY <1>1, <2>2, <2>3, Zenon DEF Arrived
<1> QED
  BY <1>2, <1>3, Zenon

-----------------------------------------------------------------------------
(* Results.                                                                *)

(* A received file's bytes are those of the file its transfer was for.     *)
LEMMA WholeFile ==
    ASSUME OneEdition, DropInv, NEW p \in DOMAIN inbox
    PROVE  LET f == file[inbox[p].by] IN
           f \in Files /\ p[1] = NameOf[f] /\ inbox[p].bytes = Bytes(f)
<1> DEFINE t == inbox[p].by
           f == file[t]
           s == inbox[p].bytes
<1>1. /\ f \in Files /\ p[1] = NameOf[f] /\ Len(s) = SizeOf[f] /\ From(s, paths(f))
  BY Zenon DEF DropInv, Received, Key
<1>2. inbox[p] \in Stored
  BY Zenon DEF DropInv, DropTypes
<1>3. s \in Seq(Files)
  BY <1>2, Zenon DEF Stored
<1> HIDE DEF s, f
<1>4. \A i \in 1 .. SizeOf[f] : s[i] \in Files
  BY <1>1, <1>3
<1>5. \A i \in 1 .. SizeOf[f] : s[i] = f
  BY <1>1, <1>4, Zenon DEF From, OneEdition
<1>6. s = [i \in 1 .. SizeOf[f] |-> s[i]]
  BY <1>1, <1>3
<1>7. s = [i \in 1 .. SizeOf[f] |-> f]
  BY <1>5, <1>6, Zenon
<1> QED
  BY <1>1, <1>7, Zenon DEF s, f, Bytes


(* Every successful transfer of a file has a path of its own with the bytes *)
(* of that file.                                                           *)
LEMMA OneCopyEach ==
    ASSUME OneEdition, DropInv, Arrived
    PROVE  DoneMeansReceived
<1> SUFFICES ASSUME NEW f \in Files
             PROVE  Cardinality({t \in Transfers : file[t] = f /\ send[t] = "done"})
                        <= Cardinality({p \in DOMAIN inbox : inbox[p].bytes = Bytes(f)})
  BY Zenon DEF DoneMeansReceived
<1> DEFINE S == {t \in Transfers : file[t] = f /\ send[t] = "done"}
           P == {p \in DOMAIN inbox : inbox[p].bytes = Bytes(f)}
           by == [p \in P |-> inbox[p].by]
           at == [t \in S |-> CHOOSE p \in DOMAIN inbox : inbox[p].by = t]
<1>1. \A t \in S : at[t] \in DOMAIN inbox /\ inbox[at[t]].by = t
  BY Zenon DEF Arrived
<1>2. \A t \in S : at[t] \in P
  <2> SUFFICES ASSUME NEW t \in S PROVE at[t] \in P
    BY Zenon
  <2>1. at[t] \in DOMAIN inbox /\ file[inbox[at[t]].by] = f
    BY <1>1, Zenon
  <2> HIDE DEF at
  <2>2. inbox[at[t]].bytes = Bytes(f)
    BY <2>1, WholeFile, Zenon
  <2> QED
    BY <2>1, <2>2, Zenon
<1>3. at \in [S -> P]
  <2>1. \A t \in S : at[t] = CHOOSE p \in DOMAIN inbox : inbox[p].by = t
    BY Zenon
  <2> QED
    BY <1>2, <2>1, Zenon
<1>4. \A t, u \in S : at[t] = at[u] => t = u
  BY <1>1, Zenon
<1>5. by \in [P -> Transfers]
  BY Zenon DEF DropInv, DropTypes, Stored
<1>6. \A p, q \in P : by[p] = by[q] => p = q
  BY Zenon DEF DropInv, Brought
<1> HIDE DEF S, P, by, at
<1>7. IsFiniteSet(P)
  <2>1. by \in Injection(P, Transfers)
    BY <1>5, <1>6, Fun_IsInj, Zenon
  <2>2. IsFiniteSet(Transfers)
    BY DropAssumption, Zenon
  <2> QED
    BY <2>1, <2>2, FS_Injection, Zenon
<1>8. Cardinality(S) <= Cardinality(P)
  BY <1>3, <1>4, <1>7, Fun_IsInj, FS_Injection, Zenon
<1> QED
  BY <1>8, Zenon DEF S, P

LEMMA DropHolds == Spec => []DropInv
  BY DropInit, DropNext, PTL DEF Spec

(* busy names exactly the parts that some handler has open, whatever breaks *)
(* or restarts: the key is set before the part is opened and released by   *)
(* every return of handlePut.                                              *)
THEOREM TypeCorrect == Spec => []TypeOK
<1>1. DropInv => TypeOK
  BY Zenon DEF DropInv, DropTypes
<1> QED
  BY <1>1, DropHolds, PTL

(* Each file of the inbox is, byte for byte, a file that was sent under its *)
(* name, as long as no file is replaced by another of its name and size    *)
(* between two attempts: a part's name holds no more than those.           *)
THEOREM InboxIsSent == ASSUME OneEdition PROVE Spec => []ReceivedIsSent
<1>1. DropInv => ReceivedIsSent
  BY WholeFile, Zenon DEF ReceivedIsSent
<1> QED
  BY <1>1, DropHolds, PTL

(* A received file keeps its name and its bytes, as long as files of one   *)
(* name have one size: the name a handler found is then still free when it *)
(* renames, although other handlers run in between.                        *)
THEOREM InboxStays == ASSUME OneSize PROVE Spec => NeverOverwritten
<1>1. Init => Free
  BY DropInit, Zenon
<1>2. DropInv /\ Free /\ [Next]_vars => Free'
  BY FreeNext, Zenon
<1>3. DropInv /\ Free /\ [Next]_vars
        => [\A p \in DOMAIN inbox : p \in DOMAIN inbox' /\ inbox'[p] = inbox[p]]_vars
  BY FreeNext, Zenon
<1> QED
  BY <1>1, <1>2, <1>3, DropHolds, PTL DEF Spec, NeverOverwritten

(* Under both conditions each transfer whose sender saw it succeed has a   *)
(* copy of its own in the inbox.                                           *)
THEOREM DoneIsThere == ASSUME OneEdition, OneSize PROVE Spec => []DoneMeansReceived
<1>1. Init => Free /\ Arrived
  BY DropInit, Zenon
<1>2. DropInv /\ Free /\ Arrived /\ [Next]_vars => Free' /\ Arrived'
  BY FreeNext, ArrivedNext, Zenon
<1>3. DropInv /\ Arrived => DoneMeansReceived
  BY OneCopyEach, Zenon
<1> QED
  BY <1>1, <1>2, <1>3, DropHolds, PTL DEF Spec


=============================================================================
