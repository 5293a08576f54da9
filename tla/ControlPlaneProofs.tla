------------------------- MODULE ControlPlaneProofs -------------------------
(***************************************************************************)
(* What holds on the way from the consoles to the policy for any number of *)
(* consoles, uploads, edits, rules and files: proofs about ControlPlane.   *)
(***************************************************************************)
EXTENDS ControlPlane, RuleJsonProofs, FiniteSetTheorems, SequenceTheorems

(***************************************************************************)
(* Sequences.                                                              *)
(***************************************************************************)

\* The places up to i of a finite set of places are fewer than those up to a later one.
LEMMA RankGrows ==
    ASSUME NEW at \in SUBSET Nat, IsFiniteSet(at), NEW i \in at, NEW j \in at, i < j
    PROVE  Cardinality({h \in at : h <= i}) # Cardinality({h \in at : h <= j})
<1> DEFINE A == {h \in at : h <= i}
           B == {h \in at : h <= j}
<1>1. IsFiniteSet(B) /\ A \subseteq B
  <2>1. B \subseteq at
    OBVIOUS
  <2>2. IsFiniteSet(B)
    BY <2>1, FS_Subset
  <2>3. A \subseteq B
    <3> SUFFICES ASSUME NEW h \in at, h <= i PROVE h <= j
      OBVIOUS
    <3>1. h \in Nat /\ i \in Nat /\ j \in Nat
      OBVIOUS
    <3> QED
      BY <3>1
  <2> QED
    BY <2>2, <2>3
<1>2. j \in B /\ j \notin A
  BY at \subseteq Nat
<1>3. A # B
  BY <1>2
<1> HIDE DEF A, B
<1>4. Cardinality(A) < Cardinality(B)
  BY <1>1, <1>3, FS_Subset, FS_CardinalityType
<1>5. Cardinality(A) \in Nat /\ Cardinality(B) \in Nat
  BY <1>1, FS_Subset, FS_CardinalityType
<1>6. Cardinality(A) # Cardinality(B)
  BY <1>4, <1>5
<1> QED
  BY <1>6 DEF A, B

\* The k-th of n places exists and is counted as the k-th: ranks are an injection of the places
\* into 1 .. n, hence a bijection.
LEMMA NthFacts ==
    ASSUME NEW at \in SUBSET Nat, IsFiniteSet(at)
    PROVE  /\ Cardinality(at) \in Nat
           /\ \A k \in 1 .. Cardinality(at) : Nth(at, k) \in at
           /\ \A i \in at : \E k \in 1 .. Cardinality(at) : Nth(at, k) = i
<1> DEFINE n == Cardinality(at)
           upto(i) == {h \in at : h <= i}
           rank == [i \in at |-> Cardinality(upto(i))]
<1>1. n \in Nat
  BY FS_CardinalityType
<1>2. \A i \in at : Cardinality(upto(i)) \in 1 .. n
  <2> SUFFICES ASSUME NEW i \in at PROVE Cardinality(upto(i)) \in 1 .. n
    OBVIOUS
  <2>1. upto(i) \subseteq at /\ i \in upto(i)
    BY at \subseteq Nat
  <2> HIDE DEF upto
  <2>2. IsFiniteSet(upto(i)) /\ Cardinality(upto(i)) <= n
    BY <2>1, FS_Subset
  <2>3. Cardinality(upto(i)) \in Nat /\ Cardinality(upto(i)) # 0
    BY <2>1, <2>2, FS_CardinalityType, FS_EmptySet
  <2> HIDE DEF n
  <2> QED
    BY <1>1, <2>2, <2>3
<1>3. \A i, j \in at : i # j => Cardinality(upto(i)) # Cardinality(upto(j))
  <2> SUFFICES ASSUME NEW i \in at, NEW j \in at, i # j
               PROVE  Cardinality(upto(i)) # Cardinality(upto(j))
    OBVIOUS
  <2>1. i < j \/ j < i
    BY at \subseteq Nat
  <2> QED
    BY <2>1, RankGrows
<1>4. rank \in Injection(at, 1 .. n)
  <2> HIDE DEF upto, n
  <2> QED
    BY <1>2, <1>3 DEF Injection, IsInjective
<1>5. IsFiniteSet(1 .. n) /\ Cardinality(1 .. n) = n
  BY <1>1, FS_Interval
<1>6. rank \in Surjection(at, 1 .. n)
  <2> HIDE DEF rank
  <2> QED
    BY <1>4, <1>5, FS_Injection
<1>7. \A k \in 1 .. n : \E i \in at : Cardinality(upto(i)) = k
  <2> HIDE DEF upto, n
  <2> QED
    BY <1>6 DEF Surjection
<1>8. \A k \in 1 .. n : Nth(at, k) \in at /\ Cardinality(upto(Nth(at, k))) = k
  BY <1>7 DEF Nth
<1>9. \A i \in at : Nth(at, Cardinality(upto(i))) = i
  <2> HIDE DEF upto, n
  <2> QED
    BY <1>2, <1>3, <1>8
<1> HIDE DEF upto
<1> QED
  BY <1>1, <1>2, <1>8, <1>9

\* A sublist has what the sequence has at the places chosen, and nothing else.
LEMMA SublistFacts ==
    ASSUME NEW S, NEW s \in Seq(S), NEW at \in SUBSET DOMAIN s
    PROVE  /\ Sublist(s, at) \in Seq(S)
           /\ \A k \in DOMAIN Sublist(s, at) : \E i \in at : Sublist(s, at)[k] = s[i]
           /\ \A i \in at : \E k \in DOMAIN Sublist(s, at) : Sublist(s, at)[k] = s[i]
<1>1. at \in SUBSET Nat /\ IsFiniteSet(at)
  <2>1. DOMAIN s = 1 .. Len(s) /\ Len(s) \in Nat
    OBVIOUS
  <2>2. IsFiniteSet(1 .. Len(s))
    BY <2>1, FS_Interval
  <2>3. at \subseteq 1 .. Len(s)
    BY <2>1
  <2> QED
    BY <2>1, <2>2, <2>3, FS_Subset
<1> DEFINE n == Cardinality(at)
<1>2. /\ n \in Nat
      /\ \A k \in 1 .. n : Nth(at, k) \in at
      /\ \A i \in at : \E k \in 1 .. n : Nth(at, k) = i
  BY <1>1, NthFacts
<1>3. Sublist(s, at) = [k \in 1 .. n |-> s[Nth(at, k)]]
  BY DEF Sublist
<1>4. \A i \in at : s[i] \in S
  OBVIOUS
<1> HIDE DEF n
<1>5. [k \in 1 .. n |-> s[Nth(at, k)]] \in Seq(S)
  BY <1>2, <1>4
<1>6. DOMAIN Sublist(s, at) = 1 .. n
  BY <1>3
<1>7. \A k \in 1 .. n : Sublist(s, at)[k] = s[Nth(at, k)]
  BY <1>3
<1> QED
  BY <1>2, <1>3, <1>5, <1>6, <1>7

\* What is in a sequence with something behind it.
LEMMA ConcatHasBoth ==
    ASSUME NEW S, NEW s \in Seq(S), NEW t \in Seq(S)
    PROVE  /\ s \o t \in Seq(S)
           /\ \A k \in DOMAIN s : \E j \in DOMAIN (s \o t) : (s \o t)[j] = s[k]
           /\ \A k \in DOMAIN t : \E j \in DOMAIN (s \o t) : (s \o t)[j] = t[k]
           /\ \A j \in DOMAIN (s \o t) : \/ \E k \in DOMAIN s : (s \o t)[j] = s[k]
                                        \/ \E k \in DOMAIN t : (s \o t)[j] = t[k]
<1>1. /\ s \o t \in Seq(S) /\ Len(s \o t) = Len(s) + Len(t)
      /\ \A j \in 1 .. Len(s) + Len(t) : (s \o t)[j] = IF j <= Len(s) THEN s[j] ELSE t[j - Len(s)]
  BY ConcatProperties
<1>2. DOMAIN (s \o t) = 1 .. Len(s) + Len(t) /\ Len(s) \in Nat /\ Len(t) \in Nat
  BY <1>1
<1>3. ASSUME NEW k \in DOMAIN s PROVE k \in 1 .. Len(s) + Len(t) /\ (s \o t)[k] = s[k]
  BY <1>1, <1>2
<1>4. ASSUME NEW k \in DOMAIN t
      PROVE  k + Len(s) \in 1 .. Len(s) + Len(t) /\ (s \o t)[k + Len(s)] = t[k]
  BY <1>1, <1>2
<1>5. ASSUME NEW j \in DOMAIN (s \o t)
      PROVE  (\E k \in DOMAIN s : (s \o t)[j] = s[k]) \/ (\E k \in DOMAIN t : (s \o t)[j] = t[k])
  <2>1. CASE j <= Len(s)
    <3>1. j \in DOMAIN s /\ (s \o t)[j] = s[j]
      BY <1>1, <1>2, <2>1
    <3> QED
      BY <3>1
  <2>2. CASE ~(j <= Len(s))
    <3>1. j - Len(s) \in DOMAIN t /\ (s \o t)[j] = t[j - Len(s)]
      BY <1>1, <1>2, <2>2
    <3> QED
      BY <3>1
  <2> QED
    BY <2>1, <2>2
<1> QED
  BY <1>1, <1>2, <1>3, <1>4, <1>5

\* What is in a sequence with one more element.
LEMMA AppendHas ==
    ASSUME NEW S, NEW s \in Seq(S), NEW x
    PROVE  ToSet(Append(s, x)) = ToSet(s) \cup {x}
<1>1. /\ Len(s) \in Nat /\ DOMAIN s = 1 .. Len(s) /\ DOMAIN Append(s, x) = 1 .. Len(s) + 1
      /\ \A i \in 1 .. Len(s) : Append(s, x)[i] = s[i]
      /\ Append(s, x)[Len(s) + 1] = x
  OBVIOUS
<1> QED
  BY <1>1 DEF ToSet

\* Removing an element leaves the others.
LEMMA RemoveFacts ==
    ASSUME NEW S, NEW s \in Seq(S), NEW i \in DOMAIN s
    PROVE  /\ RemoveAt(s, i) \in Seq(S)
           /\ \A k \in DOMAIN s \ {i} : \E j \in DOMAIN RemoveAt(s, i) : RemoveAt(s, i)[j] = s[k]
           /\ \A j \in DOMAIN RemoveAt(s, i) : \E k \in DOMAIN s : RemoveAt(s, i)[j] = s[k]
<1> DEFINE a == SubSeq(s, 1, i - 1)
           b == SubSeq(s, i + 1, Len(s))
<1>1. /\ Len(s) \in Nat /\ i \in 1 .. Len(s)
      /\ a \in Seq(S) /\ Len(a) = i - 1 /\ \A j \in 1 .. i - 1 : a[j] = s[j]
      /\ b \in Seq(S) /\ Len(b) = Len(s) - i /\ \A j \in 1 .. Len(s) - i : b[j] = s[i + j]
  OBVIOUS
<1>2. RemoveAt(s, i) = a \o b
  BY DEF RemoveAt
<1> HIDE DEF a, b
<1>3. /\ a \o b \in Seq(S) /\ Len(a \o b) = Len(s) - 1
      /\ \A j \in 1 .. i - 1 : (a \o b)[j] = s[j]
      /\ \A j \in i .. Len(s) - 1 : (a \o b)[j] = s[j + 1]
  <2>1. /\ a \o b \in Seq(S) /\ Len(a \o b) = Len(a) + Len(b)
        /\ \A j \in 1 .. Len(a) + Len(b) : (a \o b)[j] = IF j <= Len(a) THEN a[j] ELSE b[j - Len(a)]
    BY <1>1, ConcatProperties
  <2>2. Len(a) + Len(b) = Len(s) - 1
    BY <1>1
  <2>3. ASSUME NEW j \in 1 .. i - 1 PROVE (a \o b)[j] = s[j]
    BY <1>1, <2>1, <2>3
  <2>4. ASSUME NEW j \in i .. Len(s) - 1 PROVE (a \o b)[j] = s[j + 1]
    <3>1. j \in 1 .. Len(a) + Len(b) /\ ~(j <= Len(a)) /\ j - Len(a) \in 1 .. Len(s) - i
          /\ i + (j - Len(a)) = j + 1
      BY <1>1, <2>4
    <3> QED
      BY <1>1, <2>1, <3>1
  <2> QED
    BY <2>1, <2>2, <2>3, <2>4
<1>4. ASSUME NEW k \in DOMAIN s \ {i} PROVE \E j \in DOMAIN (a \o b) : (a \o b)[j] = s[k]
  <2>1. k \in 1 .. Len(s) /\ k # i
    OBVIOUS
  <2>0. DOMAIN (a \o b) = 1 .. Len(s) - 1
    BY <1>3
  <2>2. CASE k < i
    <3>1. k \in 1 .. i - 1 /\ k \in 1 .. Len(s) - 1
      BY <1>1, <2>1, <2>2
    <3> QED
      BY <1>3, <2>0, <3>1
  <2>3. CASE k > i
    <3>1. k - 1 \in i .. Len(s) - 1 /\ k - 1 \in 1 .. Len(s) - 1 /\ (k - 1) + 1 = k
      BY <1>1, <2>1, <2>3
    <3> QED
      BY <1>3, <2>0, <3>1
  <2> QED
    BY <1>1, <2>1, <2>2, <2>3
<1>5. ASSUME NEW j \in DOMAIN (a \o b) PROVE \E k \in DOMAIN s : (a \o b)[j] = s[k]
  <2>1. j \in 1 .. Len(s) - 1
    BY <1>3
  <2>2. j \in 1 .. i - 1 \/ j \in i .. Len(s) - 1
    BY <1>1, <2>1
  <2>3. j \in DOMAIN s /\ j + 1 \in DOMAIN s
    BY <1>1, <2>1
  <2> QED
    BY <1>3, <2>2, <2>3
<1> QED
  BY <1>2, <1>3, <1>4, <1>5

-----------------------------------------------------------------------------
(***************************************************************************)
(* The shapes of what is passed around.                                    *)
(***************************************************************************)

Row == [v : RuleValue, status : {"on", "off", "none"}, of : Nat]
Page == [page : {"none", "up"}, visit : Nat, token : Tokens \cup {NoToken}, run_state : {0, 1},
         list : [Lists -> Seq(Row)], synced : BOOLEAN, known : BOOLEAN, base : Nat,
         touched : SUBSET Nat]
Request == [from : Consoles \cup {Other}, visit : Nat, nr : Nat,
            opt : {"none", "rules", "status", "update", "config", "empty"},
            token : Tokens \cup {NoToken}, enabled : {0, 1}, data : Seq(RuleValue),
            synced : BOOLEAN, base : Nat, touched : SUBSET Nat]
Doc == [kind : {"error", "ok", "cut"}] \cup [kind : {"status"}, enabled : BOOLEAN]
       \cup [kind : {"list"}, list : Seq(RuleValue), ver : Nat]
Piece == {"whole", "first", "rest"}

Shapes ==
    /\ policy \in Seq(Rule) /\ enabled \in BOOLEAN /\ alive \in BOOLEAN
    /\ trail \in Nat /\ version \in Nat
    /\ conn \in [pieces : Seq(Piece), out : Seq(Doc)]
    /\ proxy \in [at : {"idle", "waiting"}, req : Request, docs : Seq(Doc)]
    /\ proxy.at = "idle" => proxy = Idle /\ conn = NoConn
    /\ wire \subseteq Request
    /\ back \subseteq [req : Request, docs : Seq(Doc)]
    /\ \A b \in back : b.req.from \in Consoles
    /\ con \in [Consoles -> Page]
    /\ count \in [edits : Nat, uploads : 0 .. MaxUploads, others : Nat]

(***************************************************************************)
(* The parts of the invariant.                                             *)
(***************************************************************************)

Long == <<"long update">> \in past
Explained == past \cap {<<"off chosen">>, <<"status unknown">>} # {}
Installed(r) == <<"installed", r.from, r.nr>> \in past
IsUpdate(r) == r.opt = "update"

\* What is on its way to the server: the requests not yet served and the one the proxy serves.
UnderWay == wire \cup {proxy.req}

\* The documents on their way to a page.
Answers == ToSet(conn.out) \cup ToSet(proxy.docs) \cup UNION {ToSet(b.docs) : b \in back}

\* Until an update is too long, every request comes as one piece, which is answered once, by a
\* server that lives.
WholeInv ==
    /\ \A r \in UnderWay : Len(r.data) > MaxFit => Long
    /\ \A i \in DOMAIN conn.pieces : conn.pieces[i] = "whole" => Len(conn.pieces) = 1
    /\ ~Long =>
          /\ alive
          /\ trail = 0
          /\ conn.pieces \in {<<>>, <<"whole">>}
          /\ conn.out # <<>> => conn.pieces = <<>>

\* An update that has been answered has been installed.
InstalledInv ==
    /\ proxy.at = "waiting" /\ IsUpdate(proxy.req) /\ conn.out # <<>> => (Installed(proxy.req) \/ Long)
    /\ \A b \in back : IsUpdate(b.req) => (Installed(b.req) \/ Long)
    /\ \A c \in Consoles, n \in Nat : <<"success", c, n>> \in past => (<<"installed", c, n>> \in past \/ Long)

\* A run_state 0 that a page got from the server, uploads or is told has been explained.
OffInv ==
    /\ \A r \in UnderWay : IsUpdate(r) /\ r.enabled = 0 => Explained
    /\ \A c \in Consoles : con[c].known /\ con[c].run_state = 0 => Explained
    /\ \A d \in Answers : d.kind = "status" /\ ~d.enabled => Explained
    /\ ~enabled => Explained

\* The uploads that have been installed; each is installed at most once.
Done == {n \in 1 .. MaxUploads : \E c \in Consoles : <<"installed", c, n>> \in past}
Waiting(r) == r \in wire \/ (r = proxy.req /\ proxy.at = "waiting" /\ conn.pieces = <<"whole">>)
CountInv ==
    /\ version = Cardinality(Done)
    /\ \A n \in Done : n <= count.uploads
    /\ \A r \in UnderWay : IsUpdate(r) => r.from \in Consoles /\ r.nr \in 1 .. count.uploads
    /\ \A r \in UnderWay : IsUpdate(r) /\ Waiting(r) => r.nr \notin Done
    /\ \A r, s \in wire : IsUpdate(r) /\ IsUpdate(s) /\ r.nr = s.nr => r = s
    /\ \A r \in wire : IsUpdate(r) /\ IsUpdate(proxy.req) => r.nr # proxy.req.nr

\* What a page, an answer and an upload have of the policy if they are of its version: the page has
\* a row for every rule its user left alone, and the upload has what transformer makes of it.
ListOf(r) == IF r.type = TYPE_BLACK_LIST THEN "black" ELSE "white"
HasRows(p) ==
    \A i \in DOMAIN policy \ p.touched : \E k \in DOMAIN p.list[ListOf(policy[i])] :
        p.list[ListOf(policy[i])][k] = Item(toJson(policy[i]), "on", i)
HasElements(r) ==
    \A i \in DOMAIN policy \ r.touched : \E k \in DOMAIN r.data :
        r.data[k] = transformer(toJson(policy[i]), KeptType(policy[i]))
IsPolicy(list) == list = [i \in DOMAIN policy |-> toJson(policy[i])]
KeepInv ==
    /\ \A r \in UnderWay : r.synced => r.base <= version /\ (r.base = version => HasElements(r))
    /\ \A c \in Consoles : LET p == con[c] IN
          p.synced => p.base <= version /\ (p.base = version => HasRows(p))
    /\ \A d \in Answers : d.kind = "list" => d.ver <= version /\ (d.ver = version => IsPolicy(d.list))

\* The addresses and ports of the sample rows. If neither a file nor a user gives a rule that has
\* them, a rule that looks so comes from a page that never got its lists.
Looks(r) == <<r.src_ip, r.dest_ip, r.src_port, r.dest_port>>
SampleLooks == Looks(SampleRule(TYPE_BLACK_LIST))
Foreign(v) == Looks(ParseFromJson(v)) # SampleLooks
NoSamplesGiven ==
    /\ \A f \in Files : \A i \in DOMAIN f : Looks(f[i]) # SampleLooks
    /\ \A v \in Typed : Foreign(v)

Early == <<"lists unknown">> \in past
ForeignRows(p) == \A l \in Lists : \A i \in DOMAIN p.list[l] : Foreign(p.list[l][i].v)
AllForeign(list) == \A i \in DOMAIN list : Foreign(list[i])
SampleInv ==
    /\ Early \/ \A i \in DOMAIN policy : Looks(policy[i]) # SampleLooks
    /\ \A r \in UnderWay : IsUpdate(r) => (Early \/ AllForeign(r.data))
    /\ \A c \in Consoles : con[c].synced => (Early \/ ForeignRows(con[c]))
    /\ \A d \in Answers : d.kind = "list" => (Early \/ AllForeign(d.list))

IndInv ==
    /\ Shapes
    /\ WholeInv
    /\ InstalledInv
    /\ OffInv
    /\ CountInv
    /\ KeepInv

-----------------------------------------------------------------------------
(***************************************************************************)
(* Rules as the page has them.                                             *)
(***************************************************************************)

\* The names toJson writes.
LEMMA NamesWritten ==
    /\ \A n : getProtocolString(n) \in Names
    /\ \A n : getIcmpString(n) \in Names
<1>1. \A n : getProtocolString(n) \in Names
  BY DEF getProtocolString, Names
<1>2. ASSUME NEW n PROVE getIcmpString(n) \in Names
  <2> DEFINE Is(p) == IcmpTypes[p] = n
  <2>1. CASE \E p \in DOMAIN IcmpTypes : Is(p)
    <3>1. (CHOOSE p \in DOMAIN IcmpTypes : Is(p)) \in DOMAIN IcmpTypes
      BY <2>1
    <3>2. getIcmpString(n) = CHOOSE p \in DOMAIN IcmpTypes : Is(p)
      BY <2>1 DEF getIcmpString
    <3> QED
      BY <3>1, <3>2 DEF Names
  <2>2. CASE ~ \E p \in DOMAIN IcmpTypes : Is(p)
    BY <2>2 DEF getIcmpString, Names
  <2> QED
    BY <2>1, <2>2
<1> QED
  BY <1>1, <1>2

\* What toJson writes is a JSON object ParseFromJson can read.
LEMMA JsonValue ==
    ASSUME NEW r \in Rule
    PROVE  toJson(r) \in RuleValue /\ toJson(r).type = r.type
<1> DEFINE v == toJson(r)
<1>1. v.src_ip \in Seq(Nat) /\ v.target_ip \in Seq(Nat)
  BY InetRoundTrip DEF toJson, Rule
<1>2. v.src_port \in Nat /\ v.target_port \in Nat
  <2>1. r.src_port \in Uint16 /\ r.dest_port \in Uint16
    BY DEF Rule
  <2>2. ntohs(r.src_port) \in Uint16 /\ ntohs(r.dest_port) \in Uint16
    BY <2>1, NtohsInvolution
  <2> QED
    BY <2>2 DEF toJson, Uint16
<1>3. v.type = r.type /\ v.type \in Nat
  BY DEF toJson, Rule, Octet
<1>4. v.timepass \in SUBSET Nat /\ v.time_pass = Absent
  BY DEF toJson, Rule
<1>5. v.protocol \in Seq(Names)
  <2>1. getProtocolString(r.protocol) \in Names /\ getIcmpString(r.sub_protocol) \in Names
    BY NamesWritten
  <2>2. v.protocol \in {<<getProtocolString(r.protocol), getIcmpString(r.sub_protocol)>>,
                        <<getProtocolString(r.protocol)>>}
    BY DEF toJson
  <2>3. \A a, b \in Names : <<a, b>> \in Seq(Names) /\ <<a>> \in Seq(Names)
    OBVIOUS
  <2> HIDE DEF v
  <2> QED
    BY <2>1, <2>2, <2>3
<1>6. v = [src_ip |-> v.src_ip, target_ip |-> v.target_ip, src_port |-> v.src_port,
           target_port |-> v.target_port, type |-> v.type, timepass |-> v.timepass,
           time_pass |-> v.time_pass, protocol |-> v.protocol]
  BY DEF toJson
<1> HIDE DEF v
<1>7. v \in RuleValue
  BY <1>1, <1>2, <1>3, <1>4, <1>5, <1>6 DEF RuleValue
<1> QED
  BY <1>3, <1>7 DEF v

\* What transformer sends of a row is an object, so that no element makes handle throw.
LEMMA TransformerValue ==
    ASSUME NEW v \in RuleValue, NEW type \in Nat
    PROVE  transformer(v, type) \in RuleValue /\ transformer(v, type) # Absent
<1>1. transformer(v, type) \in RuleValue
  BY DEF transformer, RuleValue
<1> QED
  BY <1>1, AbsentAssumption

\* The sample rows are rows.
LEMMA SampleRows == Samples \in Seq(Row)
<1>1. SampleValue \in RuleValue
  BY DEF SampleValue, RuleValue, Names
<1>2. Item(SampleValue, "on", 0) \in Row /\ Item(SampleValue, "off", 0) \in Row
  BY <1>1 DEF Item, Row
<1> QED
  BY <1>2 DEF Samples

\* An upload has every row that is on, as transformer changes it.
LEMMA ElementsFacts ==
    ASSUME NEW rows \in Seq(Row), NEW type \in Nat
    PROVE  /\ Elements(rows, type) \in Seq(RuleValue)
           /\ \A i \in DOMAIN rows : IsOn(rows[i]) =>
                 \E k \in DOMAIN Elements(rows, type) :
                    Elements(rows, type)[k] = transformer(rows[i].v, type)
           /\ \A k \in DOMAIN Elements(rows, type) : \E i \in DOMAIN rows :
                 Elements(rows, type)[k] = transformer(rows[i].v, type)
<1> DEFINE s == [i \in DOMAIN rows |-> transformer(rows[i].v, type)]
           at == {i \in DOMAIN rows : IsOn(rows[i])}
<1>0. \A i \in DOMAIN rows : rows[i] \in Row
  OBVIOUS
<1>1. \A i \in DOMAIN rows : rows[i].v \in RuleValue
  BY <1>0 DEF Row
<1>2. \A i \in DOMAIN rows : transformer(rows[i].v, type) \in RuleValue
  BY <1>1, TransformerValue
<1>3. s \in Seq(RuleValue) /\ DOMAIN s = DOMAIN rows
  <2>1. DOMAIN rows = 1 .. Len(rows) /\ Len(rows) \in Nat
    OBVIOUS
  <2> QED
    BY <1>2, <2>1
<1>4. \A i \in DOMAIN rows : s[i] = transformer(rows[i].v, type)
  OBVIOUS
<1>5. Elements(rows, type) = Sublist(s, at)
  BY DEF Elements
<1>6. at \in SUBSET DOMAIN s
  BY <1>3
<1> HIDE DEF s
<1>7. /\ Sublist(s, at) \in Seq(RuleValue)
      /\ \A k \in DOMAIN Sublist(s, at) : \E i \in at : Sublist(s, at)[k] = s[i]
      /\ \A i \in at : \E k \in DOMAIN Sublist(s, at) : Sublist(s, at)[k] = s[i]
  BY <1>3, <1>6, SublistFacts
<1> QED
  BY <1>4, <1>5, <1>7

\* Every rule of a list document becomes a row of the list its type belongs to.
LEMMA RowsFacts ==
    ASSUME NEW doc, doc.list \in Seq(RuleValue), NEW l \in Lists
    PROVE  /\ Rows(doc, l) \in Seq(Row)
           /\ \A i \in DOMAIN doc.list : (doc.list[i].type = TYPE_BLACK_LIST <=> l = "black") =>
                 \E k \in DOMAIN Rows(doc, l) : Rows(doc, l)[k] = Item(doc.list[i], "on", i)
           /\ \A k \in DOMAIN Rows(doc, l) : \E i \in DOMAIN doc.list :
                 Rows(doc, l)[k] = Item(doc.list[i], "on", i)
<1> DEFINE s == [i \in DOMAIN doc.list |-> Item(doc.list[i], "on", i)]
           at == {i \in DOMAIN doc.list : (doc.list[i].type = TYPE_BLACK_LIST) <=> (l = "black")}
<1>1. DOMAIN doc.list = 1 .. Len(doc.list) /\ Len(doc.list) \in Nat
  OBVIOUS
<1>2. \A i \in DOMAIN doc.list : Item(doc.list[i], "on", i) \in Row
  BY <1>1 DEF Item, Row
<1>3. s \in Seq(Row) /\ DOMAIN s = DOMAIN doc.list
  BY <1>1, <1>2
<1>4. \A i \in DOMAIN doc.list : s[i] = Item(doc.list[i], "on", i)
  OBVIOUS
<1>5. Rows(doc, l) = Sublist(s, at)
  BY DEF Rows
<1>6. at \in SUBSET DOMAIN s
  BY <1>3
<1> HIDE DEF s
<1>7. /\ Sublist(s, at) \in Seq(Row)
      /\ \A k \in DOMAIN Sublist(s, at) : \E i \in at : Sublist(s, at)[k] = s[i]
      /\ \A i \in at : \E k \in DOMAIN Sublist(s, at) : Sublist(s, at)[k] = s[i]
  BY <1>3, <1>6, SublistFacts
<1>8. \A i \in at : i \in DOMAIN doc.list
  OBVIOUS
<1>9. ASSUME NEW i \in DOMAIN doc.list, doc.list[i].type = TYPE_BLACK_LIST <=> l = "black"
      PROVE  \E k \in DOMAIN Rows(doc, l) : Rows(doc, l)[k] = Item(doc.list[i], "on", i)
  <2>1. i \in at
    BY <1>9
  <2> HIDE DEF at
  <2> QED
    BY <1>4, <1>5, <1>7, <2>1
<1> HIDE DEF at
<1>10. \A k \in DOMAIN Rows(doc, l) : \E i \in DOMAIN doc.list :
          Rows(doc, l)[k] = Item(doc.list[i], "on", i)
  <2> SUFFICES ASSUME NEW k \in DOMAIN Rows(doc, l)
               PROVE  \E i \in DOMAIN doc.list : Rows(doc, l)[k] = Item(doc.list[i], "on", i)
    OBVIOUS
  <2>1. PICK i \in at : Rows(doc, l)[k] = s[i]
    BY <1>5, <1>7
  <2>2. i \in DOMAIN doc.list
    BY <1>8
  <2> QED
    BY <1>4, <2>1, <2>2
<1>11. Rows(doc, l) \in Seq(Row)
  BY <1>5, <1>7
<1> QED
  BY <1>9, <1>10, <1>11

\* What the server makes of a rule that a page sends back as it got it: the type the page has kept,
\* and the other members as after a round trip.
LEMMA KeptRule ==
    ASSUME NEW r \in Rule
    PROVE  LET q == ParseFromJson(transformer(toJson(r), KeptType(r)))
           IN  q.type = KeptType(r) /\ Covers(q, r)
<1> DEFINE v == toJson(r)
           w == transformer(v, KeptType(r))
           q == ParseFromJson(w)
           s == RoundTrip(r)
<1>1. KeptType(r) \in {0, 1}
  BY DEF KeptType, TYPE_BLACK_LIST, TYPE_WHITE_LIST
<1>2. v \in RuleValue
  BY JsonValue
<1>3. /\ w.src_ip = v.src_ip /\ w.target_ip = v.target_ip /\ w.src_port = v.src_port
      /\ w.target_port = v.target_port /\ w.protocol = v.protocol
      /\ w.type = KeptType(r) /\ w.time_pass = Absent
  BY <1>2 DEF transformer, RuleValue
<1>4. v.time_pass = Absent
  BY DEF toJson
<1> HIDE DEF v, w
<1>5. /\ q.src_ip = s.src_ip /\ q.dest_ip = s.dest_ip /\ q.src_port = s.src_port
      /\ q.dest_port = s.dest_port /\ q.protocol = s.protocol /\ q.sub_protocol = s.sub_protocol
      /\ q.time_pass = s.time_pass
  BY <1>3, <1>4 DEF ParseFromJson, RoundTrip, v
<1>6. q.type = KeptType(r)
  <2>1. q.type = Low8(getMember(KeptType(r), 0))
    BY <1>3 DEF ParseFromJson
  <2>2. getMember(KeptType(r), 0) = KeptType(r)
    BY <1>1, PresentMember
  <2> QED
    BY <1>1, <2>1, <2>2 DEF Low8
<1>7. ASSUME NEW p \in Packets, NEW t \in Clocks, check(r, p, t) PROVE check(q, p, t)
  <2>1. p \in Packet /\ t \in Clock
    BY ControlAssumption
  <2>2. check(s, p, t)
    BY <1>7, <2>1, RoundTripWidens
  <2> HIDE DEF q, s
  <2> QED
    BY <1>5, <2>2 DEF check, leastCheck
<1>8. Covers(q, r)
  BY <1>7 DEF Covers
<1> QED
  BY <1>6, <1>8 DEF q, w, v

\* Addresses and ports decide how a rule looks.
LEMMA ForeignSame ==
    ASSUME NEW v, NEW w, w.src_ip = v.src_ip, w.target_ip = v.target_ip,
           w.src_port = v.src_port, w.target_port = v.target_port
    PROVE  Foreign(w) <=> Foreign(v)
  BY DEF Foreign, Looks, ParseFromJson

\* transformer keeps them.
LEMMA ForeignTransformer ==
    ASSUME NEW v \in RuleValue, NEW type \in Nat
    PROVE  Foreign(transformer(v, type)) <=> Foreign(v)
<1> DEFINE w == transformer(v, type)
<1>1. /\ w.src_ip = v.src_ip /\ w.target_ip = v.target_ip
      /\ w.src_port = v.src_port /\ w.target_port = v.target_port
  BY DEF transformer, RuleValue
<1> HIDE DEF w
<1>2. Foreign(w) <=> Foreign(v)
  BY <1>1, ForeignSame
<1> QED
  BY <1>2 DEF w

\* And so do toJson and ParseFromJson.
LEMMA ForeignJson ==
    ASSUME NEW r \in Rule
    PROVE  Foreign(toJson(r)) <=> Looks(r) # SampleLooks
<1> DEFINE q == RoundTrip(r)
<1>1. q.src_ip = r.src_ip /\ q.dest_ip = r.dest_ip /\ q.src_port = r.src_port /\ q.dest_port = r.dest_port
  BY RoundTripIs
<1>2. q = ParseFromJson(toJson(r))
  BY DEF RoundTrip
<1> HIDE DEF q
<1> QED
  BY <1>1, <1>2 DEF Foreign, Looks

\* The samples of both lists look the same.
LEMMA SampleTypes == \A type \in Nat : Looks(SampleRule(type)) = SampleLooks
<1> SUFFICES ASSUME NEW type \in Nat PROVE Looks(SampleRule(type)) = SampleLooks
  OBVIOUS
<1> DEFINE v == transformer(SampleValue, type)
           w == transformer(SampleValue, TYPE_BLACK_LIST)
<1>1. /\ w.src_ip = v.src_ip /\ w.target_ip = v.target_ip
      /\ w.src_port = v.src_port /\ w.target_port = v.target_port
  BY DEF transformer, SampleValue
<1> HIDE DEF v, w
<1>2. Looks(ParseFromJson(v)) = Looks(ParseFromJson(w))
  BY <1>1 DEF Looks, ParseFromJson
<1> QED
  BY <1>2 DEF v, w, SampleLooks, SampleRule

-----------------------------------------------------------------------------
(***************************************************************************)
(* The kinds of steps, by what the invariant needs to know of them.        *)
(***************************************************************************)

\* A document that says how things are.
Current(d) ==
    /\ d.kind = "status" => d.enabled = enabled
    /\ d.kind = "list" => d.ver = version /\ IsPolicy(d.list)

\* The server answers a piece and changes nothing.
Answering(d) ==
    /\ conn.pieces # <<>>
    /\ Head(conn.pieces) = "whole" => ~IsUpdate(proxy.req)
    /\ Head(conn.pieces) # "whole" => Long
    /\ d \in Doc /\ Current(d)
    /\ conn' = Answered(d)
    /\ UNCHANGED <<server, trail, proxy, wire, back, con, count, past>>

\* It installs an update.
Installing ==
    /\ conn.pieces # <<>> /\ Head(conn.pieces) = "whole" /\ IsUpdate(proxy.req)
    /\ policy' = [i \in DOMAIN proxy.req.data |-> ParseFromJson(proxy.req.data[i])]
    /\ enabled' = (proxy.req.enabled > 0)
    /\ version' = version + 1
    /\ past' = past \cup {<<"installed", proxy.req.from, proxy.req.nr>>}
    /\ conn' = Answered(OkDoc)
    /\ UNCHANGED <<alive, trail, proxy, wire, back, con, count>>

\* It gets a later piece of a long update, which may terminate it.
Perishing ==
    /\ Long
    /\ alive' \in BOOLEAN /\ trail' \in Nat
    /\ conn' \in {conn, [conn EXCEPT !.pieces = <<>>]}
    /\ UNCHANGED <<policy, enabled, version, proxy, wire, back, con, count, past>>

\* The proxy takes a request to the server.
Forwarding(r) ==
    /\ r \in wire
    /\ proxy.at = "idle"
    /\ wire' = wire \ {r}
    /\ proxy' = [at |-> "waiting", req |-> r, docs |-> ErrorDocs(r)]
    /\ conn' = [pieces |-> Pieces(r), out |-> <<>>]
    /\ UNCHANGED <<server, trail, back, con, count, past>>

\* It answers a request because nobody listens.
Refusing(r) ==
    /\ r \in wire
    /\ Long
    /\ wire' = wire \ {r}
    /\ Reply(r, ErrorDocs(r))
    /\ UNCHANGED <<server, trail, conn, proxy, con, count, past>>

\* It answers the request it serves and closes the connection.
Finishing(docs) ==
    /\ proxy.at = "waiting"
    /\ docs \in Seq(Doc) /\ \A d \in ToSet(docs) : d \in Answers \/ d.kind = "cut"
    /\ Reply(proxy.req, docs)
    /\ conn.out # <<>> \/ Long
    /\ trail' \in {trail, trail + Len(conn.pieces)}
    /\ proxy' = Idle
    /\ conn' = NoConn
    /\ UNCHANGED <<server, wire, con, count, past>>

\* A page gets an answer.
Delivering(b) ==
    /\ b \in back /\ back' = back \ {b}
    /\ \/ UNCHANGED <<con, past>>
       \/ /\ IsUpdate(b.req)
          /\ past' = past \cup {<<"success", b.req.from, b.req.nr>>}
          /\ UNCHANGED con
       \/ \E d \in ToSet(b.docs) : d.kind = "list" /\ syncRuleList(b.req.from, d) /\ UNCHANGED past
       \/ syncStatus(b.req.from, b.docs) /\ UNCHANGED past
    /\ UNCHANGED <<server, trail, conn, proxy, wire, count>>

\* A page is loaded, with its queries.
Loading(c) ==
    /\ con' = [con EXCEPT ![c] = FreshPage("up", con[c].visit + 1, con[c].token)]
    /\ \A r \in wire' \ wire : r \in Request /\ ~IsUpdate(r) /\ r.data = <<>> /\ ~r.synced
    /\ wire \subseteq wire'
    /\ UNCHANGED <<server, trail, conn, proxy, back, count, past>>

\* A user changes a page: what is left alone stays, and off is noted.
Editing(c, q) ==
    /\ q \in Page
    /\ con' = [con EXCEPT ![c] = q]
    /\ q.known = con[c].known /\ q.synced = con[c].synced /\ q.base = con[c].base
    /\ q.run_state = 0 => con[c].run_state = 0 \/ <<"off chosen">> \in past'
    /\ HasRows(con[c]) => HasRows(q)
    /\ NoSamplesGiven /\ ForeignRows(con[c]) => ForeignRows(q)
    /\ past' \in {past, past \cup {<<"off chosen">>}}
    /\ count' = [count EXCEPT !.edits = @ + 1]
    /\ UNCHANGED <<server, trail, conn, proxy, wire, back>>

Uploading(c) == uploadRuleList(c) /\ UNCHANGED <<server, trail, conn, proxy, back>>

Kinds ==
    \/ UNCHANGED vars
    \/ \E d \in Doc : Answering(d)
    \/ Installing
    \/ Perishing
    \/ \E r \in wire : Forwarding(r) \/ Refusing(r)
    \/ \E docs \in Seq(Doc) : Finishing(docs)
    \/ \E b \in back : Delivering(b)
    \/ \E c \in Consoles : Loading(c) \/ Uploading(c) \/ \E q \in Page : Editing(c, q)
    \/ OtherClient

\* The rows s of a list become t: a row of a rule that does not count as touched stays, and if
\* nobody gives a sample, what is new is none.
RowsStay(s, t, T) ==
    /\ \A k \in DOMAIN s : (\E j \in DOMAIN t : t[j] = s[k]) \/ s[k].of \in T \cup {0}
    /\ NoSamplesGiven => \A j \in DOMAIN t : Foreign(t[j].v) \/ \E k \in DOMAIN s : t[j].v = s[k].v

\* List l of page c becomes t, and T is touched.
ListChange(c, l, t, T) ==
    /\ con[c].touched \subseteq T
    /\ RowsStay(con[c].list[l], t, T)
    /\ con' = [con EXCEPT ![c] = [con[c] EXCEPT !.list[l] = t, !.touched = T]]

\* The page after a change of one of its lists: a row of the policy that was there is there still,
\* unless its rule counts as touched.
LEMMA EditRows ==
    ASSUME Shapes, NEW c \in Consoles, NEW l \in Lists, NEW t \in Seq(Row), NEW T \in SUBSET Nat,
           con[c].touched \subseteq T, RowsStay(con[c].list[l], t, T),
           NEW q, q = [con[c] EXCEPT !.list[l] = t, !.touched = T]
    PROVE  /\ q \in Page
           /\ q.known = con[c].known /\ q.synced = con[c].synced /\ q.base = con[c].base
           /\ q.run_state = con[c].run_state
           /\ HasRows(con[c]) => HasRows(q)
           /\ NoSamplesGiven /\ ForeignRows(con[c]) => ForeignRows(q)
<1> DEFINE p == con[c]
<1>1. p \in Page
  BY DEF Shapes
<1>2. p.list \in [Lists -> Seq(Row)]
  BY <1>1 DEF Page
<1> HIDE DEF p
<1>3. q = [p EXCEPT !.list = [p.list EXCEPT ![l] = t], !.touched = T]
  BY <1>1 DEF p, Page
<1>4. [p.list EXCEPT ![l] = t] \in [Lists -> Seq(Row)]
  BY <1>2
<1>5. q \in Page
  BY <1>1, <1>3, <1>4 DEF Page
<1>6. /\ q.known = p.known /\ q.synced = p.synced /\ q.base = p.base /\ q.run_state = p.run_state
      /\ q.touched = T /\ q.list = [p.list EXCEPT ![l] = t]
  BY <1>1, <1>3 DEF Page
<1>7. ASSUME HasRows(p) PROVE HasRows(q)
  <2> SUFFICES ASSUME NEW i \in DOMAIN policy, i \notin T
               PROVE  \E k \in DOMAIN q.list[ListOf(policy[i])] :
                         q.list[ListOf(policy[i])][k] = Item(toJson(policy[i]), "on", i)
    BY <1>6 DEF HasRows
  <2> DEFINE m == ListOf(policy[i])
  <2>1. m \in Lists
    BY DEF ListOf, Lists
  <2>2. i \notin p.touched
    BY DEF p
  <2>3. PICK k \in DOMAIN p.list[m] : p.list[m][k] = Item(toJson(policy[i]), "on", i)
    BY <1>7, <2>2 DEF HasRows
  <2>4. i # 0
    BY DEF Shapes
  <2>5. p.list[m][k].of = i
    BY <2>3 DEF Item
  <2>6. CASE m = l
    <3>1. \E j \in DOMAIN t : t[j] = p.list[m][k]
      BY <2>3, <2>4, <2>5, <2>6 DEF p, RowsStay
    <3>2. q.list[m] = t
      BY <1>2, <1>6, <2>6
    <3> QED
      BY <2>3, <3>1, <3>2
  <2>7. CASE m # l
    <3>1. q.list[m] = p.list[m]
      BY <1>2, <1>6, <2>1, <2>7
    <3> QED
      BY <2>3, <3>1
  <2> QED
    BY <2>6, <2>7
<1>8. ASSUME NoSamplesGiven, ForeignRows(p), NEW m \in Lists, NEW i \in DOMAIN q.list[m]
      PROVE  Foreign(q.list[m][i].v)
  <2>1. CASE m = l
    <3>1. q.list[m] = t
      BY <1>2, <1>6, <2>1
    <3>2. Foreign(t[i].v) \/ \E k \in DOMAIN p.list[l] : t[i].v = p.list[l][k].v
      BY <1>8, <3>1 DEF p, RowsStay
    <3> QED
      BY <1>8, <3>1, <3>2 DEF ForeignRows
  <2>2. CASE m # l
    <3>1. q.list[m] = p.list[m]
      BY <1>2, <1>6, <2>2
    <3> QED
      BY <1>8, <3>1 DEF ForeignRows
  <2> QED
    BY <2>1, <2>2
<1>9. NoSamplesGiven /\ ForeignRows(p) => ForeignRows(q)
  BY <1>8 DEF ForeignRows
<1> QED
  BY <1>5, <1>6, <1>7, <1>9 DEF p

\* The changes a user can make to the lists, as changes of one list and of what is touched.
LEMMA ListEdits ==
    ASSUME Shapes, NEW c \in Consoles, EditLists(c)
    PROVE  \E l \in Lists, t \in Seq(Row), T \in SUBSET Nat : ListChange(c, l, t, T)
<1> DEFINE p == con[c]
<1>1. p \in Page /\ con \in [Consoles -> Page]
  BY DEF Shapes
<1>2. p.list \in [Lists -> Seq(Row)] /\ p.touched \in SUBSET Nat
  BY <1>1 DEF Page
<1>3. ASSUME NEW l \in Lists, NEW i \in DOMAIN p.list[l]
      PROVE  /\ p.list[l] \in Seq(Row) /\ p.list[l][i] \in Row
             /\ Touch(c, p.list[l][i]) \in SUBSET Nat
             /\ p.touched \subseteq Touch(c, p.list[l][i])
             /\ p.list[l][i].of \in Touch(c, p.list[l][i]) \cup {0}
  <2>1. p.list[l] \in Seq(Row)
    BY <1>2
  <2>2. p.list[l][i] \in Row
    BY <2>1
  <2>3. p.list[l][i].of \in Nat
    BY <2>2 DEF Row
  <2> QED
    BY <1>2, <2>1, <2>2, <2>3 DEF Touch
<1> HIDE DEF p
<1>4. ASSUME NEW l \in Lists, NEW i \in DOMAIN p.list[l], NEW e \in Row,
             NoSamplesGiven => Foreign(e.v) \/ e.v = p.list[l][i].v,
             con' = [con EXCEPT ![c] = [p EXCEPT !.list[l] = [p.list[l] EXCEPT ![i] = e],
                                                !.touched = Touch(c, p.list[l][i])]]
      PROVE  \E t \in Seq(Row), T \in SUBSET Nat : ListChange(c, l, t, T)
  <2> DEFINE s == p.list[l]
             t == [s EXCEPT ![i] = e]
             T == Touch(c, s[i])
  <2>1. /\ s \in Seq(Row) /\ i \in DOMAIN s /\ T \in SUBSET Nat
        /\ p.touched \subseteq T /\ s[i].of \in T \cup {0}
        /\ NoSamplesGiven => Foreign(e.v) \/ e.v = s[i].v
    BY <1>3, <1>4
  <2> HIDE DEF s, T
  <2>2. t \in Seq(Row) /\ DOMAIN t = DOMAIN s /\ t[i] = e /\ \A k \in DOMAIN s : k # i => t[k] = s[k]
    BY <2>1
  <2> HIDE DEF t
  <2>3. con' = [con EXCEPT ![c] = [p EXCEPT !.list[l] = t, !.touched = T]]
    BY <1>4 DEF s, t, T
  <2>4. RowsStay(s, t, T)
    <3>1. ASSUME NEW k \in DOMAIN s PROVE (\E j \in DOMAIN t : t[j] = s[k]) \/ s[k].of \in T \cup {0}
      BY <2>1, <2>2
    <3>2. ASSUME NoSamplesGiven, NEW j \in DOMAIN t
          PROVE  Foreign(t[j].v) \/ \E k \in DOMAIN s : t[j].v = s[k].v
      <4>1. CASE j = i
        BY <2>1, <2>2, <3>2, <4>1
      <4>2. CASE j # i
        <5>1. j \in DOMAIN s /\ t[j].v = s[j].v
          BY <2>2, <4>2
        <5> QED
          BY <5>1
      <4> QED
        BY <4>1, <4>2
    <3> QED
      BY <3>1, <3>2 DEF RowsStay
  <2> QED
    BY <2>1, <2>2, <2>3, <2>4 DEF s, p, ListChange
<1>5. ASSUME NEW l \in Lists, NEW i \in DOMAIN p.list[l], ToggleItem(c, l, i)
      PROVE  \E t \in Seq(Row), T \in SUBSET Nat : ListChange(c, l, t, T)
  <2> DEFINE e == [p.list[l][i] EXCEPT !.status = IF @ = "on" THEN "off" ELSE "on"]
  <2>1. e \in Row /\ e.v = p.list[l][i].v
    BY <1>3 DEF Row
  <2>2. con' = [con EXCEPT ![c] = [p EXCEPT !.list[l] = [p.list[l] EXCEPT ![i] = e],
                                            !.touched = Touch(c, p.list[l][i])]]
    BY <1>5 DEF ToggleItem, p
  <2> HIDE DEF e
  <2> QED
    BY <1>4, <2>1, <2>2
<1>6. ASSUME NEW l \in Lists, NEW i \in DOMAIN p.list[l], NEW v \in Typed, EditItem(c, l, i, v)
      PROVE  \E t \in Seq(Row), T \in SUBSET Nat : ListChange(c, l, t, T)
  <2> DEFINE w == [v EXCEPT !.timepass = p.list[l][i].v.timepass, !.type = p.list[l][i].v.type]
             e == [p.list[l][i] EXCEPT !.v = w]
  <2>1. p.list[l][i].v \in RuleValue /\ v \in RuleValue
    BY <1>3, ControlAssumption DEF Row
  <2>2. /\ w \in RuleValue /\ w.src_ip = v.src_ip /\ w.target_ip = v.target_ip
        /\ w.src_port = v.src_port /\ w.target_port = v.target_port
    BY <2>1 DEF RuleValue
  <2>3. con' = [con EXCEPT ![c] = [p EXCEPT !.list[l] = [p.list[l] EXCEPT ![i] = e],
                                            !.touched = Touch(c, p.list[l][i])]]
    BY <1>6 DEF EditItem, p
  <2> HIDE DEF w
  <2>4. e \in Row /\ e.v = w
    BY <1>3, <2>2 DEF Row
  <2>5. NoSamplesGiven => Foreign(w)
    BY <2>2, ForeignSame DEF NoSamplesGiven
  <2> HIDE DEF e
  <2> QED
    BY <1>4, <2>3, <2>4, <2>5
<1>7. ASSUME NEW l \in Lists, NEW i \in DOMAIN p.list[l], RemoveItem(c, l, i)
      PROVE  \E t \in Seq(Row), T \in SUBSET Nat : ListChange(c, l, t, T)
  <2> DEFINE s == p.list[l]
             t == RemoveAt(s, i)
             T == Touch(c, s[i])
  <2>1. s \in Seq(Row) /\ T \in SUBSET Nat /\ p.touched \subseteq T /\ s[i].of \in T \cup {0}
    BY <1>3
  <2>2. con' = [con EXCEPT ![c] = [p EXCEPT !.list[l] = t, !.touched = T]]
    BY <1>7 DEF RemoveItem, p
  <2>3. /\ t \in Seq(Row) /\ \A k \in DOMAIN s \ {i} : \E j \in DOMAIN t : t[j] = s[k]
        /\ \A j \in DOMAIN t : \E k \in DOMAIN s : t[j] = s[k]
    BY <2>1, RemoveFacts
  <2> HIDE DEF t, T, s
  <2>4. RowsStay(s, t, T)
    BY <2>1, <2>3 DEF RowsStay
  <2> QED
    BY <2>1, <2>2, <2>3, <2>4 DEF s, p, ListChange
<1>8. ASSUME NEW l \in Lists, NEW v \in Typed, saveItem(c, l, v)
      PROVE  \E t \in Seq(Row), T \in SUBSET Nat : ListChange(c, l, t, T)
  <2> DEFINE s == p.list[l]
             e == Item(v, "none", 0)
             t == Append(s, e)
             T == p.touched
  <2>1. s \in Seq(Row) /\ T \in SUBSET Nat
    BY <1>2
  <2>2. e \in Row /\ e.v = v
    BY ControlAssumption DEF Item, Row
  <2>3. [con EXCEPT ![c].list[l] = t] = [con EXCEPT ![c] = [p EXCEPT !.list[l] = t, !.touched = T]]
    <3>1. [p EXCEPT !.list[l] = t] = [p EXCEPT !.list[l] = t, !.touched = T]
      <4> HIDE DEF t
      <4> QED
        BY <1>1 DEF Page
    <3> QED
      BY <3>1 DEF p
  <2>4. con' = [con EXCEPT ![c] = [p EXCEPT !.list[l] = t, !.touched = T]]
    BY <1>8, <2>3 DEF saveItem, p
  <2> HIDE DEF e, s
  <2>5. /\ t \in Seq(Row) /\ \A k \in DOMAIN s : k \in DOMAIN t /\ t[k] = s[k]
        /\ \A j \in DOMAIN t : t[j] = e \/ (j \in DOMAIN s /\ t[j] = s[j])
    BY <2>1, <2>2
  <2>6. NoSamplesGiven => Foreign(e.v)
    BY <2>2 DEF NoSamplesGiven
  <2> HIDE DEF t, T
  <2>7. RowsStay(s, t, T)
    BY <2>5, <2>6 DEF RowsStay
  <2> QED
    BY <2>1, <2>4, <2>5, <2>7 DEF s, T, p, ListChange
<1> QED
  BY <1>5, <1>6, <1>7, <1>8 DEF EditLists, p

\* Whatever a user does with the forms of a page is Editing.
LEMMA EditStep ==
    ASSUME Shapes, NEW c \in Consoles, Edit(c), UNCHANGED <<server, trail, conn, proxy, back>>
    PROVE  \E q \in Page : Editing(c, q)
<1> DEFINE p == con[c]
<1>1. p \in Page /\ con \in [Consoles -> Page]
  BY DEF Shapes
<1>2. count' = [count EXCEPT !.edits = @ + 1]
  BY DEF Edit
<1>3. ASSUME NEW t \in Tokens, okWithToken(c, t) PROVE \E q \in Page : Editing(c, q)
  <2> DEFINE q == [p EXCEPT !.token = t]
  <2>1. con' = [con EXCEPT ![c] = q] /\ UNCHANGED <<wire, past>>
    BY <1>3 DEF okWithToken
  <2>2. /\ q \in Page /\ q.known = p.known /\ q.synced = p.synced /\ q.base = p.base
        /\ q.run_state = p.run_state /\ q.list = p.list /\ q.touched = p.touched
    BY <1>1 DEF Page
  <2>3. (HasRows(p) => HasRows(q)) /\ (ForeignRows(p) => ForeignRows(q))
    BY <2>2 DEF HasRows, ForeignRows
  <2> HIDE DEF q
  <2>4. Editing(c, q)
    BY <1>2, <2>1, <2>2, <2>3 DEF Editing
  <2> QED
    BY <2>2, <2>4
<1>4. ASSUME NEW s \in {0, 1}, Switch(c, s) PROVE \E q \in Page : Editing(c, q)
  <2> DEFINE q == [p EXCEPT !.run_state = s]
  <2>1. /\ con' = [con EXCEPT ![c] = q] /\ UNCHANGED wire
        /\ past' = IF s = 0 THEN past \cup {<<"off chosen">>} ELSE past
    BY <1>4 DEF Switch
  <2>2. /\ q \in Page /\ q.known = p.known /\ q.synced = p.synced /\ q.base = p.base
        /\ q.run_state = s /\ q.list = p.list /\ q.touched = p.touched
    BY <1>1 DEF Page
  <2>3. (HasRows(p) => HasRows(q)) /\ (ForeignRows(p) => ForeignRows(q))
    BY <2>2 DEF HasRows, ForeignRows
  <2>4. /\ past' \in {past, past \cup {<<"off chosen">>}}
        /\ s = 0 => <<"off chosen">> \in past'
    BY <2>1
  <2> HIDE DEF q
  <2>5. Editing(c, q)
    BY <1>2, <2>1, <2>2, <2>3, <2>4 DEF Editing
  <2> QED
    BY <2>2, <2>5
<1>5. ASSUME EditLists(c) PROVE \E q \in Page : Editing(c, q)
  <2>1. PICK l \in Lists, t \in Seq(Row), T \in SUBSET Nat : ListChange(c, l, t, T)
    BY <1>5, ListEdits
  <2> DEFINE q == [con[c] EXCEPT !.list[l] = t, !.touched = T]
  <2>2. con' = [con EXCEPT ![c] = q]
    BY <2>1 DEF ListChange
  <2>3. /\ q \in Page
        /\ q.known = con[c].known /\ q.synced = con[c].synced /\ q.base = con[c].base
        /\ q.run_state = con[c].run_state
        /\ HasRows(con[c]) => HasRows(q)
        /\ NoSamplesGiven /\ ForeignRows(con[c]) => ForeignRows(q)
    BY <2>1, EditRows DEF ListChange
  <2>4. UNCHANGED <<wire, past>>
    BY <1>5 DEF EditLists
  <2> HIDE DEF q
  <2>5. Editing(c, q)
    BY <1>2, <2>2, <2>3, <2>4 DEF Editing
  <2> QED
    BY <2>3, <2>5
<1> QED
  BY <1>3, <1>4, <1>5 DEF Edit

\* The request of a client, before anything is put into it.
LEMMA NoRequestFacts ==
    /\ NoRequest \in Request /\ NoRequest.data = <<>> /\ ~NoRequest.synced
    /\ NoRequest.from = Other /\ NoRequest.opt = "none"
<1>1. NoRequest \in Request
  <2>1. <<>> \in Seq(RuleValue)
    OBVIOUS
  <2> QED
    BY <2>1 DEF NoRequest, Request
<1> QED
  BY <1>1 DEF NoRequest

\* The bodies of a page.
LEMMA RequestFacts ==
    ASSUME Shapes, NEW c \in Consoles, NEW opt \in {"rules", "status", "update"}
    PROVE  LET r == request_(c, opt)
           IN  /\ r \in Request /\ r.from = c /\ r.opt = opt /\ r.nr = NoRequest.nr
               /\ r.data = <<>> /\ ~r.synced
<1>1. con[c] \in Page
  BY DEF Shapes
<1>2. con[c].token \in Tokens \cup {NoToken} /\ con[c].visit \in Nat
  BY <1>1 DEF Page
<1> DEFINE k == con[c].token
           v == con[c].visit
<1> HIDE DEF k, v
<1>3. request_(c, opt) = [NoRequest EXCEPT !.from = c, !.opt = opt, !.token = k, !.visit = v]
  BY DEF request_, k, v
<1>4. k \in Tokens \cup {NoToken} /\ v \in Nat
  BY <1>2 DEF k, v
<1> DEFINE r == [NoRequest EXCEPT !.from = c, !.opt = opt, !.token = k, !.visit = v]
<1>5. r \in Request
  BY <1>4, NoRequestFacts DEF Request
<1>6. r.from = c /\ r.opt = opt /\ r.nr = NoRequest.nr /\ r.data = <<>> /\ ~r.synced
  BY NoRequestFacts DEF Request
<1> HIDE DEF r
<1> QED
  BY <1>3, <1>5, <1>6 DEF r

\* The queries a page sends when it is loaded are requests without data.
LEMMA LoadStep ==
    ASSUME Shapes, NEW c \in Consoles, Load(c), UNCHANGED <<server, trail, conn, proxy, back>>
    PROVE  Loading(c)
<1> DEFINE page == FreshPage("up", con[c].visit + 1, con[c].token)
           query(opt) == [request_(c, opt) EXCEPT !.visit = page.visit]
<1>1. con[c] \in Page
  BY DEF Shapes
<1>2. con[c].visit \in Nat /\ con[c].token \in Tokens \cup {NoToken}
  BY <1>1 DEF Page
<1>3. page.visit \in Nat
  BY <1>2 DEF FreshPage
<1> HIDE DEF page
<1>4. ASSUME NEW opt \in {"rules", "status"}
      PROVE  /\ query(opt) \in Request /\ ~IsUpdate(query(opt))
             /\ query(opt).data = <<>> /\ ~query(opt).synced
  <2> DEFINE r == request_(c, opt)
  <2>1. r \in Request /\ r.opt = opt /\ r.data = <<>> /\ ~r.synced
    BY RequestFacts
  <2> HIDE DEF r
  <2>2. [r EXCEPT !.visit = page.visit] \in Request
    BY <1>3, <2>1 DEF Request
  <2>3. query(opt).opt = opt /\ query(opt).data = <<>> /\ ~query(opt).synced /\ query(opt) \in Request
    BY <2>1, <2>2 DEF r, Request
  <2> HIDE DEF query
  <2> QED
    BY <2>3 DEF IsUpdate
<1> HIDE DEF query
<1>5. /\ con' = [con EXCEPT ![c] = page] /\ UNCHANGED <<count, past>>
      /\ wire' \in {wire, wire \cup {query("rules"), query("status")}}
  BY DEF Load, query, page
<1>6. wire \subseteq wire' /\ \A r \in wire' \ wire : r \in {query("rules"), query("status")}
  BY <1>5
<1>7. \A r \in wire' \ wire : r \in Request /\ ~IsUpdate(r) /\ r.data = <<>> /\ ~r.synced
  BY <1>4, <1>6
<1> QED
  BY <1>5, <1>6, <1>7 DEF Loading, page

\* No element of an update is anything but an object: handle does not throw.
LEMMA NoThrow == Shapes => Absent \notin ToSet(proxy.req.data)
<1> SUFFICES ASSUME Shapes PROVE Absent \notin ToSet(proxy.req.data)
  OBVIOUS
<1>1. proxy.req.data \in Seq(RuleValue)
  BY DEF Shapes, Request
<1>2. ToSet(proxy.req.data) \subseteq RuleValue
  BY <1>1 DEF ToSet
<1> QED
  BY <1>2, AbsentAssumption

\* The documents of the server's answers.
LEMMA DocFacts ==
    /\ ErrorDoc \in Doc /\ ErrorDoc.kind = "error"
    /\ OkDoc \in Doc /\ OkDoc.kind = "ok"
    /\ CutDoc \in Doc /\ CutDoc.kind = "cut"
    /\ \A on \in BOOLEAN : /\ StatusDoc(on) \in Doc /\ StatusDoc(on).kind = "status"
                           /\ StatusDoc(on).enabled = on
    /\ \A list \in Seq(RuleValue), n \in Nat :
          /\ ListDoc(list, n) \in Doc /\ ListDoc(list, n).kind = "list"
          /\ ListDoc(list, n).list = list /\ ListDoc(list, n).ver = n
  BY DEF ErrorDoc, OkDoc, CutDoc, StatusDoc, ListDoc, Doc

\* A list document that is a Doc has what it must.
LEMMA DocTypes ==
    \A d \in Doc : /\ d.kind = "list" => d.list \in Seq(RuleValue) /\ d.ver \in Nat
                   /\ d.kind = "status" => d.enabled \in BOOLEAN
  BY DEF Doc

\* The handler answers a piece, installs an update or perishes.
LEMMA HandleStep ==
    ASSUME Shapes, WholeInv, Handle
    PROVE  (\E d \in Doc : Answering(d)) \/ Installing \/ Perishing
<1>0. /\ conn.pieces \in Seq(Piece) /\ policy \in Seq(Rule) /\ version \in Nat /\ enabled \in BOOLEAN
  BY DEF Shapes
<1>1. UNCHANGED <<proxy, wire, back, con, count>>
  BY DEF Handle
<1>2. ASSUME conn.pieces # <<>>, Head(conn.pieces) # "whole" PROVE Long
  <2>1. conn.pieces \notin {<<>>, <<"whole">>}
    BY <1>2
  <2> QED
    BY <2>1 DEF WholeInv
<1>3. CASE QueryRules /\ UNCHANGED trail
  <2> DEFINE list == [i \in DOMAIN policy |-> toJson(policy[i])]
             d == ListDoc(list, version)
  <2>1. list \in Seq(RuleValue)
    <3>1. \A i \in DOMAIN policy : toJson(policy[i]) \in RuleValue
      BY <1>0, JsonValue
    <3>2. DOMAIN policy = 1 .. Len(policy) /\ Len(policy) \in Nat
      BY <1>0
    <3> QED
      BY <3>1, <3>2
  <2>2. IsPolicy(list)
    BY DEF IsPolicy
  <2> HIDE DEF list
  <2>3. d \in Doc /\ d.kind = "list" /\ d.list = list /\ d.ver = version
    BY <1>0, <2>1, DocFacts
  <2>4. conn' = Answered(d) /\ conn.pieces # <<>> /\ Head(conn.pieces) = "whole" /\ ~IsUpdate(proxy.req)
    BY <1>3 DEF QueryRules, Arrived, Answer, IsUpdate, list
  <2>5. UNCHANGED <<server, trail, past>>
    BY <1>3 DEF QueryRules, server
  <2> HIDE DEF d
  <2>6. Answering(d)
    BY <1>1, <2>2, <2>3, <2>4, <2>5 DEF Answering, Current
  <2> QED
    BY <2>3, <2>6
<1>4. CASE QueryStatus /\ UNCHANGED trail
  <2> DEFINE d == StatusDoc(enabled)
  <2>1. d \in Doc /\ d.kind = "status" /\ d.enabled = enabled
    BY <1>0, DocFacts
  <2>2. conn' = Answered(d) /\ conn.pieces # <<>> /\ Head(conn.pieces) = "whole" /\ ~IsUpdate(proxy.req)
    BY <1>4 DEF QueryStatus, Arrived, Answer, IsUpdate
  <2>3. UNCHANGED <<server, trail, past>>
    BY <1>4 DEF QueryStatus, server
  <2> HIDE DEF d
  <2>4. Answering(d)
    BY <1>1, <2>1, <2>2, <2>3 DEF Answering, Current
  <2> QED
    BY <2>1, <2>4
<1>5. CASE UpdateRules /\ UNCHANGED trail
  <2>1. Absent \notin ToSet(proxy.req.data)
    BY NoThrow
  <2>2. Installing
    BY <1>1, <1>5, <2>1 DEF UpdateRules, Installing, Arrived, IsUpdate
  <2> QED
    BY <2>2
<1>6. ASSUME conn.pieces # <<>>, Head(conn.pieces) # "whole", conn' = Answered(ErrorDoc),
             UNCHANGED <<server, trail, past>>
      PROVE  Answering(ErrorDoc)
  BY <1>1, <1>2, <1>6, DocFacts DEF Answering, Current
<1>7. CASE BadBody /\ UNCHANGED trail
  <2>1. Answering(ErrorDoc)
    BY <1>6, <1>7 DEF BadBody, Arrived, Answer, server
  <2> QED
    BY <2>1, DocFacts
<1>8. CASE RestOfBody /\ UNCHANGED trail
  <2>1. conn.pieces # <<>> /\ Head(conn.pieces) # "whole" /\ UNCHANGED <<policy, enabled, version, past>>
    BY <1>8 DEF RestOfBody, Arrived
  <2>2. CASE Answer(ErrorDoc) /\ UNCHANGED alive
    BY <1>6, <1>8, <2>1, <2>2, DocFacts DEF Answer, server
  <2>3. CASE alive' = FALSE /\ conn' = [conn EXCEPT !.pieces = <<>>]
    BY <1>1, <1>2, <1>8, <2>1, <2>3 DEF Perishing, Shapes
  <2> QED
    BY <1>8, <2>2, <2>3 DEF RestOfBody
<1>9. CASE RestAfterClose
  <2>1. Long
    BY <1>9 DEF RestAfterClose, WholeInv, Shapes
  <2>2. trail' \in Nat
    BY <1>9 DEF RestAfterClose, Shapes
  <2> QED
    BY <1>1, <1>9, <2>1, <2>2 DEF RestAfterClose, Perishing
<1> QED
  BY <1>3, <1>4, <1>5, <1>7, <1>8, <1>9 DEF Handle

\* What is in a short sequence.
LEMMA FewDocs ==
    /\ ToSet(<<>>) = {}
    /\ \A x : ToSet(<<x>>) = {x}
    /\ \A x, y : ToSet(<<x, y>>) = {x, y}
<1>1. ToSet(<<>>) = {}
  BY DEF ToSet
<1>2. ASSUME NEW x PROVE ToSet(<<x>>) = {x}
  BY DEF ToSet
<1>3. ASSUME NEW x, NEW y PROVE ToSet(<<x, y>>) = {x, y}
  <2>1. DOMAIN <<x, y>> = {1, 2} /\ <<x, y>>[1] = x /\ <<x, y>>[2] = y
    OBVIOUS
  <2> QED
    BY <2>1 DEF ToSet
<1> QED
  BY <1>1, <1>2, <1>3

\* The documents the proxy writes itself.
LEMMA ErrorDocsFacts ==
    \A r : ErrorDocs(r) \in Seq(Doc) /\ \A d \in ToSet(ErrorDocs(r)) : d = ErrorDoc
<1> SUFFICES ASSUME NEW r PROVE ErrorDocs(r) \in Seq(Doc) /\ \A d \in ToSet(ErrorDocs(r)) : d = ErrorDoc
  OBVIOUS
<1>1. ErrorDocs(r) \in {<<>>, <<ErrorDoc>>, <<ErrorDoc, ErrorDoc>>}
  BY DEF ErrorDocs
<1>2. <<>> \in Seq(Doc) /\ <<ErrorDoc>> \in Seq(Doc) /\ <<ErrorDoc, ErrorDoc>> \in Seq(Doc)
  BY DocFacts
<1>3. ToSet(<<>>) = {} /\ ToSet(<<ErrorDoc>>) = {ErrorDoc} /\ ToSet(<<ErrorDoc, ErrorDoc>>) = {ErrorDoc}
  BY FewDocs
<1> QED
  BY <1>1, <1>2, <1>3

\* The proxy forwards or refuses a request, or finishes the one it serves.
LEMMA ProxyStepKinds ==
    ASSUME Shapes, WholeInv, ProxyStep
    PROVE  \/ \E r \in wire : Forwarding(r) \/ Refusing(r)
           \/ \E docs \in Seq(Doc) : Finishing(docs)
<1>0. /\ conn.out \in Seq(Doc) /\ proxy.docs \in Seq(Doc) /\ alive \in BOOLEAN
      /\ \A d \in ToSet(conn.out) \cup ToSet(proxy.docs) : d \in Answers
  BY DEF Shapes, Answers
<1>1. UNCHANGED <<server, con, count, past>>
  BY DEF ProxyStep
<1>2. ~alive => Long
  BY DEF WholeInv
<1>3. ASSUME NEW r \in wire, Forward(r), UNCHANGED trail PROVE Forwarding(r) \/ Refusing(r)
  BY <1>0, <1>1, <1>2, <1>3 DEF Forward, Forwarding, Refusing
<1>4. ASSUME Receive PROVE \E docs \in Seq(Doc) : Finishing(docs)
  <2>1. PICK got \in Received : Reply(proxy.req, proxy.docs \o got)
    BY <1>4 DEF Receive
  <2>2. got \in {conn.out, <<CutDoc>>}
    BY <2>1 DEF Received
  <2>3. got \in Seq(Doc) /\ \A d \in ToSet(got) : d \in Answers \/ d.kind = "cut"
    <3>1. <<CutDoc>> \in Seq(Doc) /\ ToSet(<<CutDoc>>) = {CutDoc}
      BY DocFacts, FewDocs
    <3> QED
      BY <1>0, <2>2, <3>1, DocFacts
  <2> DEFINE docs == proxy.docs \o got
  <2>4. docs \in Seq(Doc) /\ \A d \in ToSet(docs) : d \in ToSet(proxy.docs) \/ d \in ToSet(got)
    BY <1>0, <2>3 DEF ToSet
  <2> HIDE DEF docs
  <2>5. Finishing(docs)
    BY <1>0, <1>1, <1>4, <2>1, <2>3, <2>4 DEF Receive, Finishing, docs
  <2> QED
    BY <2>4, <2>5
<1>5. ASSUME LoseServer PROVE Finishing(proxy.docs)
  BY <1>0, <1>1, <1>2, <1>5 DEF LoseServer, Finishing
<1> QED
  BY <1>0, <1>3, <1>4, <1>5 DEF ProxyStep

\* What the callbacks do with an answer is Delivering.
LEMMA DeliverStep ==
    ASSUME Shapes, NEW b \in back, Deliver(b)
    PROVE  Delivering(b)
<1>1. /\ back' = back \ {b} /\ UNCHANGED <<server, trail, conn, proxy, wire, count>>
      /\ UNCHANGED <<con, past>> \/ Callback(b.req, b.docs)
  BY DEF Deliver
<1>2. b.docs \in Seq(Doc)
  BY DEF Shapes
<1>3. IsDoc(b.docs, "list") => Head(b.docs) \in ToSet(b.docs) /\ Head(b.docs).kind = "list"
  BY <1>2 DEF IsDoc, ToSet
<1> QED
  BY <1>1, <1>3 DEF Delivering, Callback, IsUpdate

\* Every step is of one of the kinds.
LEMMA Steps == Shapes /\ WholeInv /\ [Next]_vars => Kinds
<1> SUFFICES ASSUME Shapes, WholeInv, [Next]_vars PROVE Kinds
  OBVIOUS
<1>1. CASE Handle
  BY <1>1, HandleStep DEF Kinds
<1>2. CASE ProxyStep
  BY <1>2, ProxyStepKinds DEF Kinds
<1>3. CASE \E b \in back : Deliver(b)
  BY <1>3, DeliverStep DEF Kinds
<1>4. ASSUME NEW c \in Consoles, User(c) PROVE Kinds
  BY <1>4, EditStep, LoadStep DEF User, Kinds, Uploading
<1> QED
  BY <1>1, <1>2, <1>3, <1>4 DEF Next, Kinds

-----------------------------------------------------------------------------
(***************************************************************************)
(* What is new after a step.                                               *)
(***************************************************************************)

TypeOf(l) == IF l = "black" THEN TYPE_BLACK_LIST ELSE TYPE_WHITE_LIST

\* Console c uploads with request r.
UploadOf(c, r) ==
    /\ r \in Request /\ IsUpdate(r) /\ r.from = c /\ r.nr = count.uploads + 1
    /\ r.enabled = con[c].run_state /\ r.synced = con[c].synced /\ r.base = con[c].base
    /\ r.touched = con[c].touched
    /\ \A l \in Lists : \A k \in DOMAIN con[c].list[l] : IsOn(con[c].list[l][k]) =>
          \E j \in DOMAIN r.data : r.data[j] = transformer(con[c].list[l][k].v, TypeOf(l))
    /\ \A j \in DOMAIN r.data : \E l \in Lists : \E k \in DOMAIN con[c].list[l] :
          r.data[j] = transformer(con[c].list[l][k].v, TypeOf(l))
    /\ wire' = wire \cup {r}
    /\ count.uploads < MaxUploads
    /\ count' = [count EXCEPT !.uploads = @ + 1]
    /\ past \subseteq past'
    /\ past' \subseteq past \cup {<<"lists unknown">>, <<"status unknown">>, <<"long update">>}
    /\ ~con[c].known => <<"status unknown">> \in past'
    /\ ~con[c].synced => <<"lists unknown">> \in past'
    /\ Len(r.data) > MaxFit => <<"long update">> \in past'
    /\ UNCHANGED <<server, trail, conn, proxy, back, con>>

\* uploadRuleList puts every row that is on into the request.
LEMMA UploadFacts ==
    ASSUME Shapes, NEW c \in Consoles, Uploading(c)
    PROVE  \E r \in Request : UploadOf(c, r)
<1> DEFINE b == Elements(con[c].list["black"], TYPE_BLACK_LIST)
           w == Elements(con[c].list["white"], TYPE_WHITE_LIST)
           data == b \o w
           r == [request_(c, "update") EXCEPT !.nr = count.uploads + 1,
                                              !.enabled = con[c].run_state, !.data = data,
                                              !.synced = con[c].synced, !.base = con[c].base,
                                              !.touched = con[c].touched]
<1>1. con[c] \in Page /\ count.uploads \in 0 .. MaxUploads /\ MaxUploads \in Nat
  BY ControlAssumption DEF Shapes
<1>2. /\ con[c].list \in [Lists -> Seq(Row)] /\ con[c].run_state \in {0, 1}
      /\ con[c].synced \in BOOLEAN /\ con[c].base \in Nat /\ con[c].touched \in SUBSET Nat
  BY <1>1 DEF Page
<1>3. con[c].list["black"] \in Seq(Row) /\ con[c].list["white"] \in Seq(Row)
  BY <1>2 DEF Lists
<1>4. /\ b \in Seq(RuleValue)
      /\ \A i \in DOMAIN con[c].list["black"] : IsOn(con[c].list["black"][i]) =>
            \E k \in DOMAIN b : b[k] = transformer(con[c].list["black"][i].v, TYPE_BLACK_LIST)
      /\ \A k \in DOMAIN b : \E i \in DOMAIN con[c].list["black"] :
            b[k] = transformer(con[c].list["black"][i].v, TYPE_BLACK_LIST)
  BY <1>3, ElementsFacts DEF TYPE_BLACK_LIST
<1>5. /\ w \in Seq(RuleValue)
      /\ \A i \in DOMAIN con[c].list["white"] : IsOn(con[c].list["white"][i]) =>
            \E k \in DOMAIN w : w[k] = transformer(con[c].list["white"][i].v, TYPE_WHITE_LIST)
      /\ \A k \in DOMAIN w : \E i \in DOMAIN con[c].list["white"] :
            w[k] = transformer(con[c].list["white"][i].v, TYPE_WHITE_LIST)
  BY <1>3, ElementsFacts DEF TYPE_WHITE_LIST
<1>6. /\ wire' = wire \cup {r}
      /\ count.uploads < MaxUploads
      /\ count' = [count EXCEPT !.uploads = @ + 1]
      /\ past' = past \cup (IF con[c].synced THEN {} ELSE {<<"lists unknown">>})
                      \cup (IF con[c].known THEN {} ELSE {<<"status unknown">>})
                      \cup (IF Len(data) > MaxFit THEN {<<"long update">>} ELSE {})
      /\ UNCHANGED <<server, trail, conn, proxy, back, con>>
  BY DEF Uploading, uploadRuleList
<1> HIDE DEF b, w
<1>7. /\ data \in Seq(RuleValue)
      /\ \A k \in DOMAIN b : \E j \in DOMAIN data : data[j] = b[k]
      /\ \A k \in DOMAIN w : \E j \in DOMAIN data : data[j] = w[k]
      /\ \A j \in DOMAIN data : (\E k \in DOMAIN b : data[j] = b[k]) \/ (\E k \in DOMAIN w : data[j] = w[k])
  <2>1. b \in Seq(RuleValue) /\ w \in Seq(RuleValue)
    BY <1>4, <1>5
  <2>2. b \o w \in Seq(RuleValue)
    BY <2>1
  <2>3. \A k \in DOMAIN b : \E j \in DOMAIN (b \o w) : (b \o w)[j] = b[k]
    BY <2>1, ConcatHasBoth
  <2>4. \A k \in DOMAIN w : \E j \in DOMAIN (b \o w) : (b \o w)[j] = w[k]
    BY <2>1, ConcatHasBoth
  <2>5. \A j \in DOMAIN (b \o w) : \/ \E k \in DOMAIN b : (b \o w)[j] = b[k]
                                  \/ \E k \in DOMAIN w : (b \o w)[j] = w[k]
    BY <2>1, ConcatHasBoth
  <2> QED
    BY <2>2, <2>3, <2>4, <2>5
<1>8. /\ past \subseteq past'
      /\ past' \subseteq past \cup {<<"lists unknown">>, <<"status unknown">>, <<"long update">>}
      /\ ~con[c].known => <<"status unknown">> \in past'
      /\ ~con[c].synced => <<"lists unknown">> \in past'
      /\ Len(data) > MaxFit => <<"long update">> \in past'
  BY <1>6
<1> HIDE DEF data
<1>9. ASSUME NEW l \in Lists, NEW k \in DOMAIN con[c].list[l], IsOn(con[c].list[l][k])
      PROVE  \E j \in DOMAIN data : data[j] = transformer(con[c].list[l][k].v, TypeOf(l))
  <2>1. CASE l = "black"
    BY <1>4, <1>7, <1>9, <2>1 DEF TypeOf
  <2>2. CASE l = "white"
    BY <1>5, <1>7, <1>9, <2>2 DEF TypeOf
  <2> QED
    BY <2>1, <2>2 DEF Lists
<1>0. ASSUME NEW j \in DOMAIN data
      PROVE  \E l \in Lists : \E k \in DOMAIN con[c].list[l] :
                data[j] = transformer(con[c].list[l][k].v, TypeOf(l))
  <2>1. CASE \E k \in DOMAIN b : data[j] = b[k]
    <3>1. \E k \in DOMAIN con[c].list["black"] :
             data[j] = transformer(con[c].list["black"][k].v, TypeOf("black"))
      BY <1>4, <2>1 DEF TypeOf
    <3> QED
      BY <3>1 DEF Lists
  <2>2. CASE \E k \in DOMAIN w : data[j] = w[k]
    <3>1. \E k \in DOMAIN con[c].list["white"] :
             data[j] = transformer(con[c].list["white"][k].v, TypeOf("white"))
      BY <1>5, <2>2 DEF TypeOf
    <3> QED
      BY <3>1 DEF Lists
  <2> QED
    BY <1>7, <2>1, <2>2
<1> DEFINE q == request_(c, "update")
<1>10. q \in Request /\ q.opt = "update" /\ q.from = c
  BY RequestFacts
<1> HIDE DEF q
<1>11. count.uploads + 1 \in Nat
  BY <1>1
<1>12. r = [q EXCEPT !.nr = count.uploads + 1, !.enabled = con[c].run_state, !.data = data,
                     !.synced = con[c].synced, !.base = con[c].base, !.touched = con[c].touched]
  BY DEF q
<1>13. r \in Request
  BY <1>2, <1>7, <1>10, <1>11, <1>12 DEF Request
<1>14. /\ r.opt = "update" /\ r.from = c /\ r.nr = count.uploads + 1 /\ r.data = data
       /\ r.enabled = con[c].run_state /\ r.synced = con[c].synced /\ r.base = con[c].base
       /\ r.touched = con[c].touched
  BY <1>10, <1>12 DEF Request
<1> HIDE DEF r
<1>15. UploadOf(c, r)
  BY <1>0, <1>6, <1>8, <1>9, <1>13, <1>14 DEF UploadOf, IsUpdate
<1> QED
  BY <1>13, <1>15

\* History only grows.
LEMMA PastGrows == Shapes /\ Kinds => past \subseteq past'
<1> SUFFICES ASSUME Shapes, Kinds PROVE past \subseteq past'
  OBVIOUS
<1>1. ASSUME NEW c \in Consoles, Uploading(c) PROVE past \subseteq past'
  BY <1>1, UploadFacts DEF UploadOf
<1>2. ASSUME NEW b \in back, Delivering(b) PROVE past \subseteq past'
  BY <1>2 DEF Delivering
<1> QED
  BY <1>1, <1>2 DEF Kinds, vars, Answering, Installing, Perishing, Forwarding, Refusing, Finishing,
                    Loading, Editing, OtherClient

\* A document under way after a step was so before, says nothing of the policy, or says how
\* things are.
NewDoc(d) ==
    \/ d \in Answers
    \/ d.kind \in {"error", "ok", "cut"}
    \/ Current(d) /\ UNCHANGED server

\* Every document under way after a step is such a NewDoc.
LEMMA NewAnswers == Shapes /\ Kinds => \A d \in Answers' : NewDoc(d)
<1> SUFFICES ASSUME Shapes, Kinds, NEW d \in Answers' PROVE NewDoc(d)
  OBVIOUS
<1>0. d \in ToSet(conn'.out) \/ d \in ToSet(proxy'.docs) \/ \E b \in back' : d \in ToSet(b.docs)
  BY DEF Answers
<1>1. /\ \A x \in ToSet(conn.out) : NewDoc(x)
      /\ \A x \in ToSet(proxy.docs) : NewDoc(x)
      /\ \A b \in back : \A x \in ToSet(b.docs) : NewDoc(x)
  BY DEF NewDoc, Answers
<1>2. /\ conn.out \in Seq(Doc)
      /\ \A x : ToSet(Append(conn.out, x)) = ToSet(conn.out) \cup {x}
  <2>1. conn.out \in Seq(Doc)
    BY DEF Shapes
  <2> QED
    BY <2>1, AppendHas
<1>3. CASE UNCHANGED <<conn, proxy>> /\ back' \subseteq back
  BY <1>0, <1>1, <1>3
<1>4. ASSUME NEW x, conn' = Answered(x), NewDoc(x), UNCHANGED <<proxy, back>> PROVE NewDoc(d)
  <2>1. conn'.out = Append(conn.out, x)
    BY <1>4 DEF Answered
  <2> QED
    BY <1>0, <1>1, <1>2, <1>4, <2>1
<1>5. ASSUME NEW x \in Doc, Answering(x) PROVE NewDoc(d)
  BY <1>4, <1>5 DEF Answering, NewDoc
<1>6. CASE Installing
  BY <1>4, <1>6, DocFacts DEF Installing, NewDoc
<1>7. CASE Perishing
  BY <1>0, <1>1, <1>7 DEF Perishing, Shapes
<1>8. ASSUME NEW x, x = ErrorDoc PROVE NewDoc(x)
  BY <1>8, DocFacts DEF NewDoc
<1>9. ASSUME NEW r \in wire, Forwarding(r) PROVE NewDoc(d)
  <2>1. conn'.out = <<>> /\ proxy'.docs = ErrorDocs(r) /\ back' = back
    BY <1>9 DEF Forwarding
  <2> QED
    BY <1>0, <1>1, <1>8, <2>1, ErrorDocsFacts, FewDocs
<1>10. ASSUME NEW r, NEW docs, Reply(r, docs), NEW b \in back', b \notin back PROVE b.docs = docs
  BY <1>10 DEF Reply
<1>11. ASSUME NEW r \in wire, Refusing(r) PROVE NewDoc(d)
  <2>1. conn' = conn /\ proxy' = proxy /\ Reply(r, ErrorDocs(r))
    BY <1>11 DEF Refusing
  <2> QED
    BY <1>0, <1>1, <1>8, <1>10, <2>1, ErrorDocsFacts
<1>12. ASSUME NEW docs \in Seq(Doc), Finishing(docs) PROVE NewDoc(d)
  <2>1. conn' = NoConn /\ proxy' = Idle /\ Reply(proxy.req, docs)
    BY <1>12 DEF Finishing
  <2>2. conn'.out = <<>> /\ proxy'.docs = <<>>
    BY <2>1 DEF NoConn, Idle
  <2>3. \A x \in ToSet(docs) : NewDoc(x)
    BY <1>12 DEF Finishing, NewDoc
  <2> QED
    BY <1>0, <1>1, <1>10, <2>1, <2>2, <2>3, FewDocs
<1>13. ASSUME NEW b \in back, Delivering(b) PROVE NewDoc(d)
  BY <1>3, <1>13 DEF Delivering
<1>14. ASSUME NEW c \in Consoles, Loading(c) \/ Uploading(c) \/ \E q \in Page : Editing(c, q)
       PROVE  NewDoc(d)
  BY <1>3, <1>14 DEF Loading, Uploading, Editing
<1>15. CASE OtherClient
  BY <1>3, <1>15 DEF OtherClient
<1>16. CASE UNCHANGED vars
  BY <1>3, <1>16 DEF vars
<1> QED
  BY <1>5, <1>6, <1>7, <1>9, <1>11, <1>12, <1>13, <1>14, <1>15, <1>16 DEF Kinds

\* A request under way after a step was so before, carries no rules, or is the upload.
NewRequest(r) ==
    \/ r \in UnderWay
    \/ ~IsUpdate(r) /\ r.data = <<>> /\ ~r.synced
    \/ \E c \in Consoles : Uploading(c) /\ UploadOf(c, r)

\* Every request under way after a step is such a NewRequest.
LEMMA NewRequests == Shapes /\ Kinds => \A r \in UnderWay' : NewRequest(r)
<1> SUFFICES ASSUME Shapes, Kinds, NEW r \in UnderWay' PROVE NewRequest(r)
  OBVIOUS
<1>1. r \in wire' \/ r = proxy'.req
  BY DEF UnderWay
<1>2. (\A s \in wire : NewRequest(s)) /\ NewRequest(proxy.req)
  BY DEF UnderWay, NewRequest
<1>3. NewRequest(NoRequest)
  BY NoRequestFacts DEF NewRequest, IsUpdate
<1>4. CASE wire' \subseteq wire /\ proxy'.req \in {proxy.req, NoRequest}
  BY <1>1, <1>2, <1>3, <1>4
<1>5. ASSUME NEW s \in wire, Forwarding(s) PROVE NewRequest(r)
  <2>1. wire' \subseteq wire /\ proxy'.req = s
    BY <1>5 DEF Forwarding
  <2> QED
    BY <1>1, <1>2, <2>1
<1>6. ASSUME NEW c \in Consoles, Uploading(c) PROVE NewRequest(r)
  <2>1. PICK s \in Request : UploadOf(c, s)
    BY <1>6, UploadFacts
  <2>2. NewRequest(s)
    BY <1>6, <2>1 DEF NewRequest
  <2>3. wire' = wire \cup {s} /\ proxy' = proxy
    BY <2>1 DEF UploadOf
  <2> QED
    BY <1>1, <1>2, <2>2, <2>3
<1>7. ASSUME NEW c \in Consoles, Loading(c) PROVE NewRequest(r)
  BY <1>1, <1>2, <1>7 DEF Loading, NewRequest
<1>8. CASE OtherClient
  <2>1. PICK opt \in {"config", "empty"} : wire' = wire \cup {[NoRequest EXCEPT !.opt = opt]}
    BY <1>8 DEF OtherClient
  <2> DEFINE s == [NoRequest EXCEPT !.opt = opt]
  <2>2. ~IsUpdate(s) /\ s.data = <<>> /\ ~s.synced
    BY NoRequestFacts DEF Request, IsUpdate
  <2>3. NewRequest(s)
    BY <2>2 DEF NewRequest
  <2>4. proxy' = proxy
    BY <1>8 DEF OtherClient
  <2> HIDE DEF s
  <2> QED
    BY <1>1, <1>2, <2>1, <2>3, <2>4 DEF s
<1>9. ASSUME NEW docs \in Seq(Doc), Finishing(docs) PROVE NewRequest(r)
  BY <1>4, <1>9 DEF Finishing, Idle
<1>10. ASSUME NEW c \in Consoles, NEW q \in Page, Editing(c, q) PROVE NewRequest(r)
  BY <1>4, <1>10 DEF Editing
<1>11. ASSUME NEW s \in wire, Refusing(s) PROVE NewRequest(r)
  BY <1>4, <1>11 DEF Refusing
<1>12. ASSUME NEW b \in back, Delivering(b) PROVE NewRequest(r)
  BY <1>4, <1>12 DEF Delivering
<1>13. ASSUME UNCHANGED vars \/ (\E d \in Doc : Answering(d)) \/ Installing \/ Perishing
       PROVE  NewRequest(r)
  BY <1>4, <1>13 DEF vars, Answering, Installing, Perishing
<1> QED
  BY <1>5, <1>6, <1>7, <1>8, <1>9, <1>10, <1>11, <1>12, <1>13 DEF Kinds

-----------------------------------------------------------------------------
(***************************************************************************)
(* Each part of the invariant is kept.                                     *)
(***************************************************************************)

\* The number of pieces of an update is a natural number.
LEMMA PieceCount ==
    ASSUME NEW n \in Nat, NEW m \in Nat \ {0}
    PROVE  (n + m - 1) \div m \in Nat
<1> DEFINE k == n + m - 1
<1>1. k \in Nat
  OBVIOUS
<1> HIDE DEF k
<1>2. k \div m \in Nat
  BY <1>1
<1> QED
  BY <1>2 DEF k

\* A body that fits comes as one piece or, when it is empty, as none.
LEMMA PiecesFacts ==
    ASSUME NEW r \in Request
    PROVE  /\ Pieces(r) \in Seq(Piece)
           /\ \A i \in DOMAIN Pieces(r) : Pieces(r)[i] = "whole" => Len(Pieces(r)) = 1
           /\ ~(Len(r.data) > MaxFit) => Pieces(r) \in {<<>>, <<"whole">>}
<1> DEFINE n == Len(r.data)
           k == (n + MaxFit - 1) \div MaxFit
           s == [i \in 1 .. k |-> IF i = 1 THEN "first" ELSE "rest"]
<1>1. n \in Nat /\ MaxFit \in Nat \ {0}
  BY ControlAssumption DEF Request
<1>2. k \in Nat
  BY <1>1, PieceCount
<1>3. Pieces(r) \in {<<>>, <<"whole">>} \/ (n > MaxFit /\ Pieces(r) = s)
  BY DEF Pieces
<1> HIDE DEF k, n
<1>4. s \in Seq(Piece) /\ \A i \in DOMAIN s : s[i] # "whole"
  BY <1>2 DEF Piece
<1> HIDE DEF s
<1>5. <<>> \in Seq(Piece) /\ <<"whole">> \in Seq(Piece) /\ Len(<<"whole">>) = 1
  BY DEF Piece
<1>6. CASE Pieces(r) = <<>>
  <2>1. DOMAIN Pieces(r) = {}
    BY <1>6
  <2> QED
    BY <1>5, <1>6, <2>1
<1>7. CASE Pieces(r) = <<"whole">>
  BY <1>5, <1>7
<1>8. CASE n > MaxFit /\ Pieces(r) = s
  BY <1>4, <1>8 DEF n
<1> QED
  BY <1>3, <1>6, <1>7, <1>8

\* What is left of a body is not the body.
LEMMA TailNotWhole ==
    ASSUME WholeInv, conn.pieces \in Seq(Piece), conn.pieces # <<>>
    PROVE  Tail(conn.pieces) # <<"whole">>
<1> SUFFICES ASSUME Tail(conn.pieces) = <<"whole">> PROVE FALSE
  OBVIOUS
<1>0. Len(<<"whole">>) = 1 /\ <<"whole">>[1] = "whole"
  OBVIOUS
<1>1. Len(Tail(conn.pieces)) = 1 /\ Tail(conn.pieces)[1] = "whole"
  BY <1>0, Zenon
<1>2. Len(conn.pieces) = 2 /\ 2 \in DOMAIN conn.pieces /\ conn.pieces[2] = "whole"
  BY <1>1
<1> QED
  BY <1>2 DEF WholeInv

\* A page before its script ran and after.
LEMMA FreshPageFacts ==
    ASSUME NEW page \in {"none", "up"}, NEW visit \in Nat, NEW token \in Tokens \cup {NoToken}
    PROVE  LET q == FreshPage(page, visit, token)
           IN  q \in Page /\ ~q.known /\ ~q.synced
<1>1. [l \in Lists |-> Samples] \in [Lists -> Seq(Row)]
  BY SampleRows
<1> DEFINE L == [l \in Lists |-> Samples]
<1> HIDE DEF L
<1>2. FreshPage(page, visit, token) =
          [page |-> page, visit |-> visit, token |-> token, run_state |-> 0, list |-> L,
           synced |-> FALSE, known |-> FALSE, base |-> 0, touched |-> {}]
  BY DEF FreshPage, L
<1>3. L \in [Lists -> Seq(Row)]
  BY <1>1 DEF L
<1> QED
  BY <1>2, <1>3 DEF Page

\* The pages keep their shape.
LEMMA PagesStep == Shapes /\ Kinds => con' \in [Consoles -> Page]
<1> SUFFICES ASSUME Shapes, Kinds PROVE con' \in [Consoles -> Page]
  OBVIOUS
<1>0. con \in [Consoles -> Page]
  BY DEF Shapes
<1>1. ASSUME NEW c \in Consoles, NEW q \in Page, con' = [con EXCEPT ![c] = q]
      PROVE  con' \in [Consoles -> Page]
  BY <1>0, <1>1
<1>2. CASE UNCHANGED con
  BY <1>0, <1>2
<1>3. ASSUME NEW c \in Consoles, Loading(c) PROVE con' \in [Consoles -> Page]
  <2>1. con[c].visit + 1 \in Nat /\ con[c].token \in Tokens \cup {NoToken}
    BY <1>0 DEF Page
  <2>2. FreshPage("up", con[c].visit + 1, con[c].token) \in Page
    BY <2>1, FreshPageFacts
  <2> QED
    BY <1>1, <1>3, <2>2 DEF Loading
<1>4. ASSUME NEW c \in Consoles, NEW q \in Page, Editing(c, q) PROVE con' \in [Consoles -> Page]
  BY <1>1, <1>4 DEF Editing
<1>5. ASSUME NEW c \in Consoles, Uploading(c) PROVE UNCHANGED con
  BY <1>5 DEF Uploading, uploadRuleList
<1>6. ASSUME NEW b \in back, NEW d \in ToSet(b.docs), d.kind = "list", syncRuleList(b.req.from, d)
      PROVE  con' \in [Consoles -> Page]
  <2> DEFINE c == b.req.from
             L == [l \in Lists |-> Rows(d, l)]
             q == [con[c] EXCEPT !.list = L, !.synced = TRUE, !.base = d.ver, !.touched = {}]
  <2>1. c \in Consoles /\ d \in Doc
    BY DEF Shapes, ToSet
  <2>2. d.list \in Seq(RuleValue) /\ d.ver \in Nat
    BY <1>6, <2>1, DocTypes
  <2>3. L \in [Lists -> Seq(Row)]
    BY <2>2, RowsFacts
  <2>4. con' = [con EXCEPT ![c] = q]
    BY <1>6 DEF syncRuleList
  <2> HIDE DEF L, c
  <2>5. q \in Page
    BY <1>0, <2>1, <2>2, <2>3 DEF Page
  <2> QED
    BY <1>1, <2>1, <2>4, <2>5
<1>7. ASSUME NEW b \in back, syncStatus(b.req.from, b.docs) PROVE con' \in [Consoles -> Page]
  <2> DEFINE c == b.req.from
             on == IsDoc(b.docs, "status")
             q == [con[c] EXCEPT !.run_state = IF on /\ Head(b.docs).enabled THEN 1 ELSE 0, !.known = on]
  <2>1. c \in Consoles /\ on \in BOOLEAN
    BY DEF Shapes, IsDoc
  <2>2. con' = [con EXCEPT ![c] = q]
    BY <1>7 DEF syncStatus
  <2> HIDE DEF c, on
  <2>3. q \in Page
    BY <1>0, <2>1 DEF Page
  <2> QED
    BY <1>1, <2>1, <2>2, <2>3
<1>8. ASSUME NEW b \in back, Delivering(b) PROVE con' \in [Consoles -> Page]
  BY <1>2, <1>6, <1>7, <1>8 DEF Delivering
<1>9. ASSUME \/ UNCHANGED vars \/ (\E d \in Doc : Answering(d)) \/ Installing \/ Perishing
             \/ (\E r \in wire : Forwarding(r) \/ Refusing(r))
             \/ (\E docs \in Seq(Doc) : Finishing(docs)) \/ OtherClient
      PROVE  UNCHANGED con
  BY <1>9 DEF vars, Answering, Installing, Perishing, Forwarding, Refusing, Finishing, OtherClient
<1> QED
  BY <1>2, <1>3, <1>4, <1>5, <1>8, <1>9 DEF Kinds

\* The connection and the proxy keep their shapes.
LEMMA ProxyShape ==
    Shapes /\ Kinds =>
       /\ conn' \in [pieces : Seq(Piece), out : Seq(Doc)]
       /\ proxy' \in [at : {"idle", "waiting"}, req : Request, docs : Seq(Doc)]
       /\ proxy'.at = "idle" => proxy' = Idle /\ conn' = NoConn
       /\ trail' \in Nat
<1> DEFINE Goal == /\ conn' \in [pieces : Seq(Piece), out : Seq(Doc)]
                   /\ proxy' \in [at : {"idle", "waiting"}, req : Request, docs : Seq(Doc)]
                   /\ proxy'.at = "idle" => proxy' = Idle /\ conn' = NoConn
                   /\ trail' \in Nat
<1> SUFFICES ASSUME Shapes, Kinds PROVE Goal
  OBVIOUS
<1>0. /\ conn \in [pieces : Seq(Piece), out : Seq(Doc)]
      /\ proxy \in [at : {"idle", "waiting"}, req : Request, docs : Seq(Doc)]
      /\ proxy.at = "idle" => proxy = Idle /\ conn = NoConn
      /\ trail \in Nat
  BY DEF Shapes
<1>1. CASE UNCHANGED <<conn, proxy, trail>>
  BY <1>0, <1>1
<1>2. ASSUME NEW d \in Doc, conn.pieces # <<>>, conn' = Answered(d), UNCHANGED <<proxy, trail>>
      PROVE  Goal
  <2>1. proxy.at # "idle"
    BY <1>0, <1>2 DEF NoConn
  <2>2. conn' = [pieces |-> Tail(conn.pieces), out |-> Append(conn.out, d)]
    BY <1>2 DEF Answered
  <2>3. Tail(conn.pieces) \in Seq(Piece) /\ Append(conn.out, d) \in Seq(Doc)
    BY <1>0, <1>2
  <2> QED
    BY <1>0, <1>2, <2>1, <2>2, <2>3
<1>3. CASE Perishing
  <2>1. UNCHANGED proxy /\ trail' \in Nat /\ conn' \in {conn, [conn EXCEPT !.pieces = <<>>]}
    BY <1>3 DEF Perishing
  <2>2. [conn EXCEPT !.pieces = <<>>] \in [pieces : Seq(Piece), out : Seq(Doc)]
    <3>1. [conn EXCEPT !.pieces = <<>>] = [pieces |-> <<>>, out |-> conn.out]
      BY <1>0
    <3>2. <<>> \in Seq(Piece) /\ conn.out \in Seq(Doc)
      BY <1>0
    <3> QED
      BY <3>1, <3>2
  <2>3. conn = NoConn => [conn EXCEPT !.pieces = <<>>] = NoConn
    BY DEF NoConn
  <2> QED
    BY <1>0, <2>1, <2>2, <2>3
<1>4. ASSUME NEW r \in wire, Forwarding(r) PROVE Goal
  <2>1. r \in Request
    BY DEF Shapes
  <2>2. /\ proxy' = [at |-> "waiting", req |-> r, docs |-> ErrorDocs(r)]
        /\ conn' = [pieces |-> Pieces(r), out |-> <<>>]
        /\ trail' = trail
    BY <1>4 DEF Forwarding
  <2>3. Pieces(r) \in Seq(Piece) /\ ErrorDocs(r) \in Seq(Doc) /\ <<>> \in Seq(Doc)
    BY <2>1, PiecesFacts, ErrorDocsFacts
  <2> QED
    BY <1>0, <2>1, <2>2, <2>3
<1>5. ASSUME NEW docs \in Seq(Doc), Finishing(docs) PROVE Goal
  <2>1. proxy' = Idle /\ conn' = NoConn /\ trail' \in {trail, trail + Len(conn.pieces)}
    BY <1>5 DEF Finishing
  <2>2. trail' \in Nat
    BY <1>0, <2>1
  <2>3. Idle \in [at : {"idle", "waiting"}, req : Request, docs : Seq(Doc)]
    BY NoRequestFacts DEF Idle
  <2>4. NoConn \in [pieces : Seq(Piece), out : Seq(Doc)]
    BY DEF NoConn
  <2> QED
    BY <2>1, <2>2, <2>3, <2>4
<1>6. ASSUME NEW d \in Doc, Answering(d) PROVE Goal
  BY <1>2, <1>6 DEF Answering
<1>7. CASE Installing
  BY <1>2, <1>7, DocFacts DEF Installing
<1>8. ASSUME \/ UNCHANGED vars \/ (\E r \in wire : Refusing(r)) \/ (\E b \in back : Delivering(b))
             \/ (\E c \in Consoles : Loading(c) \/ Uploading(c) \/ \E q \in Page : Editing(c, q))
             \/ OtherClient
      PROVE  UNCHANGED <<conn, proxy, trail>>
  BY <1>8 DEF vars, Refusing, Delivering, Loading, Uploading, Editing, OtherClient
<1> HIDE DEF Goal
<1> QED
  BY <1>1, <1>3, <1>4, <1>5, <1>6, <1>7, <1>8 DEF Kinds, Goal

\* Requests and answers keep their shapes.
LEMMA WireShape ==
    Shapes /\ Kinds =>
       /\ wire' \subseteq Request
       /\ back' \subseteq [req : Request, docs : Seq(Doc)]
       /\ \A b \in back' : b.req.from \in Consoles
<1> DEFINE Goal == /\ wire' \subseteq Request
                   /\ back' \subseteq [req : Request, docs : Seq(Doc)]
                   /\ \A b \in back' : b.req.from \in Consoles
<1> SUFFICES ASSUME Shapes, Kinds PROVE Goal
  OBVIOUS
<1>0. /\ wire \subseteq Request
      /\ back \subseteq [req : Request, docs : Seq(Doc)]
      /\ \A b \in back : b.req.from \in Consoles
      /\ proxy.req \in Request
  BY DEF Shapes
<1>1. ASSUME wire' \subseteq Request, back' \subseteq back PROVE Goal
  BY <1>0, <1>1
<1>2. ASSUME NEW r \in Request, NEW docs \in Seq(Doc), Reply(r, docs), wire' \subseteq wire PROVE Goal
  <2>1. r.from \in Consoles \cup {Other}
    BY DEF Request
  <2>2. back' = IF r.from = Other THEN back ELSE back \cup {[req |-> r, docs |-> docs]}
    BY <1>2 DEF Reply
  <2>3. [req |-> r, docs |-> docs] \in [req : Request, docs : Seq(Doc)]
    OBVIOUS
  <2>4. [req |-> r, docs |-> docs].req = r
    OBVIOUS
  <2> QED
    BY <1>0, <1>2, <2>1, <2>2, <2>3, <2>4
<1>3. ASSUME NEW r \in wire, Refusing(r) PROVE Goal
  <2>1. r \in Request /\ ErrorDocs(r) \in Seq(Doc) /\ Reply(r, ErrorDocs(r)) /\ wire' \subseteq wire
    BY <1>0, <1>3, ErrorDocsFacts DEF Refusing
  <2> QED
    BY <1>2, <2>1
<1>4. ASSUME NEW docs \in Seq(Doc), Finishing(docs) PROVE Goal
  BY <1>0, <1>2, <1>4 DEF Finishing
<1>5. ASSUME NEW c \in Consoles, Loading(c) PROVE Goal
  BY <1>0, <1>1, <1>5 DEF Loading
<1>6. ASSUME NEW c \in Consoles, Uploading(c) PROVE Goal
  <2>1. PICK r \in Request : UploadOf(c, r)
    BY <1>6, UploadFacts
  <2> QED
    BY <1>0, <1>1, <2>1 DEF UploadOf
<1>7. CASE OtherClient
  <2>1. PICK opt \in {"config", "empty"} : wire' = wire \cup {[NoRequest EXCEPT !.opt = opt]}
    BY <1>7 DEF OtherClient
  <2>2. [NoRequest EXCEPT !.opt = opt] \in Request
    BY NoRequestFacts DEF Request
  <2>3. back' = back
    BY <1>7 DEF OtherClient
  <2> QED
    BY <1>0, <1>1, <2>1, <2>2, <2>3
<1>8. ASSUME \/ UNCHANGED vars \/ (\E d \in Doc : Answering(d)) \/ Installing \/ Perishing
             \/ (\E r \in wire : Forwarding(r)) \/ (\E b \in back : Delivering(b))
             \/ (\E c \in Consoles, q \in Page : Editing(c, q))
      PROVE  wire' \subseteq wire /\ back' \subseteq back
  BY <1>8 DEF vars, Answering, Installing, Perishing, Forwarding, Delivering, Editing
<1>9. ASSUME wire' \subseteq wire, back' \subseteq back PROVE Goal
  BY <1>0, <1>1, <1>9
<1> HIDE DEF Goal
<1> QED
  BY <1>3, <1>4, <1>5, <1>6, <1>7, <1>8, <1>9 DEF Kinds, Goal

\* The server's variables and the counters keep their types.
LEMMA ServerShape ==
    Shapes /\ Kinds =>
       /\ policy' \in Seq(Rule) /\ enabled' \in BOOLEAN /\ alive' \in BOOLEAN /\ version' \in Nat
       /\ count' \in [edits : Nat, uploads : 0 .. MaxUploads, others : Nat]
<1> DEFINE Goal == /\ policy' \in Seq(Rule) /\ enabled' \in BOOLEAN /\ alive' \in BOOLEAN
                   /\ version' \in Nat
                   /\ count' \in [edits : Nat, uploads : 0 .. MaxUploads, others : Nat]
<1> SUFFICES ASSUME Shapes, Kinds PROVE Goal
  OBVIOUS
<1>0. /\ policy \in Seq(Rule) /\ enabled \in BOOLEAN /\ alive \in BOOLEAN /\ version \in Nat
      /\ count \in [edits : Nat, uploads : 0 .. MaxUploads, others : Nat]
  BY DEF Shapes
<1>1. CASE UNCHANGED <<server, count>>
  BY <1>0, <1>1 DEF server
<1>2. CASE Installing
  <2> DEFINE data == proxy.req.data
  <2>1. data \in Seq(RuleValue)
    BY DEF Shapes, Request
  <2>2. policy' = [i \in DOMAIN data |-> ParseFromJson(data[i])]
    BY <1>2 DEF Installing
  <2> HIDE DEF data
  <2>3. DOMAIN data = 1 .. Len(data) /\ Len(data) \in Nat
    BY <2>1
  <2>4. \A i \in DOMAIN data : ParseFromJson(data[i]) \in Rule
    BY <2>1, ParseTypes
  <2>5. policy' \in Seq(Rule)
    BY <2>2, <2>3, <2>4
  <2>6. enabled' \in BOOLEAN /\ alive' = alive /\ version' = version + 1 /\ count' = count
    BY <1>2 DEF Installing
  <2> QED
    BY <1>0, <2>5, <2>6
<1>3. CASE Perishing
  BY <1>0, <1>3 DEF Perishing
<1>4. ASSUME UNCHANGED server, count' = [count EXCEPT !.edits = @ + 1] PROVE Goal
  BY <1>0, <1>4 DEF server
<1>5. ASSUME NEW c \in Consoles, Uploading(c) PROVE Goal
  <2>1. count.uploads < MaxUploads /\ count' = [count EXCEPT !.uploads = @ + 1] /\ UNCHANGED server
    BY <1>5 DEF Uploading, uploadRuleList
  <2>2. count.uploads + 1 \in 0 .. MaxUploads
    BY <1>0, <2>1, ControlAssumption
  <2> QED
    BY <1>0, <2>1, <2>2 DEF server
<1>6. CASE OtherClient
  BY <1>0, <1>6 DEF OtherClient, server
<1>7. ASSUME NEW c \in Consoles, NEW q \in Page, Editing(c, q) PROVE Goal
  BY <1>4, <1>7 DEF Editing
<1>8. ASSUME \/ UNCHANGED vars \/ (\E d \in Doc : Answering(d))
             \/ (\E r \in wire : Forwarding(r) \/ Refusing(r))
             \/ (\E docs \in Seq(Doc) : Finishing(docs)) \/ (\E b \in back : Delivering(b))
             \/ (\E c \in Consoles : Loading(c))
      PROVE  UNCHANGED <<server, count>>
  BY <1>8 DEF vars, server, Answering, Forwarding, Refusing, Finishing, Delivering, Loading
<1> HIDE DEF Goal
<1> QED
  BY <1>1, <1>2, <1>3, <1>5, <1>6, <1>7, <1>8 DEF Kinds, Goal

\* Everything keeps its shape.
LEMMA ShapesStep == Shapes /\ Kinds => Shapes'
  BY ServerShape, WireShape, ProxyShape, PagesStep DEF Shapes

\* A long update stays noted, and so does what explains a filter that is off.
LEMMA Notes ==
    Shapes /\ Kinds =>
       /\ Long => Long'
       /\ Explained => Explained'
       /\ \A r : Installed(r) => Installed(r)'
  BY PastGrows DEF Long, Explained, Installed

\* Requests come as one piece and are answered once, by a server that lives, until one is too long.
LEMMA WholeStep == Shapes /\ WholeInv /\ Kinds => WholeInv'
<1> SUFFICES ASSUME Shapes, WholeInv, Kinds PROVE WholeInv'
  OBVIOUS
<1> DEFINE One(s) == \A i \in DOMAIN s : s[i] = "whole" => Len(s) = 1
           Calm == /\ alive
                   /\ trail = 0
                   /\ conn.pieces \in {<<>>, <<"whole">>}
                   /\ conn.out # <<>> => conn.pieces = <<>>
<1>0. /\ \A r \in UnderWay : Len(r.data) > MaxFit => Long
      /\ One(conn.pieces)
      /\ ~Long => Calm
      /\ conn.pieces \in Seq(Piece) /\ conn.out \in Seq(Doc) /\ MaxFit \in Nat
  BY ControlAssumption DEF WholeInv, Shapes
<1>1. ASSUME NEW r \in UnderWay', Len(r.data) > MaxFit PROVE Long'
  <2>1. NewRequest(r)
    BY NewRequests
  <2>2. r.data # <<>>
    BY <1>0, <1>1
  <2>3. ASSUME NEW c \in Consoles, UploadOf(c, r) PROVE Long'
    BY <1>1, <2>3 DEF UploadOf, Long
  <2> QED
    BY <1>0, <1>1, <2>1, <2>2, <2>3, Notes DEF NewRequest
<1>2. ASSUME One(conn.pieces)', ~Long' => Calm' PROVE WholeInv'
  BY <1>1, <1>2 DEF WholeInv
<1>3. CASE UNCHANGED <<alive, trail, conn>>
  BY <1>0, <1>2, <1>3, Notes
<1>4. ASSUME NEW d, conn.pieces # <<>>, Head(conn.pieces) # "whole" => Long,
             conn' = Answered(d), UNCHANGED <<alive, trail>>
      PROVE  WholeInv'
  <2>1. conn'.pieces = Tail(conn.pieces)
    BY <1>4 DEF Answered
  <2>2. One(Tail(conn.pieces))
    <3> SUFFICES ASSUME NEW i \in DOMAIN Tail(conn.pieces), Tail(conn.pieces)[i] = "whole"
                 PROVE  FALSE
      OBVIOUS
    <3>1. i + 1 \in DOMAIN conn.pieces /\ conn.pieces[i + 1] = "whole" /\ Len(conn.pieces) > 1
      BY <1>0, <1>4
    <3> QED
      BY <1>0, <3>1
  <2>3. ASSUME ~Long PROVE Calm'
    <3>1. conn.pieces = <<"whole">> /\ alive /\ trail = 0
      BY <1>0, <1>4, <2>3
    <3>2. conn'.pieces = <<>>
      BY <2>1, <3>1
    <3> QED
      BY <1>4, <3>1, <3>2
  <2> QED
    BY <1>2, <2>1, <2>2, <2>3, Notes
<1>5. ASSUME NEW d \in Doc, Answering(d) PROVE WholeInv'
  BY <1>4, <1>5 DEF Answering, server
<1>6. CASE Installing
  BY <1>4, <1>6 DEF Installing
<1>7. CASE Perishing
  <2>1. Long' /\ conn'.pieces \in {conn.pieces, <<>>}
    BY <1>7, Notes DEF Perishing, Shapes
  <2>2. One(<<>>)
    OBVIOUS
  <2> QED
    BY <1>0, <1>2, <2>1, <2>2
<1>8. ASSUME NEW r \in wire, Forwarding(r) PROVE WholeInv'
  <2>1. /\ conn' = [pieces |-> Pieces(r), out |-> <<>>] /\ alive' = alive /\ trail' = trail
    BY <1>8 DEF Forwarding, server
  <2>2. r \in Request /\ r \in UnderWay
    BY DEF Shapes, UnderWay
  <2>3. One(Pieces(r)) /\ (~(Len(r.data) > MaxFit) => Pieces(r) \in {<<>>, <<"whole">>})
    BY <2>2, PiecesFacts
  <2>4. conn'.pieces = Pieces(r) /\ conn'.out = <<>>
    BY <2>1
  <2> QED
    BY <1>0, <1>2, <2>1, <2>2, <2>3, <2>4, Notes
<1>9. ASSUME NEW docs \in Seq(Doc), Finishing(docs) PROVE WholeInv'
  <2>1. /\ trail' \in {trail, trail + Len(conn.pieces)} /\ alive' = alive
        /\ conn'.pieces = <<>> /\ conn'.out = <<>>
        /\ conn.out # <<>> \/ Long
    BY <1>9 DEF Finishing, NoConn, server
  <2>2. One(<<>>)
    OBVIOUS
  <2>3. ASSUME ~Long PROVE Calm'
    <3>1. alive /\ trail = 0 /\ conn.pieces = <<>>
      BY <1>0, <2>1, <2>3
    <3> QED
      BY <2>1, <3>1
  <2> QED
    BY <1>2, <2>1, <2>2, <2>3, Notes
<1>10. ASSUME \/ UNCHANGED vars \/ (\E r \in wire : Refusing(r)) \/ (\E b \in back : Delivering(b))
              \/ (\E c \in Consoles : Loading(c) \/ Uploading(c) \/ \E q \in Page : Editing(c, q))
              \/ OtherClient
       PROVE  UNCHANGED <<alive, trail, conn>>
  BY <1>10 DEF vars, server, Refusing, Delivering, Loading, Uploading, Editing, OtherClient
<1> QED
  BY <1>3, <1>5, <1>6, <1>7, <1>8, <1>9, <1>10 DEF Kinds

\* An upload that is answered, or reported as a success, has been installed.
LEMMA InstalledStep == Shapes /\ WholeInv /\ InstalledInv /\ Kinds => InstalledInv'
<1> SUFFICES ASSUME Shapes, WholeInv, InstalledInv, Kinds PROVE InstalledInv'
  OBVIOUS
<1> DEFINE Served == proxy.at = "waiting" /\ IsUpdate(proxy.req) /\ conn.out # <<>> =>
                         (Installed(proxy.req) \/ Long)
           Returned == \A b \in back : IsUpdate(b.req) => (Installed(b.req) \/ Long)
           Reported == \A c \in Consoles, n \in Nat : <<"success", c, n>> \in past =>
                           (<<"installed", c, n>> \in past \/ Long)
<1>0. Served /\ Returned /\ Reported
  BY DEF InstalledInv
<1>1. ASSUME Served', Returned', Reported' PROVE InstalledInv'
  BY <1>1 DEF InstalledInv
<1>2. ASSUME UNCHANGED <<proxy, conn>> PROVE Served'
  <2>1. /\ Installed(proxy.req)' <=> <<"installed", proxy.req.from, proxy.req.nr>> \in past'
        /\ IsUpdate(proxy.req)' <=> IsUpdate(proxy.req)
    BY <1>2 DEF Installed, IsUpdate
  <2>2. Installed(proxy.req) => <<"installed", proxy.req.from, proxy.req.nr>> \in past'
    BY PastGrows DEF Installed
  <2> QED
    BY <1>0, <1>2, <2>1, <2>2, Notes
<1>3. ASSUME back' \subseteq back PROVE Returned'
  BY <1>0, <1>3, Notes
<1>4. ASSUME \A c \in Consoles, n \in Nat : <<"success", c, n>> \in past' => <<"success", c, n>> \in past
      PROVE  Reported'
  <2> SUFFICES ASSUME NEW c \in Consoles, NEW n \in Nat, <<"success", c, n>> \in past'
               PROVE  <<"installed", c, n>> \in past' \/ Long'
    OBVIOUS
  <2> QED
    BY <1>0, <1>4, Notes, PastGrows
<1>5. ASSUME NEW d \in Doc, Answering(d) PROVE InstalledInv'
  <2>1. /\ conn.pieces # <<>> /\ (Head(conn.pieces) = "whole" => ~IsUpdate(proxy.req))
        /\ Head(conn.pieces) # "whole" => Long
        /\ UNCHANGED <<proxy, back, past>>
    BY <1>5 DEF Answering
  <2>2. Served'
    <3>1. IsUpdate(proxy.req)' => Long
      BY <2>1 DEF IsUpdate
    <3> QED
      BY <3>1, Notes
  <2>3. Returned' /\ Reported'
    BY <1>3, <1>4, <2>1
  <2> QED
    BY <1>1, <2>2, <2>3
<1>6. CASE Installing
  <2>1. /\ UNCHANGED <<proxy, back>>
        /\ past' = past \cup {<<"installed", proxy.req.from, proxy.req.nr>>}
    BY <1>6 DEF Installing
  <2>2. Served'
    BY <2>1 DEF Installed
  <2>3. Returned'
    BY <1>3, <2>1
  <2>4. \A c, n : <<"success", c, n>> # <<"installed", proxy.req.from, proxy.req.nr>>
    OBVIOUS
  <2>5. Reported'
    BY <1>4, <2>1, <2>4
  <2> QED
    BY <1>1, <2>2, <2>3, <2>5
<1>7. CASE Perishing
  <2>1. Long' /\ UNCHANGED <<back, past>>
    BY <1>7, Notes DEF Perishing
  <2> QED
    BY <1>1, <1>3, <1>4, <2>1
<1>8. ASSUME NEW r \in wire, Forwarding(r) PROVE InstalledInv'
  <2>1. conn'.out = <<>> /\ UNCHANGED <<back, past>>
    BY <1>8 DEF Forwarding
  <2> QED
    BY <1>1, <1>3, <1>4, <2>1
<1>9. ASSUME NEW r \in wire, Refusing(r) PROVE InstalledInv'
  <2>1. Long' /\ UNCHANGED past
    BY <1>9, Notes DEF Refusing
  <2> QED
    BY <1>1, <1>4, <2>1
<1>10. ASSUME NEW docs \in Seq(Doc), Finishing(docs) PROVE InstalledInv'
  <2>1. /\ proxy.at = "waiting" /\ (conn.out # <<>> \/ Long) /\ Reply(proxy.req, docs)
        /\ proxy' = Idle /\ conn' = NoConn /\ UNCHANGED past
    BY <1>10 DEF Finishing
  <2>2. Served'
    BY <2>1 DEF NoConn
  <2>3. back' \subseteq back \cup {[req |-> proxy.req, docs |-> docs]}
    BY <2>1 DEF Reply
  <2>4. IsUpdate(proxy.req) => Installed(proxy.req) \/ Long
    BY <1>0, <2>1
  <2>5. Returned'
    <3> SUFFICES ASSUME NEW b \in back', IsUpdate(b.req) PROVE Installed(b.req)' \/ Long'
      BY DEF IsUpdate
    <3>1. CASE b \in back
      BY <1>0, <3>1, Notes
    <3>2. CASE b = [req |-> proxy.req, docs |-> docs]
      <4>1. b.req = proxy.req
        BY <3>2
      <4>2. <<"installed", b.req.from, b.req.nr>> \in past \/ Long
        BY <2>4, <4>1 DEF Installed
      <4> QED
        BY <4>2, PastGrows, Notes DEF Installed
    <3> QED
      BY <2>3, <3>1, <3>2
  <2> QED
    BY <1>1, <1>4, <2>1, <2>2, <2>5
<1>11. ASSUME NEW b \in back, Delivering(b) PROVE InstalledInv'
  <2>1. UNCHANGED <<proxy, conn>> /\ back' \subseteq back
    BY <1>11 DEF Delivering
  <2>2. CASE UNCHANGED past
    BY <1>1, <1>2, <1>3, <1>4, <2>1, <2>2
  <2>3. CASE IsUpdate(b.req) /\ past' = past \cup {<<"success", b.req.from, b.req.nr>>}
    <3>1. Installed(b.req) \/ Long
      BY <1>0, <2>3
    <3>2. ASSUME NEW c \in Consoles, NEW n \in Nat, <<"success", c, n>> \in past', ~Long'
          PROVE  <<"installed", c, n>> \in past'
      <4>1. CASE <<"success", c, n>> \in past
        BY <1>0, <3>2, <4>1, Notes, PastGrows
      <4>2. CASE <<"success", c, n>> = <<"success", b.req.from, b.req.nr>>
        <5>1. c = b.req.from /\ n = b.req.nr
          BY <4>2
        <5> QED
          BY <3>1, <3>2, <5>1, Notes, PastGrows DEF Installed
      <4> QED
        BY <2>3, <3>2, <4>1, <4>2
    <3>3. Reported'
      BY <3>2
    <3> QED
      BY <1>1, <1>2, <1>3, <2>1, <3>3
  <2> QED
    BY <1>11, <2>2, <2>3 DEF Delivering
<1>12. ASSUME UNCHANGED <<proxy, conn, back>>,
              past' \subseteq past \cup {<<"off chosen">>, <<"lists unknown">>, <<"status unknown">>,
                                        <<"long update">>}
       PROVE  InstalledInv'
  <2>1. \A c, n : /\ <<"success", c, n>> # <<"off chosen">> /\ <<"success", c, n>> # <<"lists unknown">>
                  /\ <<"success", c, n>> # <<"status unknown">> /\ <<"success", c, n>> # <<"long update">>
    OBVIOUS
  <2>2. Reported'
    BY <1>4, <1>12, <2>1
  <2> QED
    BY <1>1, <1>2, <1>3, <1>12, <2>2
<1>13. ASSUME NEW c \in Consoles, Uploading(c) PROVE InstalledInv'
  <2>1. PICK r \in Request : UploadOf(c, r)
    BY <1>13, UploadFacts
  <2> QED
    BY <1>12, <2>1 DEF UploadOf
<1>14. ASSUME NEW c \in Consoles, NEW q \in Page, Editing(c, q) PROVE InstalledInv'
  BY <1>12, <1>14 DEF Editing
<1>15. ASSUME UNCHANGED vars \/ OtherClient \/ \E c \in Consoles : Loading(c) PROVE InstalledInv'
  BY <1>12, <1>15 DEF vars, OtherClient, Loading
<1> QED
  BY <1>5, <1>6, <1>7, <1>8, <1>9, <1>10, <1>11, <1>13, <1>14, <1>15 DEF Kinds

\* A state off that is told, shown or uploaded is explained.
LEMMA OffStep == Shapes /\ OffInv /\ Kinds => OffInv'
<1> SUFFICES ASSUME Shapes, OffInv, Kinds PROVE OffInv'
  OBVIOUS
<1>0. /\ \A r \in UnderWay : IsUpdate(r) /\ r.enabled = 0 => Explained
      /\ \A c \in Consoles : con[c].known /\ con[c].run_state = 0 => Explained
      /\ \A d \in Answers : d.kind = "status" /\ ~d.enabled => Explained
      /\ ~enabled => Explained
      /\ con \in [Consoles -> Page] /\ con' \in [Consoles -> Page]
  BY PagesStep DEF OffInv, Shapes
<1>1. ASSUME NEW r \in UnderWay', IsUpdate(r), r.enabled = 0 PROVE Explained'
  <2>1. NewRequest(r)
    BY NewRequests
  <2>2. ASSUME NEW c \in Consoles, UploadOf(c, r) PROVE Explained'
    <3>1. con[c].run_state = 0 /\ (~con[c].known => <<"status unknown">> \in past')
      BY <1>1, <2>2 DEF UploadOf
    <3>2. CASE con[c].known
      BY <1>0, <3>1, <3>2, Notes
    <3>3. CASE ~con[c].known
      BY <3>1, <3>3 DEF Explained
    <3> QED
      BY <3>2, <3>3
  <2> QED
    BY <1>0, <1>1, <2>1, <2>2, Notes DEF NewRequest
<1>2. ASSUME NEW d \in Answers', d.kind = "status", ~d.enabled PROVE Explained'
  <2>1. NewDoc(d)
    BY NewAnswers
  <2>2. d \in Answers \/ d.enabled = enabled
    BY <1>2, <2>1 DEF NewDoc, Current
  <2> QED
    BY <1>0, <1>2, <2>2, Notes
<1>3. ASSUME ~enabled' PROVE Explained'
  <2>1. CASE Installing
    <3>1. ~(proxy.req.enabled > 0) /\ IsUpdate(proxy.req)
      BY <1>3, <2>1 DEF Installing
    <3>2. proxy.req.enabled \in {0, 1} /\ proxy.req \in UnderWay
      BY DEF Shapes, Request, UnderWay
    <3> QED
      BY <1>0, <3>1, <3>2, Notes
  <2>2. CASE ~Installing
    <3>1. enabled' = enabled
      BY <2>2 DEF Kinds, vars, server, Answering, Perishing, Forwarding, Refusing, Finishing, Delivering,
                  Loading, Editing, Uploading, OtherClient
    <3> QED
      BY <1>0, <1>3, <3>1, Notes
  <2> QED
    BY <2>1, <2>2
<1>4. ASSUME NEW c \in Consoles, con'[c].known, con'[c].run_state = 0 PROVE Explained'
  <2>1. CASE con'[c] = con[c]
    BY <1>0, <1>4, <2>1, Notes
  <2>2. ASSUME NEW x \in Consoles, Loading(x) PROVE Explained'
    <3>1. con[x].visit + 1 \in Nat /\ con[x].token \in Tokens \cup {NoToken}
      BY <1>0 DEF Page
    <3>2. ~FreshPage("up", con[x].visit + 1, con[x].token).known
      BY <3>1, FreshPageFacts
    <3>3. con' = [con EXCEPT ![x] = FreshPage("up", con[x].visit + 1, con[x].token)]
      BY <2>2 DEF Loading
    <3> QED
      BY <1>0, <1>4, <2>1, <3>2, <3>3
  <2>3. ASSUME NEW x \in Consoles, NEW q \in Page, Editing(x, q) PROVE Explained'
    <3>1. /\ con' = [con EXCEPT ![x] = q] /\ q.known = con[x].known
          /\ q.run_state = 0 => con[x].run_state = 0 \/ <<"off chosen">> \in past'
      BY <2>3 DEF Editing
    <3>2. CASE x = c
      <4>1. con'[c] = q
        BY <1>0, <3>1, <3>2
      <4>2. (con[c].run_state = 0 /\ con[c].known) \/ <<"off chosen">> \in past'
        BY <1>4, <3>1, <3>2, <4>1
      <4>3. <<"off chosen">> \in past' => Explained'
        BY DEF Explained
      <4> QED
        BY <1>0, <4>2, <4>3, Notes
    <3>3. CASE x # c
      BY <1>0, <2>1, <3>1, <3>3
    <3> QED
      BY <3>2, <3>3
  <2>4. ASSUME NEW b \in back, Delivering(b) PROVE Explained'
    <3>1. CASE UNCHANGED con
      BY <2>1, <3>1
    <3>2. ASSUME NEW d, syncRuleList(b.req.from, d)
          PROVE  con'[c].known = con[c].known /\ con'[c].run_state = con[c].run_state
      <4>1. CASE c = b.req.from
        BY <1>0, <3>2, <4>1 DEF syncRuleList, Page
      <4>2. CASE c # b.req.from
        BY <1>0, <3>2, <4>2 DEF syncRuleList
      <4> QED
        BY <4>1, <4>2
    <3>3. ASSUME syncStatus(b.req.from, b.docs) PROVE Explained'
      <4> DEFINE on == IsDoc(b.docs, "status")
      <4>1. CASE c = b.req.from
        <5>1. con'[c].known = on /\ con'[c].run_state = IF on /\ Head(b.docs).enabled THEN 1 ELSE 0
          <6> HIDE DEF on
          <6> QED
            BY <1>0, <3>3, <4>1 DEF syncStatus, Page, on
        <5>2. on /\ ~Head(b.docs).enabled
          BY <1>4, <5>1
        <5>3. b.docs \in Seq(Doc) /\ b.docs # <<>> /\ Head(b.docs).kind = "status"
          BY <5>2 DEF IsDoc, Shapes
        <5>4. Head(b.docs) \in ToSet(b.docs)
          BY <5>3 DEF ToSet
        <5>5. Head(b.docs) \in Answers
          BY <5>4 DEF Answers
        <5> QED
          BY <1>0, <5>2, <5>3, <5>5, Notes
      <4>2. CASE c # b.req.from
        <5>1. con'[c] = con[c]
          BY <1>0, <3>3, <4>2 DEF syncStatus
        <5> QED
          BY <2>1, <5>1
      <4> QED
        BY <4>1, <4>2
    <3> QED
      BY <1>0, <1>4, <2>4, <3>1, <3>2, <3>3, Notes DEF Delivering
  <2>5. ASSUME \/ UNCHANGED vars \/ (\E d \in Doc : Answering(d)) \/ Installing \/ Perishing
               \/ (\E r \in wire : Forwarding(r) \/ Refusing(r))
               \/ (\E docs \in Seq(Doc) : Finishing(docs)) \/ OtherClient
               \/ (\E x \in Consoles : Uploading(x))
        PROVE  UNCHANGED con
    BY <2>5 DEF vars, Answering, Installing, Perishing, Forwarding, Refusing, Finishing, OtherClient,
                Uploading, uploadRuleList
  <2> QED
    BY <2>1, <2>2, <2>3, <2>4, <2>5 DEF Kinds
<1> QED
  BY <1>1, <1>2, <1>3, <1>4 DEF OffInv, IsUpdate

\* Which uploads are done changes only when one is installed.
LEMMA DoneSame == Shapes /\ Kinds /\ ~Installing => Done' = Done
<1> SUFFICES ASSUME Shapes, Kinds, ~Installing PROVE Done' = Done
  OBVIOUS
<1>1. ASSUME \A c \in Consoles, n \in 1 .. MaxUploads :
                <<"installed", c, n>> \in past' <=> <<"installed", c, n>> \in past
      PROVE  Done' = Done
  BY <1>1 DEF Done
<1>2. CASE UNCHANGED past
  BY <1>1, <1>2
<1>3. \A c, n, x, k : /\ <<"installed", c, n>> # <<"success", x, k>>
                      /\ <<"installed", c, n>> # <<"off chosen">>
                      /\ <<"installed", c, n>> # <<"lists unknown">>
                      /\ <<"installed", c, n>> # <<"status unknown">>
                      /\ <<"installed", c, n>> # <<"long update">>
  OBVIOUS
<1>4. ASSUME NEW b \in back, Delivering(b) PROVE Done' = Done
  BY <1>1, <1>2, <1>3, <1>4 DEF Delivering
<1>5. ASSUME NEW c \in Consoles, Uploading(c) PROVE Done' = Done
  <2>1. PICK r \in Request : UploadOf(c, r)
    BY <1>5, UploadFacts
  <2> QED
    BY <1>1, <1>3, <2>1 DEF UploadOf
<1>6. ASSUME NEW c \in Consoles, NEW q \in Page, Editing(c, q) PROVE Done' = Done
  BY <1>1, <1>3, <1>6 DEF Editing
<1>7. ASSUME \/ UNCHANGED vars \/ (\E d \in Doc : Answering(d)) \/ Perishing
             \/ (\E r \in wire : Forwarding(r) \/ Refusing(r))
             \/ (\E docs \in Seq(Doc) : Finishing(docs)) \/ OtherClient
             \/ (\E c \in Consoles : Loading(c))
      PROVE  UNCHANGED past
  BY <1>7 DEF vars, Answering, Perishing, Forwarding, Refusing, Finishing, OtherClient, Loading
<1> QED
  BY <1>2, <1>4, <1>5, <1>6, <1>7 DEF Kinds

\* Every upload is installed at most once, and the version counts those that are.
LEMMA CountStep == Shapes /\ WholeInv /\ CountInv /\ Kinds => CountInv'
<1> SUFFICES ASSUME Shapes, WholeInv, CountInv, Kinds PROVE CountInv'
  OBVIOUS
<1>0. /\ version = Cardinality(Done)
      /\ \A n \in Done : n <= count.uploads
      /\ \A r \in UnderWay : IsUpdate(r) => r.from \in Consoles /\ r.nr \in 1 .. count.uploads
      /\ \A r \in wire : IsUpdate(r) => r.nr \notin Done
      /\ proxy.at = "waiting" /\ IsUpdate(proxy.req) /\ conn.pieces = <<"whole">> =>
            proxy.req.nr \notin Done
      /\ \A r, s \in wire : IsUpdate(r) /\ IsUpdate(s) /\ r.nr = s.nr => r = s
      /\ \A r \in wire : IsUpdate(r) /\ IsUpdate(proxy.req) => r.nr # proxy.req.nr
      /\ count.uploads \in 0 .. MaxUploads /\ MaxUploads \in Nat
      /\ conn.pieces \in Seq(Piece)
  BY ControlAssumption DEF CountInv, Waiting, UnderWay, Shapes
<1>a. ASSUME version' = Cardinality(Done'),
             \A n \in Done' : n <= count'.uploads,
             \A r \in wire' : IsUpdate(r) => r.from \in Consoles /\ r.nr \in 1 .. count'.uploads /\ r.nr \notin Done',
             IsUpdate(proxy'.req) =>
                proxy'.req.from \in Consoles /\ proxy'.req.nr \in 1 .. count'.uploads,
             proxy'.at = "waiting" /\ IsUpdate(proxy'.req) /\ conn'.pieces = <<"whole">> =>
                proxy'.req.nr \notin Done',
             \A r, s \in wire' : IsUpdate(r) /\ IsUpdate(s) /\ r.nr = s.nr => r = s,
             \A r \in wire' : IsUpdate(r) /\ IsUpdate(proxy'.req) => r.nr # proxy'.req.nr
      PROVE  CountInv'
  BY <1>a DEF CountInv, Waiting, UnderWay, IsUpdate
<1>b. /\ \A r \in wire : IsUpdate(r) => r.from \in Consoles /\ r.nr \in 1 .. count.uploads
      /\ IsUpdate(proxy.req) => proxy.req.from \in Consoles /\ proxy.req.nr \in 1 .. count.uploads
  BY <1>0 DEF UnderWay
<1>1. ASSUME UNCHANGED <<version, proxy>>, count'.uploads = count.uploads, Done' = Done,
             wire' \subseteq wire, conn'.pieces = <<"whole">> => conn.pieces = <<"whole">>
      PROVE  CountInv'
  BY <1>0, <1>1, <1>a, <1>b
<1>2. ASSUME NEW d \in Doc, Answering(d) PROVE CountInv'
  <2>1. /\ UNCHANGED <<version, proxy, wire, count>> /\ conn'.pieces = Tail(conn.pieces)
        /\ conn.pieces # <<>>
    BY <1>2 DEF Answering, Answered, server
  <2>2. conn'.pieces # <<"whole">>
    BY <1>0, <2>1, TailNotWhole
  <2>3. Done' = Done
    BY <2>1, DoneSame DEF Installing, Shapes
  <2> QED
    BY <1>1, <2>1, <2>2, <2>3
<1>3. CASE Installing
  <2>1. /\ conn.pieces # <<>> /\ Head(conn.pieces) = "whole" /\ IsUpdate(proxy.req)
        /\ version' = version + 1
        /\ past' = past \cup {<<"installed", proxy.req.from, proxy.req.nr>>}
        /\ UNCHANGED <<proxy, wire, count>> /\ conn'.pieces = Tail(conn.pieces)
    BY <1>3 DEF Installing, Answered
  <2> DEFINE c0 == proxy.req.from
             n0 == proxy.req.nr
  <2>2. conn.pieces = <<"whole">>
    <3>1. 1 \in DOMAIN conn.pieces /\ conn.pieces[1] = "whole"
      BY <1>0, <2>1
    <3>2. Len(conn.pieces) = 1
      BY <3>1 DEF WholeInv
    <3> QED
      BY <1>0, <3>1, <3>2
  <2>3. proxy.at = "waiting"
    BY <2>1 DEF Shapes, NoConn
  <2>4. c0 \in Consoles /\ n0 \in 1 .. count.uploads /\ n0 \notin Done
    BY <1>0, <1>b, <2>1, <2>2, <2>3
  <2>5. n0 \in 1 .. MaxUploads
    BY <1>0, <2>4
  <2>6. Done' = Done \cup {n0}
    <3> HIDE DEF c0, n0
    <3>1. past' = past \cup {<<"installed", c0, n0>>}
      BY <2>1 DEF c0, n0
    <3>2. \A c, n : <<"installed", c, n>> = <<"installed", c0, n0>> <=> c = c0 /\ n = n0
      OBVIOUS
    <3> QED
      BY <2>4, <2>5, <3>1, <3>2 DEF Done
  <2>7. IsFiniteSet(Done)
    <3>1. Done \subseteq 1 .. MaxUploads /\ IsFiniteSet(1 .. MaxUploads)
      BY <1>0, FS_Interval DEF Done
    <3> QED
      BY <3>1, FS_Subset
  <2>8. Cardinality(Done') = version + 1
    BY <1>0, <2>4, <2>6, <2>7, FS_AddElement
  <2>9. conn'.pieces = <<>>
    BY <2>1, <2>2
  <2> HIDE DEF c0, n0
  <2>10. \A r \in wire : IsUpdate(r) => r.nr # n0
    BY <1>0, <2>1 DEF n0
  <2>11. \A n \in Done' : n <= count.uploads
    BY <1>0, <2>4, <2>6
  <2>12. conn'.pieces # <<"whole">>
    BY <2>9
  <2>13. \A r \in wire : IsUpdate(r) => r.nr \notin Done'
    BY <1>0, <2>6, <2>10
  <2> QED
    BY <1>0, <1>a, <1>b, <2>1, <2>8, <2>11, <2>12, <2>13
<1>4. CASE Perishing
  <2>1. /\ UNCHANGED <<version, proxy, wire, count, past>> /\ conn'.pieces \in {conn.pieces, <<>>}
    BY <1>4 DEF Perishing, Shapes
  <2>2. Done' = Done
    BY <2>1 DEF Done
  <2>3. conn'.pieces = <<"whole">> => conn.pieces = <<"whole">>
    BY <2>1
  <2> QED
    BY <1>1, <2>1, <2>2, <2>3
<1>5. ASSUME NEW r \in wire, Forwarding(r) PROVE CountInv'
  <2>1. wire' = wire \ {r} /\ proxy'.req = r /\ UNCHANGED <<version, count, past>>
    BY <1>5 DEF Forwarding, server
  <2>2. Done' = Done
    BY <2>1 DEF Done
  <2> QED
    BY <1>0, <1>a, <1>b, <2>1, <2>2
<1>6. ASSUME NEW r \in wire, Refusing(r) PROVE CountInv'
  <2>1. wire' = wire \ {r} /\ UNCHANGED <<version, proxy, conn, count, past>>
    BY <1>6 DEF Refusing, server
  <2>2. Done' = Done
    BY <2>1 DEF Done
  <2> QED
    BY <1>1, <2>1, <2>2
<1>7. ASSUME NEW docs \in Seq(Doc), Finishing(docs) PROVE CountInv'
  <2>1. /\ proxy'.req = NoRequest /\ conn'.pieces = <<>> /\ UNCHANGED <<version, wire, count, past>>
    BY <1>7 DEF Finishing, server, Idle, NoConn
  <2>2. Done' = Done
    BY <2>1 DEF Done
  <2>3. ~IsUpdate(NoRequest)
    BY NoRequestFacts DEF IsUpdate
  <2> QED
    BY <1>0, <1>a, <1>b, <2>1, <2>2, <2>3
<1>8. ASSUME NEW c \in Consoles, Uploading(c) PROVE CountInv'
  <2>1. PICK q \in Request : UploadOf(c, q)
    BY <1>8, UploadFacts
  <2>2. /\ wire' = wire \cup {q} /\ IsUpdate(q) /\ q.from = c /\ q.nr = count.uploads + 1
        /\ count' = [count EXCEPT !.uploads = @ + 1] /\ UNCHANGED <<version, proxy, conn>>
    BY <2>1 DEF UploadOf, server
  <2>3. count'.uploads = count.uploads + 1
    BY <2>2 DEF Shapes
  <2>4. Done' = Done
    <3>1. ~Installing
      BY <2>3, <1>0 DEF Installing
    <3> QED
      BY <3>1, DoneSame
  <2>5. \A n \in 1 .. count.uploads : n \in 1 .. count'.uploads /\ n # q.nr
    BY <1>0, <2>2, <2>3
  <2>6. q.nr \in 1 .. count'.uploads /\ q.nr \notin Done
    BY <1>0, <2>2, <2>3
  <2>7. \A n \in Done' : n <= count'.uploads
    <3>1. \A n \in Done : n \in Nat
      BY <1>0 DEF Done
    <3> QED
      BY <1>0, <2>3, <2>4, <3>1
  <2>8. \A r \in wire : IsUpdate(r) => r.nr # q.nr
    BY <1>b, <2>5
  <2>9. IsUpdate(proxy.req) => q.nr # proxy.req.nr
    BY <1>b, <2>5
  <2> QED
    BY <1>0, <1>a, <1>b, <2>2, <2>4, <2>5, <2>6, <2>7, <2>8, <2>9
<1>9. ASSUME UNCHANGED <<version, proxy, conn>>, count'.uploads = count.uploads, Done' = Done,
             wire \subseteq wire', \A r \in wire' \ wire : ~IsUpdate(r)
      PROVE  CountInv'
  BY <1>0, <1>9, <1>a, <1>b
<1>10. ASSUME NEW c \in Consoles, Loading(c) PROVE CountInv'
  <2>1. UNCHANGED <<version, proxy, conn, count, past>> /\ wire \subseteq wire'
        /\ \A r \in wire' \ wire : ~IsUpdate(r)
    BY <1>10 DEF Loading, server
  <2>2. Done' = Done
    BY <2>1 DEF Done
  <2> QED
    BY <1>9, <2>1, <2>2
<1>11. CASE OtherClient
  <2>1. PICK opt \in {"config", "empty"} : wire' = wire \cup {[NoRequest EXCEPT !.opt = opt]}
    BY <1>11 DEF OtherClient
  <2>2. ~IsUpdate([NoRequest EXCEPT !.opt = opt])
    BY NoRequestFacts DEF Request, IsUpdate
  <2>3. /\ UNCHANGED <<version, proxy, conn, past>> /\ count'.uploads = count.uploads
    BY <1>11 DEF OtherClient, server, Shapes
  <2>4. Done' = Done
    BY <2>3 DEF Done
  <2> QED
    BY <1>9, <2>1, <2>2, <2>3, <2>4
<1>12. ASSUME NEW c \in Consoles, NEW q \in Page, Editing(c, q) PROVE CountInv'
  <2>1. UNCHANGED <<version, proxy, conn, wire>> /\ count'.uploads = count.uploads
    BY <1>12 DEF Editing, server, Shapes
  <2>2. Done' = Done
    <3>1. ~Installing
      BY <1>0, <2>1 DEF Installing, Shapes
    <3> QED
      BY <3>1, DoneSame
  <2> QED
    BY <1>9, <2>1, <2>2
<1>13. ASSUME NEW b \in back, Delivering(b) PROVE CountInv'
  <2>1. UNCHANGED <<version, proxy, conn, wire, count>>
    BY <1>13 DEF Delivering, server
  <2>2. Done' = Done
    <3>1. ~Installing
      BY <1>0, <2>1 DEF Installing, Shapes
    <3> QED
      BY <3>1, DoneSame
  <2> QED
    BY <1>9, <2>1, <2>2
<1>14. CASE UNCHANGED vars
  <2>1. UNCHANGED <<version, proxy, conn, wire, count, past>>
    BY <1>14 DEF vars
  <2>2. Done' = Done
    BY <2>1 DEF Done
  <2> QED
    BY <1>9, <2>1, <2>2
<1> QED
  BY <1>2, <1>3, <1>4, <1>5, <1>6, <1>7, <1>8, <1>10, <1>11, <1>12, <1>13, <1>14 DEF Kinds

\* What pages, answers and uploads have of the policy stays true while the version stays, and an
\* update makes them old.
LEMMA KeepStep == Shapes /\ KeepInv /\ Kinds => KeepInv'
<1> SUFFICES ASSUME Shapes, KeepInv, Kinds PROVE KeepInv'
  OBVIOUS
<1>0. /\ \A r \in UnderWay : r.synced => r.base <= version /\ (r.base = version => HasElements(r))
      /\ \A c \in Consoles : con[c].synced =>
            con[c].base <= version /\ (con[c].base = version => HasRows(con[c]))
      /\ \A d \in Answers : d.kind = "list" =>
            d.ver <= version /\ (d.ver = version => IsPolicy(d.list))
      /\ con \in [Consoles -> Page] /\ con' \in [Consoles -> Page] /\ version \in Nat
  BY PagesStep DEF KeepInv, Shapes
<1>1. CASE Installing
  <2>1. version' = version + 1 /\ UNCHANGED <<proxy, wire, back, con>>
    BY <1>1 DEF Installing
  <2>2. ASSUME NEW r \in UnderWay', r.synced PROVE r.base <= version' /\ r.base # version'
    <3>1. r \in UnderWay /\ r.base \in Nat
      BY <2>1 DEF UnderWay, Shapes, Request
    <3> QED
      BY <1>0, <2>1, <2>2, <3>1
  <2>3. ASSUME NEW c \in Consoles, con'[c].synced
        PROVE  con'[c].base <= version' /\ con'[c].base # version'
    <3>1. con[c].base \in Nat
      BY <1>0 DEF Page
    <3> QED
      BY <1>0, <2>1, <2>3, <3>1
  <2>4. ASSUME NEW d \in Answers', d.kind = "list" PROVE d.ver <= version' /\ d.ver # version'
    <3>1. d \in Answers
      <4>1. NewDoc(d)
        BY NewAnswers
      <4>2. version' # version
        BY <1>0, <2>1
      <4> QED
        BY <2>4, <4>1, <4>2 DEF NewDoc, server
    <3>2. d \in Doc
      BY <3>1 DEF Answers, Shapes, ToSet
    <3>3. d.ver \in Nat
      BY <2>4, <3>2, DocTypes
    <3> QED
      BY <1>0, <2>1, <2>4, <3>1, <3>3
  <2> QED
    BY <2>2, <2>3, <2>4 DEF KeepInv
<1>2. CASE ~Installing
  <2>1. UNCHANGED <<policy, version>>
    BY <1>2 DEF Kinds, vars, server, Answering, Perishing, Forwarding, Refusing, Finishing, Delivering,
                Loading, Editing, Uploading, OtherClient
  <2>2. /\ \A p : HasRows(p)' <=> HasRows(p)
        /\ \A r : HasElements(r)' <=> HasElements(r)
        /\ \A l : IsPolicy(l)' <=> IsPolicy(l)
    BY <2>1 DEF HasRows, HasElements, IsPolicy
  <2>3. ASSUME NEW r \in UnderWay', r.synced
        PROVE  r.base <= version /\ (r.base = version => HasElements(r))
    <3>1. NewRequest(r)
      BY NewRequests
    <3>2. ASSUME NEW c \in Consoles, UploadOf(c, r)
          PROVE  r.base <= version /\ (r.base = version => HasElements(r))
      <4>1. /\ con[c].synced /\ r.base = con[c].base /\ r.touched = con[c].touched
            /\ \A l \in Lists : \A k \in DOMAIN con[c].list[l] : IsOn(con[c].list[l][k]) =>
                  \E j \in DOMAIN r.data : r.data[j] = transformer(con[c].list[l][k].v, TypeOf(l))
        BY <2>3, <3>2 DEF UploadOf
      <4>2. r.base <= version /\ (r.base = version => HasRows(con[c]))
        BY <1>0, <4>1
      <4>3. ASSUME HasRows(con[c]) PROVE HasElements(r)
        <5> SUFFICES ASSUME NEW i \in DOMAIN policy, i \notin r.touched
                     PROVE  \E k \in DOMAIN r.data :
                               r.data[k] = transformer(toJson(policy[i]), KeptType(policy[i]))
          BY DEF HasElements
        <5> DEFINE l == ListOf(policy[i])
        <5>1. l \in Lists /\ TypeOf(l) = KeptType(policy[i])
          BY DEF ListOf, Lists, TypeOf, KeptType
        <5>2. PICK k \in DOMAIN con[c].list[l] : con[c].list[l][k] = Item(toJson(policy[i]), "on", i)
          BY <4>1, <4>3 DEF HasRows
        <5>3. IsOn(con[c].list[l][k]) /\ con[c].list[l][k].v = toJson(policy[i])
          BY <5>2 DEF Item, IsOn
        <5> HIDE DEF l
        <5> QED
          BY <4>1, <5>1, <5>2, <5>3
      <4> QED
        BY <4>2, <4>3
    <3> QED
      BY <1>0, <2>3, <3>1, <3>2 DEF NewRequest
  <2>4. ASSUME NEW d \in Answers', d.kind = "list"
        PROVE  d.ver <= version /\ (d.ver = version => IsPolicy(d.list))
    <3>1. NewDoc(d)
      BY NewAnswers
    <3> QED
      BY <1>0, <2>4, <3>1 DEF NewDoc, Current
  <2>5. ASSUME NEW c \in Consoles, con'[c].synced
        PROVE  con'[c].base <= version /\ (con'[c].base = version => HasRows(con'[c]))
    <3>1. CASE con'[c] = con[c]
      BY <1>0, <2>5, <3>1
    <3>2. ASSUME NEW x \in Consoles, Loading(x) PROVE con'[c] = con[c]
      <4>1. con[x].visit + 1 \in Nat /\ con[x].token \in Tokens \cup {NoToken}
        BY <1>0 DEF Page
      <4>2. ~FreshPage("up", con[x].visit + 1, con[x].token).synced
        BY <4>1, FreshPageFacts
      <4>3. con' = [con EXCEPT ![x] = FreshPage("up", con[x].visit + 1, con[x].token)]
        BY <3>2 DEF Loading
      <4> QED
        BY <1>0, <2>5, <4>2, <4>3
    <3>3. ASSUME NEW x \in Consoles, NEW q \in Page, Editing(x, q)
          PROVE  con'[c].base <= version /\ (con'[c].base = version => HasRows(con'[c]))
      <4>1. /\ con' = [con EXCEPT ![x] = q] /\ q.synced = con[x].synced /\ q.base = con[x].base
            /\ HasRows(con[x]) => HasRows(q)
        BY <3>3 DEF Editing
      <4>2. CASE x = c
        <5>1. con'[c] = q
          BY <1>0, <4>1, <4>2
        <5> QED
          BY <1>0, <2>5, <4>1, <4>2, <5>1
      <4>3. CASE x # c
        BY <1>0, <3>1, <4>1, <4>3
      <4> QED
        BY <4>2, <4>3
    <3>4. ASSUME NEW b \in back, NEW d \in ToSet(b.docs), d.kind = "list", syncRuleList(b.req.from, d)
          PROVE  con'[c].base <= version /\ (con'[c].base = version => HasRows(con'[c]))
      <4>1. CASE c = b.req.from
        <5> DEFINE L == [l \in Lists |-> Rows(d, l)]
        <5>1. con'[c].base = d.ver /\ con'[c].touched = {} /\ con'[c].list = L
          <6>1. con' = [con EXCEPT ![c] = [con[c] EXCEPT !.list = L, !.synced = TRUE,
                                                       !.base = d.ver, !.touched = {}]]
            BY <3>4, <4>1 DEF syncRuleList
          <6> HIDE DEF L
          <6> QED
            BY <1>0, <6>1 DEF Page
        <5>2. d \in Answers /\ d \in Doc
          BY DEF Answers, Shapes, ToSet
        <5>3. d.ver <= version /\ (d.ver = version => IsPolicy(d.list))
          BY <1>0, <3>4, <5>2
        <5>4. d.list \in Seq(RuleValue)
          BY <3>4, <5>2, DocTypes
        <5>5. ASSUME IsPolicy(d.list), NEW i \in DOMAIN policy
              PROVE  \E k \in DOMAIN L[ListOf(policy[i])] :
                        L[ListOf(policy[i])][k] = Item(toJson(policy[i]), "on", i)
          <6> DEFINE l == ListOf(policy[i])
          <6>1. policy[i] \in Rule
            BY DEF Shapes
          <6>2. i \in DOMAIN d.list /\ d.list[i] = toJson(policy[i])
            BY <5>5 DEF IsPolicy
          <6>3. d.list[i].type = policy[i].type
            BY <6>1, <6>2, JsonValue
          <6>4. l \in Lists /\ (d.list[i].type = TYPE_BLACK_LIST <=> l = "black")
            BY <6>3 DEF ListOf, Lists
          <6> HIDE DEF l
          <6>5. \E k \in DOMAIN Rows(d, l) : Rows(d, l)[k] = Item(d.list[i], "on", i)
            BY <5>4, <6>2, <6>4, RowsFacts
          <6>6. L[l] = Rows(d, l)
            BY <6>4
          <6> HIDE DEF L
          <6>7. \E k \in DOMAIN L[l] : L[l][k] = Item(toJson(policy[i]), "on", i)
            BY <6>2, <6>5, <6>6
          <6> QED
            BY <6>7 DEF l
        <5> HIDE DEF L
        <5>6. ASSUME IsPolicy(d.list) PROVE HasRows(con'[c])
          BY <5>1, <5>5, <5>6 DEF HasRows
        <5> QED
          BY <5>1, <5>3, <5>6
      <4>2. CASE c # b.req.from
        <5>1. con'[c] = con[c]
          BY <1>0, <3>4, <4>2 DEF syncRuleList
        <5> QED
          BY <3>1, <5>1
      <4> QED
        BY <4>1, <4>2
    <3>5. ASSUME NEW b \in back, syncStatus(b.req.from, b.docs)
          PROVE  con'[c].base <= version /\ (con'[c].base = version => HasRows(con'[c]))
      <4> DEFINE on == IsDoc(b.docs, "status")
                 s == IF on /\ Head(b.docs).enabled THEN 1 ELSE 0
      <4>1. con' = [con EXCEPT ![b.req.from].run_state = s, ![b.req.from].known = on]
        BY <3>5 DEF syncStatus
      <4> HIDE DEF s, on
      <4>2. /\ con'[c].synced = con[c].synced /\ con'[c].base = con[c].base
            /\ con'[c].list = con[c].list /\ con'[c].touched = con[c].touched
        <5>1. CASE c = b.req.from
          BY <1>0, <4>1, <5>1 DEF Page
        <5>2. CASE c # b.req.from
          BY <1>0, <4>1, <5>2
        <5> QED
          BY <5>1, <5>2
      <4>3. HasRows(con[c]) => HasRows(con'[c])
        BY <4>2 DEF HasRows
      <4> QED
        BY <1>0, <2>5, <4>2, <4>3
    <3>6. ASSUME NEW b \in back, Delivering(b)
          PROVE  con'[c].base <= version /\ (con'[c].base = version => HasRows(con'[c]))
      BY <3>1, <3>4, <3>5, <3>6 DEF Delivering
    <3>7. ASSUME \/ UNCHANGED vars \/ (\E d \in Doc : Answering(d)) \/ Perishing
                 \/ (\E r \in wire : Forwarding(r) \/ Refusing(r))
                 \/ (\E docs \in Seq(Doc) : Finishing(docs)) \/ OtherClient
                 \/ (\E x \in Consoles : Uploading(x))
          PROVE  con'[c] = con[c]
      BY <3>7 DEF vars, Answering, Perishing, Forwarding, Refusing, Finishing, OtherClient,
                  Uploading, uploadRuleList
    <3> QED
      BY <1>2, <3>1, <3>2, <3>3, <3>6, <3>7 DEF Kinds
  <2> QED
    BY <2>1, <2>2, <2>3, <2>4, <2>5 DEF KeepInv
<1> QED
  BY <1>1, <1>2

\* The invariant holds when the server has read its file and no page is open.
LEMMA InitInd == Init => IndInv
<1> SUFFICES ASSUME Init PROVE IndInv
  OBVIOUS
<1>1. /\ policy \in Files /\ enabled = TRUE /\ alive = TRUE /\ trail = 0 /\ conn = NoConn
      /\ proxy = Idle /\ wire = {} /\ back = {} /\ version = 0 /\ past = {}
      /\ con \in [Consoles -> {FreshPage("none", 0, t) : t \in Tokens \cup {NoToken}}]
      /\ count = [edits |-> 0, uploads |-> 0, others |-> 0]
  BY DEF Init
<1>2. conn.pieces = <<>> /\ conn.out = <<>> /\ proxy.at = "idle" /\ proxy.req = NoRequest
      /\ proxy.docs = <<>>
  BY <1>1 DEF NoConn, Idle
<1>3. \A c \in Consoles : con[c] \in Page /\ ~con[c].known /\ ~con[c].synced
  <2> SUFFICES ASSUME NEW c \in Consoles PROVE con[c] \in Page /\ ~con[c].known /\ ~con[c].synced
    OBVIOUS
  <2>1. PICK t \in Tokens \cup {NoToken} : con[c] = FreshPage("none", 0, t)
    BY <1>1
  <2>2. /\ FreshPage("none", 0, t) \in Page
        /\ ~FreshPage("none", 0, t).known /\ ~FreshPage("none", 0, t).synced
    BY FreshPageFacts
  <2> QED
    BY <2>1, <2>2
<1>4. con \in [Consoles -> Page]
  BY <1>1, <1>3
<1>5. Idle \in [at : {"idle", "waiting"}, req : Request, docs : Seq(Doc)]
  BY NoRequestFacts DEF Idle
<1>6. NoConn \in [pieces : Seq(Piece), out : Seq(Doc)]
  BY DEF NoConn
<1>7. policy \in Seq(Rule) /\ MaxUploads \in Nat /\ MaxFit \in Nat
  BY <1>1, ControlAssumption
<1>8. Shapes
  BY <1>1, <1>4, <1>5, <1>6, <1>7 DEF Shapes
<1>9. UnderWay = {NoRequest} /\ Answers = {}
  BY <1>1, <1>2, FewDocs DEF UnderWay, Answers
<1>10. NoRequest.data = <<>> /\ ~IsUpdate(NoRequest) /\ ~NoRequest.synced
  BY NoRequestFacts DEF IsUpdate
<1>11. WholeInv
  <2>1. DOMAIN conn.pieces = {}
    BY <1>2
  <2>2. Len(NoRequest.data) = 0
    BY <1>10
  <2> QED
    BY <1>1, <1>2, <1>7, <1>9, <2>1, <2>2 DEF WholeInv
<1>12. InstalledInv
  BY <1>1, <1>2 DEF InstalledInv
<1>13. OffInv
  BY <1>1, <1>3, <1>9, <1>10 DEF OffInv
<1>14. CountInv
  <2>1. Done = {}
    BY <1>1 DEF Done
  <2>2. Cardinality(Done) = 0
    BY <2>1, FS_EmptySet
  <2> QED
    BY <1>1, <1>2, <1>9, <1>10, <2>1, <2>2 DEF CountInv
<1>15. KeepInv
  BY <1>3, <1>9, <1>10 DEF KeepInv
<1> QED
  BY <1>8, <1>11, <1>12, <1>13, <1>14, <1>15 DEF IndInv

-----------------------------------------------------------------------------

\* The invariant holds in every reachable state.
THEOREM ControlInvariance == Spec => []IndInv
<1>1. IndInv /\ [Next]_vars => IndInv'
  <2> SUFFICES ASSUME IndInv, [Next]_vars PROVE IndInv'
    OBVIOUS
  <2>1. Kinds
    BY Steps DEF IndInv
  <2> QED
    BY <2>1, ShapesStep, WholeStep, InstalledStep, OffStep, CountStep, KeepStep DEF IndInv
<1> QED
  BY InitInd, <1>1, PTL DEF Spec

\* The variables keep their types; in particular the policy is always a list of rules in their
\* widths, whatever pages upload, and no upload is installed twice.
THEOREM ControlTypes == Spec => []TypeOK
<1>1. ASSUME IndInv PROVE TypeOK
  <2>1. version \in 0 .. MaxUploads
    <3>1. Done \subseteq 1 .. MaxUploads /\ MaxUploads \in Nat
      BY ControlAssumption DEF Done
    <3>2. IsFiniteSet(1 .. MaxUploads) /\ Cardinality(1 .. MaxUploads) = MaxUploads
      BY <3>1, FS_Interval
    <3>3. Cardinality(Done) <= MaxUploads
      BY <3>1, <3>2, FS_Subset
    <3> QED
      BY <1>1, <3>1, <3>3 DEF IndInv, CountInv, Shapes
  <2>2. \A c \in Consoles : /\ con[c].page \in {"none", "up"} /\ con[c].run_state \in {0, 1}
                            /\ con[c].touched \subseteq Nat
                            /\ con[c].list \in [Lists -> Seq(Row)]
    BY <1>1 DEF IndInv, Shapes, Page
  <2>3. ASSUME NEW c \in Consoles, NEW l \in Lists, NEW i \in DOMAIN con[c].list[l]
        PROVE  con[c].list[l][i].status \in {"on", "off", "none"}
    <3>1. con[c].list[l] \in Seq(Row)
      BY <2>2
    <3>2. con[c].list[l][i] \in Row
      BY <3>1
    <3> QED
      BY <3>2 DEF Row
  <2>4. \A i \in DOMAIN conn.pieces : conn.pieces[i] \in {"whole", "first", "rest"}
    <3>1. conn.pieces \in Seq(Piece)
      BY <1>1 DEF IndInv, Shapes
    <3> QED
      BY <3>1 DEF Piece
  <2>5. \A r \in wire : r.from \in Consoles \cup {Other}
    BY <1>1 DEF IndInv, Shapes, Request
  <2> QED
    BY <1>1, <2>1, <2>2, <2>3, <2>4, <2>5 DEF IndInv, Shapes, TypeOK
<1> QED
  BY <1>1, ControlInvariance, PTL

\* Only a piece of an update that does not fit one recv can terminate the server.
THEOREM AliveUnlessLong == Spec => []AliveUnlessSplit
<1>1. IndInv => AliveUnlessSplit
  BY DEF IndInv, WholeInv, AliveUnlessSplit, Long
<1> QED
  BY <1>1, ControlInvariance, PTL

\* Whatever the console calls a success has been installed, unless an update was too long.
THEOREM SuccessIsInstalled == Spec => []SuccessUnlessSplit
<1>1. IndInv => SuccessUnlessSplit
  <2> SUFFICES ASSUME IndInv, NEW c \in Consoles, NEW n \in 1 .. MaxUploads, <<"success", c, n>> \in past
               PROVE  <<"installed", c, n>> \in past \/ Long
    BY DEF SuccessUnlessSplit, Long
  <2>1. n \in Nat
    BY ControlAssumption
  <2> QED
    BY <2>1 DEF IndInv, InstalledInv
<1> QED
  BY <1>1, ControlInvariance, PTL

\* The filter is off only when a user chose off or uploaded before the status came.
THEOREM OffExplained == Spec => []FilterOffExplained
<1>1. IndInv => FilterOffExplained
  BY DEF IndInv, OffInv, FilterOffExplained, Explained
<1> QED
  BY <1>1, ControlInvariance, PTL

\* An upload from a page that is up to date keeps every rule its user left alone, for any rules,
\* packets and times.
THEOREM UntouchedKept == Spec => UntouchedRulesStay
<1> DEFINE A == LET r == proxy.req IN
                (version' # version /\ r.synced /\ r.base = version) =>
                   \A i \in DOMAIN policy \ r.touched : \E j \in DOMAIN policy' :
                      policy'[j].type = KeptType(policy[i]) /\ Covers(policy'[j], policy[i])
<1>1. ASSUME IndInv, Kinds PROVE A
  <2> SUFFICES ASSUME version' # version, proxy.req.synced, proxy.req.base = version,
                      NEW i \in DOMAIN policy, i \notin proxy.req.touched
               PROVE  \E j \in DOMAIN policy' :
                         policy'[j].type = KeptType(policy[i]) /\ Covers(policy'[j], policy[i])
    OBVIOUS
  <2>1. Installing
    BY <1>1 DEF Kinds, vars, server, Answering, Perishing, Forwarding, Refusing, Finishing, Delivering,
                Loading, Editing, Uploading, OtherClient
  <2>2. HasElements(proxy.req)
    BY <1>1 DEF IndInv, KeepInv, UnderWay
  <2>3. PICK k \in DOMAIN proxy.req.data :
            proxy.req.data[k] = transformer(toJson(policy[i]), KeptType(policy[i]))
    BY <2>2 DEF HasElements
  <2>4. k \in DOMAIN policy' /\ policy'[k] = ParseFromJson(proxy.req.data[k])
    BY <2>1 DEF Installing
  <2>5. policy[i] \in Rule
    BY <1>1 DEF IndInv, Shapes
  <2> QED
    BY <2>3, <2>4, <2>5, KeptRule
<1>2. IndInv /\ [Next]_vars => [A]_vars
  BY <1>1, Steps DEF IndInv
<1> QED
  BY <1>2, ControlInvariance, PTL DEF Spec, UntouchedRulesStay

-----------------------------------------------------------------------------

\* A page that got its lists shows no sample, unless somebody uploaded without them.
LEMMA SampleStep ==
    ASSUME NoSamplesGiven, IndInv, SampleInv, Kinds
    PROVE  SampleInv'
<1> USE DEF IndInv
<1>0. /\ Early \/ \A i \in DOMAIN policy : Looks(policy[i]) # SampleLooks
      /\ \A r \in UnderWay : IsUpdate(r) => (Early \/ AllForeign(r.data))
      /\ \A c \in Consoles : con[c].synced => (Early \/ ForeignRows(con[c]))
      /\ \A d \in Answers : d.kind = "list" => (Early \/ AllForeign(d.list))
      /\ con \in [Consoles -> Page] /\ con' \in [Consoles -> Page]
  BY PagesStep DEF SampleInv, Shapes
<1>1. Early => Early'
  BY PastGrows DEF Early
<1>2. CASE Early'
  BY <1>2 DEF SampleInv
<1>3. CASE ~Early'
  <2>1. \A i \in DOMAIN policy : Looks(policy[i]) # SampleLooks
    BY <1>0, <1>1, <1>3
  <2>2. ASSUME NEW r \in UnderWay', IsUpdate(r) PROVE AllForeign(r.data)
    <3>1. NewRequest(r)
      BY NewRequests
    <3>2. ASSUME NEW c \in Consoles, UploadOf(c, r) PROVE AllForeign(r.data)
      <4>1. con[c].synced
        BY <1>3, <3>2 DEF UploadOf, Early
      <4>2. ForeignRows(con[c])
        BY <1>0, <1>1, <1>3, <4>1
      <4>3. ASSUME NEW j \in DOMAIN r.data PROVE Foreign(r.data[j])
        <5>1. PICK l \in Lists : \E k \in DOMAIN con[c].list[l] :
                  r.data[j] = transformer(con[c].list[l][k].v, TypeOf(l))
          BY <3>2 DEF UploadOf
        <5>2. PICK k \in DOMAIN con[c].list[l] : r.data[j] = transformer(con[c].list[l][k].v, TypeOf(l))
          BY <5>1
        <5>3. con[c].list \in [Lists -> Seq(Row)]
          BY <1>0 DEF Page
        <5>4. con[c].list[l] \in Seq(Row)
          BY <5>3
        <5>5. con[c].list[l][k] \in Row
          BY <5>4
        <5>6. con[c].list[l][k].v \in RuleValue
          BY <5>5 DEF Row
        <5>7. TypeOf(l) \in Nat
          BY DEF TypeOf, TYPE_BLACK_LIST, TYPE_WHITE_LIST
        <5>8. Foreign(con[c].list[l][k].v)
          BY <4>2 DEF ForeignRows
        <5> QED
          BY <5>2, <5>6, <5>7, <5>8, ForeignTransformer
      <4> QED
        BY <4>3 DEF AllForeign
    <3> QED
      BY <1>0, <1>1, <1>3, <2>2, <3>1, <3>2 DEF NewRequest
  <2>3. ASSUME NEW d \in Answers', d.kind = "list" PROVE AllForeign(d.list)
    <3>1. NewDoc(d)
      BY NewAnswers
    <3>2. ASSUME IsPolicy(d.list), NEW i \in DOMAIN d.list PROVE Foreign(d.list[i])
      <4>1. i \in DOMAIN policy /\ d.list[i] = toJson(policy[i])
        BY <3>2 DEF IsPolicy
      <4>2. policy[i] \in Rule
        BY <4>1 DEF Shapes
      <4> QED
        BY <2>1, <4>1, <4>2, ForeignJson
    <3> QED
      BY <1>0, <1>1, <1>3, <2>3, <3>1, <3>2 DEF NewDoc, Current, AllForeign
  <2>4. ASSUME NEW i \in DOMAIN policy' PROVE Looks(policy'[i]) # SampleLooks
    <3>1. CASE Installing
      <4>1. IsUpdate(proxy.req) /\ policy' = [k \in DOMAIN proxy.req.data |-> ParseFromJson(proxy.req.data[k])]
        BY <3>1 DEF Installing
      <4>2. AllForeign(proxy.req.data)
        BY <1>0, <1>1, <1>3, <4>1 DEF UnderWay
      <4> QED
        BY <4>1, <4>2 DEF AllForeign, Foreign
    <3>2. CASE ~Installing
      <4>1. policy' = policy
        BY <3>2 DEF Kinds, vars, server, Answering, Perishing, Forwarding, Refusing, Finishing, Delivering,
                    Loading, Editing, Uploading, OtherClient
      <4> QED
        BY <2>1, <4>1
    <3> QED
      BY <3>1, <3>2
  <2>5. ASSUME NEW c \in Consoles, con'[c].synced PROVE ForeignRows(con'[c])
    <3>1. CASE con'[c] = con[c]
      BY <1>0, <1>1, <1>3, <2>5, <3>1
    <3>2. ASSUME NEW x \in Consoles, Loading(x) PROVE con'[c] = con[c]
      <4>1. con[x].visit + 1 \in Nat /\ con[x].token \in Tokens \cup {NoToken}
        BY <1>0 DEF Page
      <4>2. ~FreshPage("up", con[x].visit + 1, con[x].token).synced
        BY <4>1, FreshPageFacts
      <4>3. con' = [con EXCEPT ![x] = FreshPage("up", con[x].visit + 1, con[x].token)]
        BY <3>2 DEF Loading
      <4> QED
        BY <1>0, <2>5, <4>2, <4>3
    <3>3. ASSUME NEW x \in Consoles, NEW q \in Page, Editing(x, q) PROVE ForeignRows(con'[c])
      <4>1. /\ con' = [con EXCEPT ![x] = q] /\ q.synced = con[x].synced
            /\ ForeignRows(con[x]) => ForeignRows(q)
        BY <3>3 DEF Editing
      <4>2. CASE x = c
        <5>1. con'[c] = q
          BY <1>0, <4>1, <4>2
        <5> QED
          BY <1>0, <1>1, <1>3, <2>5, <4>1, <4>2, <5>1
      <4>3. CASE x # c
        BY <1>0, <3>1, <4>1, <4>3
      <4> QED
        BY <4>2, <4>3
    <3>4. ASSUME NEW b \in back, NEW d \in ToSet(b.docs), d.kind = "list", syncRuleList(b.req.from, d)
          PROVE  ForeignRows(con'[c])
      <4>1. CASE c = b.req.from
        <5> DEFINE L == [l \in Lists |-> Rows(d, l)]
        <5>1. con'[c].list = L
          <6>1. con' = [con EXCEPT ![c] = [con[c] EXCEPT !.list = L, !.synced = TRUE,
                                                       !.base = d.ver, !.touched = {}]]
            BY <3>4, <4>1 DEF syncRuleList
          <6> HIDE DEF L
          <6> QED
            BY <1>0, <6>1 DEF Page
        <5>2. d \in Answers /\ d \in Doc
          BY DEF Answers, Shapes, ToSet
        <5>3. AllForeign(d.list) /\ d.list \in Seq(RuleValue)
          BY <1>0, <1>1, <1>3, <3>4, <5>2, DocTypes
        <5>4. ASSUME NEW l \in Lists, NEW k \in DOMAIN L[l] PROVE Foreign(L[l][k].v)
          <6>1. L[l] = Rows(d, l)
            OBVIOUS
          <6> HIDE DEF L
          <6>2. PICK i \in DOMAIN d.list : Rows(d, l)[k] = Item(d.list[i], "on", i)
            BY <5>3, <6>1, RowsFacts
          <6>3. L[l][k].v = d.list[i]
            BY <6>1, <6>2 DEF Item
          <6> QED
            BY <5>3, <6>3 DEF AllForeign
        <5> HIDE DEF L
        <5> QED
          BY <5>1, <5>4 DEF ForeignRows
      <4>2. CASE c # b.req.from
        <5>1. con'[c] = con[c]
          BY <1>0, <3>4, <4>2 DEF syncRuleList
        <5> QED
          BY <3>1, <5>1
      <4> QED
        BY <4>1, <4>2
    <3>5. ASSUME NEW b \in back, syncStatus(b.req.from, b.docs) PROVE ForeignRows(con'[c])
      <4> DEFINE on == IsDoc(b.docs, "status")
                 s == IF on /\ Head(b.docs).enabled THEN 1 ELSE 0
      <4>1. con' = [con EXCEPT ![b.req.from].run_state = s, ![b.req.from].known = on]
        BY <3>5 DEF syncStatus
      <4> HIDE DEF s, on
      <4>2. con'[c].synced = con[c].synced /\ con'[c].list = con[c].list
        <5>1. CASE c = b.req.from
          BY <1>0, <4>1, <5>1 DEF Page
        <5>2. CASE c # b.req.from
          BY <1>0, <4>1, <5>2
        <5> QED
          BY <5>1, <5>2
      <4> QED
        BY <1>0, <1>1, <1>3, <2>5, <4>2 DEF ForeignRows
    <3>6. ASSUME NEW b \in back, Delivering(b) PROVE ForeignRows(con'[c])
      BY <3>1, <3>4, <3>5, <3>6 DEF Delivering
    <3>7. ASSUME \/ UNCHANGED vars \/ (\E d \in Doc : Answering(d)) \/ Installing \/ Perishing
                 \/ (\E r \in wire : Forwarding(r) \/ Refusing(r))
                 \/ (\E docs \in Seq(Doc) : Finishing(docs)) \/ OtherClient
                 \/ (\E x \in Consoles : Uploading(x))
          PROVE  con'[c] = con[c]
      BY <3>7 DEF vars, Answering, Installing, Perishing, Forwarding, Refusing, Finishing, OtherClient,
                  Uploading, uploadRuleList
    <3> QED
      BY <3>1, <3>2, <3>3, <3>6, <3>7 DEF Kinds
  <2> QED
    BY <2>2, <2>3, <2>4, <2>5 DEF SampleInv, IsUpdate
<1> QED
  BY <1>2, <1>3

\* If neither a file nor a user gives a rule with the addresses and ports of the samples, no sample
\* becomes a rule unless a page uploads before its lists have come.
THEOREM SamplesNeedEarlyUpload ==
    ASSUME NoSamplesGiven
    PROVE  Spec => []NoSampleRules
<1>1. Init => SampleInv
  <2> SUFFICES ASSUME Init PROVE SampleInv
    OBVIOUS
  <2>1. policy \in Files /\ wire = {} /\ back = {} /\ conn = NoConn /\ proxy = Idle
    BY DEF Init
  <2>2. UnderWay = {NoRequest} /\ Answers = {}
    BY <2>1, FewDocs DEF UnderWay, Answers, NoConn, Idle
  <2>3. \A c \in Consoles : ~con[c].synced
    BY DEF Init, FreshPage
  <2>4. ~IsUpdate(NoRequest)
    BY NoRequestFacts DEF IsUpdate
  <2> QED
    BY <2>1, <2>2, <2>3, <2>4 DEF SampleInv, NoSamplesGiven
<1>2. IndInv /\ SampleInv /\ [Next]_vars => SampleInv'
  BY Steps, SampleStep DEF IndInv
<1>3. SampleInv => NoSampleRules
  <2> SUFFICES ASSUME SampleInv, NEW i \in DOMAIN policy,
                      NEW type \in {TYPE_BLACK_LIST, TYPE_WHITE_LIST}, policy[i] = SampleRule(type)
               PROVE  Early
    BY DEF NoSampleRules, Early
  <2>1. type \in Nat
    BY DEF TYPE_BLACK_LIST, TYPE_WHITE_LIST
  <2>2. Looks(policy[i]) = SampleLooks
    BY <2>1, SampleTypes
  <2> QED
    BY <2>2 DEF SampleInv
<1> QED
  BY <1>1, <1>2, <1>3, ControlInvariance, PTL DEF Spec
=============================================================================
