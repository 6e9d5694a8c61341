--------------------------- MODULE TopologyProofs ---------------------------
(***************************************************************************)
(* What Topology promises on every set of nodes and every list of lines.   *)
(***************************************************************************)
EXTENDS Topology, FiniteSetTheorems, SequenceTheorems, WellFoundedInduction, TLAPS

Link == [neighbor : Nodes, cost : Costs]

\* links has a link to n with the cost c.
Leads(links, n, c) == \E k \in DOMAIN links : links[k].neighbor = n /\ links[k].cost = c

Single(links) == \A i, j \in DOMAIN links : links[i].neighbor = links[j].neighbor => i = j

\* The links are those of the lines, in both directions.
LinksInv ==
    /\ linkMap \in [Nodes -> Seq(Link)]
    /\ \A m \in Nodes : Single(linkMap[m])
    /\ \A m, n \in Nodes, c \in Costs :
          Leads(linkMap[m], n, c) <=> m # n /\ {m, n} \in DOMAIN lines /\ lines[{m, n}] = c
    /\ \A x \in DOMAIN lines : lines[x] \in Costs
    /\ \A m \in Nodes : ~Joined(Edges, m, m)

---------------------------------------------------------------------------
(* Adding and erasing links.                                               *)

LEMMA LeastNat == ASSUME NEW T \in SUBSET Nat, T # {} PROVE \E n \in T : \A m \in T : n =< m
  <1>1. IsWellFoundedOn(OpToRel(<, Nat), Nat)
    BY ONLY NatLessThanWellFounded, Zenon
  <1>2. PICK n \in T : \A m \in T : ~ (<<m, n>> \in OpToRel(<, Nat))
    BY <1>1, WFMin
  <1>3. \A m \in T : ~ (m < n)
    BY <1>2 DEF OpToRel
  <1> QED BY <1>3

LEMMA RemoveOne ==
    ASSUME NEW links \in Seq(Link), NEW k \in 1..Len(links)
    PROVE  /\ RemoveAt(links, k) \in Seq(Link) /\ Len(RemoveAt(links, k)) = Len(links) - 1
           /\ \A i \in 1..Len(links) - 1 :
                 RemoveAt(links, k)[i] = IF i < k THEN links[i] ELSE links[i + 1]
  <1> DEFINE front == SubSeq(links, 1, k - 1)
             back == SubSeq(links, k + 1, Len(links))
  <1>1. /\ front \in Seq(Link) /\ Len(front) = k - 1
        /\ \A i \in 1..k-1 : front[i] = links[i]
    OBVIOUS
  <1>2. /\ back \in Seq(Link) /\ Len(back) = Len(links) - k
        /\ \A i \in 1..Len(links)-k : back[i] = links[k + i]
    OBVIOUS
  <1> HIDE DEF front, back
  <1>3. /\ front \o back \in Seq(Link) /\ Len(front \o back) = Len(links) - 1
        /\ \A i \in 1..Len(links)-1 : (front \o back)[i] = IF i < k THEN links[i] ELSE links[i + 1]
    <2>1. front \o back \in Seq(Link) /\ Len(front \o back) = Len(links) - 1
      <3>1. front \in Seq(Link) /\ back \in Seq(Link) /\ Len(front) + Len(back) = Len(links) - 1
        BY <1>1, <1>2
      <3> QED BY <3>1, ConcatProperties
    <2>2. ASSUME NEW i \in 1..Len(links)-1
          PROVE  (front \o back)[i] = IF i < k THEN links[i] ELSE links[i + 1]
      <3>1. CASE i < k
        BY <1>1, <1>2, <3>1
      <3>2. CASE ~(i < k)
        <4>1. i - (k - 1) \in 1..Len(links)-k /\ k + (i - (k - 1)) = i + 1
          BY <3>2
        <4>2. (front \o back)[i] = back[i - (k - 1)]
          BY <1>1, <1>2, <3>2
        <4>3. back[i - (k - 1)] = links[k + (i - (k - 1))]
          BY <1>2, <4>1
        <4> QED BY <3>2, <4>1, <4>2, <4>3
      <3> QED BY <3>1, <3>2
    <2> QED BY <2>1, <2>2
  <1> QED BY <1>3 DEF RemoveAt, front, back

LEMMA WithoutIsRemoved ==
    ASSUME NEW links \in Seq(Link), Single(links), NEW d \in Nodes
    PROVE  \/ Without(links, d) = links /\ \A i \in 1..Len(links) : links[i].neighbor # d
           \/ \E k \in 1..Len(links) : /\ links[k].neighbor = d
                                        /\ Without(links, d) = RemoveAt(links, k)
  <1> DEFINE I == {i \in 1..Len(links) : links[i].neighbor = d}
  <1>1. CASE I = {}
    <2>1. Without(links, d) = links
      BY <1>1 DEF Without, RemoveFirstMatch
    <2> QED BY <1>1, <2>1
  <1>2. CASE I # {}
    <2>1. PICK k \in 1..Len(links) : links[k].neighbor = d
      BY <1>2
    <2>2. I = {k}
      BY <2>1 DEF Single
    <2>3. Min(I) = k
      BY <2>2 DEF Min
    <2>4. Without(links, d) = RemoveAt(links, k)
      BY <1>2, <2>3 DEF Without, RemoveFirstMatch, SelectInSeq
    <2> QED BY <2>1, <2>4
  <1> QED BY <1>1, <1>2

LEMMA Erased ==
    ASSUME NEW links \in Seq(Link), Single(links), NEW d \in Nodes, NEW r, r = Without(links, d)
    PROVE  /\ r \in Seq(Link) /\ Single(r)
           /\ \A n, c : Leads(r, n, c) <=> n # d /\ Leads(links, n, c)
  <1>1. CASE r = links /\ \A i \in 1..Len(links) : links[i].neighbor # d
    BY <1>1 DEF Leads
  <1>2. ASSUME NEW k \in 1..Len(links), links[k].neighbor = d, r = RemoveAt(links, k)
        PROVE  /\ r \in Seq(Link) /\ Single(r)
               /\ \A n, c : Leads(r, n, c) <=> n # d /\ Leads(links, n, c)
    <2>1. links[k].neighbor = d
      BY <1>2
    <2>5. /\ r \in Seq(Link) /\ Len(r) = Len(links) - 1
          /\ \A i \in 1..Len(r) : r[i] = IF i < k THEN links[i] ELSE links[i + 1]
      BY <1>2, RemoveOne
    <2>6. Single(r)
      <3>1. SUFFICES ASSUME NEW i \in 1..Len(r), NEW j \in 1..Len(r), r[i].neighbor = r[j].neighbor
                     PROVE  i = j
        BY <2>5 DEF Single
      <3>2. PICK a \in 1..Len(links) : r[i] = links[a] /\ a = IF i < k THEN i ELSE i + 1
        BY <2>5
      <3>3. PICK b \in 1..Len(links) : r[j] = links[b] /\ b = IF j < k THEN j ELSE j + 1
        BY <2>5
      <3>4. a = b
        BY <3>1, <3>2, <3>3 DEF Single
      <3> QED BY <2>5, <3>2, <3>3, <3>4
    <2>7. ASSUME NEW n, NEW c
          PROVE  Leads(r, n, c) <=> n # d /\ Leads(links, n, c)
      <3>1. ASSUME Leads(r, n, c) PROVE n # d /\ Leads(links, n, c)
        <4>1. PICK i \in 1..Len(r) : r[i].neighbor = n /\ r[i].cost = c
          BY <2>5, <3>1 DEF Leads
        <4>2. PICK j \in 1..Len(links) : j # k /\ links[j] = r[i]
          BY <2>5, <4>1
        <4> QED BY <2>1, <4>1, <4>2 DEF Leads, Single
      <3>2. ASSUME n # d, Leads(links, n, c) PROVE Leads(r, n, c)
        <4>1. PICK j \in 1..Len(links) : links[j].neighbor = n /\ links[j].cost = c
          BY <3>2 DEF Leads
        <4>2. j # k
          BY <2>1, <3>2, <4>1
        <4>3. PICK i \in 1..Len(r) : r[i] = links[j]
          <5>1. CASE j < k
            BY <2>5, <5>1
          <5>2. CASE j > k
            <6>1. j - 1 \in 1..Len(r) /\ r[j - 1] = links[j]
              BY <2>5, <5>2
            <6> QED BY <6>1
          <5> QED BY <4>2, <5>1, <5>2
        <4> QED BY <2>5, <4>1, <4>3 DEF Leads
      <3> QED BY <3>1, <3>2
    <2> QED BY <2>5, <2>6, <2>7
  <1> QED BY <1>1, <1>2, WithoutIsRemoved

LEMMA Appended ==
    ASSUME NEW links \in Seq(Link), Single(links), NEW d \in Nodes, NEW cost \in Costs,
           \A c \in Costs : ~Leads(links, d, c)
    PROVE  LET r == Append(links, [neighbor |-> d, cost |-> cost])
           IN  /\ r \in Seq(Link) /\ Single(r)
               /\ \A n, c : Leads(r, n, c) <=> Leads(links, n, c) \/ (n = d /\ c = cost)
  <1> DEFINE r == Append(links, [neighbor |-> d, cost |-> cost])
  <1>1. /\ r \in Seq(Link) /\ Len(r) = Len(links) + 1
        /\ \A i \in 1..Len(links) : r[i] = links[i]
        /\ r[Len(r)].neighbor = d /\ r[Len(r)].cost = cost
    BY DEF Link
  <1> HIDE DEF r
  <1>2. ASSUME NEW i \in 1..Len(links) PROVE links[i].neighbor # d
    <2>1. links[i].cost \in Costs
      <3>1. links[i] \in Link
        OBVIOUS
      <3> QED BY <3>1 DEF Link
    <2>2. ~Leads(links, d, links[i].cost)
      BY <2>1
    <2> QED BY <2>2 DEF Leads
  <1>3. Single(r)
    BY <1>1, <1>2 DEF Single
  <1>4. ASSUME NEW n, NEW c
        PROVE  Leads(r, n, c) <=> Leads(links, n, c) \/ (n = d /\ c = cost)
    <2>1. Leads(r, n, c) => Leads(links, n, c) \/ (n = d /\ c = cost)
      BY <1>1 DEF Leads
    <2>2. ASSUME Leads(links, n, c) PROVE Leads(r, n, c)
      <3>1. PICK i \in 1..Len(links) : links[i].neighbor = n /\ links[i].cost = c
        BY <2>2 DEF Leads
      <3>2. i \in DOMAIN r /\ r[i] = links[i]
        BY <1>1
      <3> QED BY <3>1, <3>2 DEF Leads
    <2>3. Leads(r, d, cost)
      <3>1. Len(r) \in DOMAIN r
        BY <1>1
      <3> QED BY <1>1, <3>1 DEF Leads
    <2> QED BY <2>1, <2>2, <2>3
  <1> QED BY <1>1, <1>3, <1>4 DEF r

---------------------------------------------------------------------------
(* The link map.                                                           *)

LEMMA LinksInit == Init => LinksInv
  <1> SUFFICES ASSUME Init PROVE LinksInv
    OBVIOUS
  <1>1. /\ linkMap = [n \in Nodes |-> <<>>] /\ lines = <<>>
    BY DEF Init
  <1>2. DOMAIN lines = {} /\ \A n \in Nodes : linkMap[n] = <<>> /\ linkMap[n] \in Seq(Link) /\ DOMAIN linkMap[n] = {}
    BY <1>1
  <1>3. linkMap \in [Nodes -> Seq(Link)]
    BY <1>1, <1>2
  <1> QED BY <1>2, <1>3 DEF LinksInv, Leads, Single, Joined, Edges

\* What the line <<s, d, cost>> makes of the links of n: those of m[n].
AsTheLine(m, n, s, d, cost) ==
    /\ m[n] \in Seq(Link) /\ Single(m[n])
    /\ \A o \in Nodes, c \in Costs :
          Leads(m[n], o, c) <=> IF {n, o} = {s, d} THEN n # o /\ c = cost
                                ELSE Leads(linkMap[n], o, c)

LEMMA LinkAdded ==
    ASSUME LinksInv, NEW p \in Pairs, NEW cost \in Costs, NEW n \in Nodes
    PROVE  AsTheLine(add_link(p[1], p[2], cost), n, p[1], p[2], cost)
  <1> DEFINE s == p[1]
             d == p[2]
             rest == erase_link(erase_link(linkMap, s, d), d, s)
             m == add_link(s, d, cost)
  <1>1. s \in Nodes /\ d \in Nodes /\ s # d
    BY DEF Pairs
  <1>2. /\ linkMap \in [Nodes -> Seq(Link)] /\ \A x \in Nodes : Single(linkMap[x])
        /\ \A x \in Nodes, c \in Costs : ~Leads(linkMap[x], x, c)
    BY DEF LinksInv
  <1>3. /\ rest[s] = Without(linkMap[s], d) /\ rest[d] = Without(linkMap[d], s)
        /\ \A x \in Nodes \ {s, d} : rest[x] = linkMap[x]
    BY <1>1, <1>2 DEF erase_link
  <1>4. m[n] = IF n = s THEN Append(rest[n], [neighbor |-> d, cost |-> cost])
               ELSE IF n = d THEN Append(rest[n], [neighbor |-> s, cost |-> cost])
               ELSE rest[n]
    BY <1>1 DEF add_link
  <1> HIDE DEF rest, m
  \* One end of the line, o the other.
  <1>5. ASSUME NEW e \in Nodes, NEW f \in Nodes, {e, f} = {s, d}, e # f, n = e,
               rest[e] = Without(linkMap[e], f),
               m[e] = Append(rest[e], [neighbor |-> f, cost |-> cost])
        PROVE  AsTheLine(m, n, s, d, cost)
    <2>1. /\ rest[e] \in Seq(Link) /\ Single(rest[e])
          /\ \A o, c : Leads(rest[e], o, c) <=> o # f /\ Leads(linkMap[e], o, c)
      BY <1>2, <1>5, Erased
    <2>2. /\ m[e] \in Seq(Link) /\ Single(m[e])
          /\ \A o, c : Leads(m[e], o, c) <=> Leads(rest[e], o, c) \/ (o = f /\ c = cost)
      <3>1. \A c \in Costs : ~Leads(rest[e], f, c)
        BY <2>1
      <3>2. PICK l \in Seq(Link) : l = rest[e] /\ Single(l) /\ \A c \in Costs : ~Leads(l, f, c)
        BY <2>1, <3>1
      <3> DEFINE a == Append(l, [neighbor |-> f, cost |-> cost])
      <3>3. /\ a \in Seq(Link) /\ Single(a)
            /\ \A o, c : Leads(a, o, c) <=> Leads(l, o, c) \/ (o = f /\ c = cost)
        BY <3>2, Appended
      <3>4. m[e] = a
        BY <1>5, <3>2
      <3> HIDE DEF a
      <3> QED BY <3>2, <3>3, <3>4
    <2>3. \A o \in Nodes : {n, o} = {s, d} <=> o = f
      <3> SUFFICES ASSUME NEW o \in Nodes PROVE {n, o} = {s, d} <=> o = f
        OBVIOUS
      <3>1. {e, o} = {e, f} <=> o = f
        <4>1. CASE o = f
          BY <4>1
        <4>2. CASE o # f
          <5>1. f \in {e, f} /\ f \notin {e, o}
            BY <1>5, <4>2
          <5> QED BY <4>2, <5>1
        <4> QED BY <4>1, <4>2
      <3>2. {e, o} = {n, o} /\ {e, f} = {s, d}
        BY <1>5
      <3> QED BY <3>1, <3>2
    <2>4. m[n] \in Seq(Link) /\ Single(m[n])
      BY <1>5, <2>2
    <2>5. ASSUME NEW o \in Nodes, NEW c \in Costs
          PROVE  Leads(m[n], o, c) <=> IF {n, o} = {s, d} THEN n # o /\ c = cost
                                       ELSE Leads(linkMap[n], o, c)
      <3>1. Leads(m[e], o, c) <=> Leads(rest[e], o, c) \/ (o = f /\ c = cost)
        BY <2>2
      <3>2. Leads(rest[e], o, c) <=> o # f /\ Leads(linkMap[e], o, c)
        BY <2>1
      <3>3. {n, o} = {s, d} <=> o = f
        BY <2>3
      <3>4. CASE o = f
        BY <1>5, <3>1, <3>2, <3>3, <3>4
      <3>5. CASE o # f
        BY <1>5, <3>1, <3>2, <3>3, <3>5
      <3> QED BY <3>4, <3>5
    <2> QED BY <2>4, <2>5 DEF AsTheLine
  <1>6. ASSUME n \in {s, d} PROVE AsTheLine(m, n, s, d, cost)
    BY <1>1, <1>3, <1>4, <1>5, <1>6
  <1>7. ASSUME n \notin {s, d} PROVE AsTheLine(m, n, s, d, cost)
    BY <1>2, <1>3, <1>4, <1>7 DEF AsTheLine
  <1> QED BY <1>6, <1>7 DEF m

LEMMA LinksStep == LinksInv /\ [Next]_vars => LinksInv'
  <1> SUFFICES ASSUME LinksInv, [Next]_vars PROVE LinksInv'
    OBVIOUS
  <1>1. CASE AddLink
    <2>1. PICK p \in Pairs, cost \in Costs :
              /\ linkMap' = add_link(p[1], p[2], cost)
              /\ lines' = [x \in DOMAIN lines \cup {{p[1], p[2]}} |->
                              IF x = {p[1], p[2]} THEN cost ELSE lines[x]]
      BY <1>1 DEF AddLink
    <2>2. /\ DOMAIN lines' = DOMAIN lines \cup {{p[1], p[2]}}
          /\ \A x \in DOMAIN lines' : lines'[x] = IF x = {p[1], p[2]} THEN cost ELSE lines[x]
      BY <2>1
    <2>3. \A n \in Nodes : AsTheLine(add_link(p[1], p[2], cost), n, p[1], p[2], cost)
      BY LinkAdded
    <2>0. \A n \in Nodes : AsTheLine(linkMap', n, p[1], p[2], cost)
      BY <2>1, <2>3
    <2>4. linkMap' \in [Nodes -> Seq(Link)]
      <3>1. DOMAIN linkMap' = Nodes /\ linkMap' = [n \in Nodes |-> linkMap'[n]]
        BY <2>1 DEF add_link
      <3> QED BY <2>0, <3>1 DEF AsTheLine
    <2>5. ASSUME NEW m \in Nodes, NEW n \in Nodes, NEW c \in Costs
          PROVE  Leads(linkMap'[m], n, c) <=> m # n /\ {m, n} \in DOMAIN lines' /\ lines'[{m, n}] = c
      <3>1. CASE {m, n} = {p[1], p[2]}
        BY <2>0, <2>2, <3>1 DEF AsTheLine
      <3>2. CASE {m, n} # {p[1], p[2]}
        <4>1. Leads(linkMap'[m], n, c) <=> Leads(linkMap[m], n, c)
          BY <2>0, <3>2 DEF AsTheLine
        <4>2. Leads(linkMap[m], n, c) <=> m # n /\ {m, n} \in DOMAIN lines /\ lines[{m, n}] = c
          BY DEF LinksInv
        <4> QED BY <2>2, <3>2, <4>1, <4>2
      <3> QED BY <3>1, <3>2
    <2>6. \A x \in DOMAIN lines' : lines'[x] \in Costs
      BY <2>2 DEF LinksInv
    <2>7. ASSUME NEW m \in Nodes PROVE ~(Joined(Edges, m, m))'
      <3>1. {m, m} # {p[1], p[2]}
        BY DEF Pairs
      <3> QED BY <2>2, <3>1 DEF LinksInv, Joined, Edges
    <2> QED BY <2>0, <2>4, <2>5, <2>6, <2>7 DEF LinksInv, AsTheLine
  <1>2. CASE UNCHANGED <<linkMap, lines>>
    BY <1>2 DEF LinksInv, Joined, Edges
  <1> QED BY <1>1, <1>2 DEF Next, Run, Ask, Return, Visit, FallThrough, vars

\* In terms of the links found.
LEMMA FoundLinks ==
    ASSUME LinksInv, NEW m \in Nodes, NEW n \in Nodes
    PROVE  /\ Found(m, n) # {} <=> m # n /\ Joined(Edges, m, n)
           /\ m # n /\ Joined(Edges, m, n) => \E k \in DOMAIN linkMap[m] : Found(m, n) = {k}
           /\ \A c \in Costs, k \in Found(m, n) :
                 linkMap[m][k].cost = c <=> Leads(linkMap[m], n, c)
  <1>1. linkMap[m] \in Seq(Link) /\ Single(linkMap[m])
    BY DEF LinksInv
  <1>2. \A c \in Costs : Leads(linkMap[m], n, c) <=> m # n /\ Joined(Edges, m, n) /\ lines[{m, n}] = c
    BY DEF LinksInv, Joined, Edges
  <1>3. ASSUME NEW k \in Found(m, n) PROVE m # n /\ Joined(Edges, m, n)
    <2>1. k \in DOMAIN linkMap[m] /\ linkMap[m][k].neighbor = n /\ linkMap[m][k] \in Link
      BY <1>1 DEF Found
    <2>2. Leads(linkMap[m], n, linkMap[m][k].cost) /\ linkMap[m][k].cost \in Costs
      BY <2>1 DEF Leads, Link
    <2> QED BY <1>2, <2>2
  <1>4. ASSUME m # n, Joined(Edges, m, n)
        PROVE  \E k \in DOMAIN linkMap[m] : Found(m, n) = {k}
    <2>1. lines[{m, n}] \in Costs
      BY <1>4 DEF LinksInv, Joined, Edges
    <2>2. PICK k \in DOMAIN linkMap[m] : linkMap[m][k].neighbor = n
      BY <1>2, <1>4, <2>1 DEF Leads
    <2>3. Found(m, n) = {k}
      BY <1>1, <2>2 DEF Found, Single
    <2> QED BY <2>2, <2>3
  <1>5. \A c \in Costs, k \in Found(m, n) : linkMap[m][k].cost = c <=> Leads(linkMap[m], n, c)
    BY <1>1 DEF Found, Leads, Single
  <1> QED BY <1>3, <1>4, <1>5

\* Two nodes that the file joins have one link each way, with the cost last
\* given, however the lines repeat or reverse a pair.
THEOREM LastLineStands == Spec => []LastLineIsUsed
  <1>1. LinksInv => LastLineIsUsed
    <2> SUFFICES ASSUME LinksInv, NEW p \in Pairs
                 PROVE  IF {p[1], p[2]} \in DOMAIN lines
                        THEN /\ Cardinality(Found(p[1], p[2])) = 1
                             /\ find_link(p[1], p[2]).cost = lines[{p[1], p[2]}]
                        ELSE Found(p[1], p[2]) = {}
      BY DEF LastLineIsUsed
    <2>1. p[1] \in Nodes /\ p[2] \in Nodes /\ p[1] # p[2]
      BY DEF Pairs
    <2>2. CASE Joined(Edges, p[1], p[2])
      <3>1. PICK k \in DOMAIN linkMap[p[1]] : Found(p[1], p[2]) = {k}
        BY <2>1, <2>2, FoundLinks
      <3> DEFINE c == lines[{p[1], p[2]}]
      <3>0. c \in Costs /\ Leads(linkMap[p[1]], p[2], c)
        BY <2>1, <2>2 DEF LinksInv, Joined, Edges
      <3> HIDE DEF c
      <3>4. linkMap[p[1]][k].cost = c
        BY <2>1, <3>0, <3>1, FoundLinks
      <3>2. Cardinality(Found(p[1], p[2])) = 1
        BY <3>1, FS_Singleton
      <3>3. find_link(p[1], p[2]) = linkMap[p[1]][k]
        BY <3>1 DEF find_link
      <3> QED BY <2>2, <3>2, <3>3, <3>4 DEF Joined, Edges, c
    <2>3. CASE ~Joined(Edges, p[1], p[2])
      BY <2>1, <2>3, FoundLinks DEF Joined, Edges
    <2> QED BY <2>2, <2>3
  <1> QED BY <1>1, LinksInit, LinksStep, PTL DEF Spec

---------------------------------------------------------------------------
(* The search.  While entries of the queue end walks of L links and the    *)
(* rest walks of L + 1, no node that many links away has been lost: it is  *)
(* still in the queue, or its neighbours are.                              *)

LEMMA AwayZero == ASSUME NEW E, NEW d \in Nodes, NEW m \in Away(E, d, 0) PROVE m = d
  <1>1. PICK w \in Walks(E, d, 0) : m = w[0]
    BY DEF Away
  <1> QED BY <1>1 DEF Walks

LEMMA AwayBegins == ASSUME NEW E, NEW d \in Nodes PROVE d \in Away(E, d, 0)
  <1> DEFINE w == [i \in 0..0 |-> d]
  <1>1. w \in [0..0 -> Nodes] /\ w[0] = d
    OBVIOUS
  <1>2. w \in Walks(E, d, 0)
    BY <1>1 DEF Walks
  <1> QED BY <1>1, <1>2 DEF Away

LEMMA AwayNodes == ASSUME NEW E, NEW d, NEW k \in Nat PROVE Away(E, d, k) \subseteq Nodes
  BY DEF Away, Walks

\* A walk grows by a link,
LEMMA AwayOn ==
    ASSUME NEW E, NEW d, NEW k \in Nat, NEW m \in Away(E, d, k), NEW n \in Nodes, Joined(E, m, n)
    PROVE  n \in Away(E, d, k + 1)
  <1>1. PICK w \in Walks(E, d, k) : m = w[k]
    BY DEF Away
  <1>2. w \in [0..k -> Nodes] /\ w[0] = d /\ \A i \in 1..k : Joined(E, w[i-1], w[i])
    BY DEF Walks
  <1> DEFINE v == [i \in 0..k+1 |-> IF i = k + 1 THEN n ELSE w[i]]
  <1>3. v \in [0..k+1 -> Nodes] /\ v[0] = d /\ v[k + 1] = n
    BY <1>2
  <1>4. ASSUME NEW i \in 1..k+1 PROVE Joined(E, v[i-1], v[i])
    <2>1. CASE i = k + 1
      BY <1>1, <2>1
    <2>2. CASE i # k + 1
      BY <1>2, <2>2
    <2> QED BY <2>1, <2>2
  <1> HIDE DEF v
  <1>5. v \in Walks(E, d, k + 1)
    BY <1>3, <1>4 DEF Walks
  <1> QED BY <1>3, <1>5 DEF Away

\* and every longer walk has one.
LEMMA AwayBack ==
    ASSUME NEW E, NEW d, NEW k \in Nat, NEW n \in Away(E, d, k + 1)
    PROVE  \E m \in Away(E, d, k) : Joined(E, m, n)
  <1>1. PICK w \in Walks(E, d, k + 1) : n = w[k + 1]
    BY DEF Away
  <1>2. w \in [0..k+1 -> Nodes] /\ w[0] = d /\ \A i \in 1..k+1 : Joined(E, w[i-1], w[i])
    BY DEF Walks
  <1> DEFINE v == [i \in 0..k |-> w[i]]
  <1>3. v \in [0..k -> Nodes] /\ v[0] = d /\ v[k] = w[k]
    BY <1>2
  <1>4. \A i \in 1..k : Joined(E, v[i-1], v[i])
    BY <1>2
  <1> HIDE DEF v
  <1>5. v[k] \in Away(E, d, k)
    BY <1>3, <1>4 DEF Walks, Away
  <1>6. Joined(E, w[k], w[k + 1])
    BY <1>2
  <1> QED BY <1>1, <1>3, <1>5, <1>6

\* q is the queue, of which the first h entries are L links away from d; the
\* node s asks.
Layered(E, q, s, d, L, h) ==
    /\ L \in Nat /\ h \in 0..Len(q)
    /\ \A i \in 1..h : q[i] \in Away(E, d, L)
    /\ \A i \in h+1..Len(q) : q[i] \in Away(E, d, L + 1)
    /\ \A j \in 0..L : s \notin Away(E, d, j)
    /\ \A m \in Away(E, d, L) :
          \/ \E i \in 1..h : q[i] = m
          \/ /\ ~Joined(E, m, s)
             /\ \A n \in Nodes : Joined(E, m, n) => \E i \in h+1..Len(q) : q[i] = n

SearchInv ==
    phase \in {"search", "found"} =>
        /\ query \in Pairs /\ bfsq \in Seq(Nodes) /\ visited \in Nat
        /\ phase = "search" =>
              \E L \in 0..visited, h \in 0..Len(bfsq) :
                  (bfsq # <<>> => h > 0) /\ Layered(Edges, bfsq, query[1], query[2], L, h)

LEMMA NextLayer ==
    ASSUME NEW E, NEW q, NEW s \in Nodes, NEW d \in Nodes, NEW L, Layered(E, q, s, d, L, 0), Len(q) \in Nat
    PROVE  Layered(E, q, s, d, L + 1, Len(q))
  <1>1. /\ L \in Nat /\ L + 1 \in Nat
        /\ \A i \in 1..Len(q) : q[i] \in Away(E, d, L + 1)
        /\ \A j \in 0..L : s \notin Away(E, d, j)
        /\ \A m \in Away(E, d, L) : /\ ~Joined(E, m, s)
                                 /\ \A n \in Nodes : Joined(E, m, n) => \E i \in 1..Len(q) : q[i] = n
    BY DEF Layered
  <1>2. s \notin Away(E, d, L + 1)
    BY <1>1, AwayBack
  <1>3. \A j \in 0..L+1 : s \notin Away(E, d, j)
    BY <1>1, <1>2
  <1>4. ASSUME NEW n \in Away(E, d, L + 1) PROVE \E i \in 1..Len(q) : q[i] = n
    <2>1. n \in Nodes
      BY <1>1, AwayNodes
    <2>2. \E m \in Away(E, d, L) : Joined(E, m, n)
      BY <1>1, AwayBack
    <2> QED BY <1>1, <2>1, <2>2
  <1> QED BY <1>1, <1>3, <1>4 DEF Layered

\* near lists the nodes that a line joins to c, each once.
Adjoins(c, near) ==
    /\ near \in Seq(Nodes)
    /\ \A k \in 1..Len(near) : Joined(Edges, c, near[k])
    /\ \A n \in Nodes : Joined(Edges, c, n) => \E k \in 1..Len(near) : near[k] = n
    /\ \A i, j \in 1..Len(near) : near[i] = near[j] => i = j

LEMMA NeighborsLemma == ASSUME LinksInv, NEW c \in Nodes PROVE Adjoins(c, Neighbors(c))
  <1> SUFFICES ASSUME NEW near, near = Neighbors(c) PROVE Adjoins(c, near)
    OBVIOUS
  <1> DEFINE links == linkMap[c]
  <1>0. links \in Seq(Link) /\ Single(links)
    BY DEF LinksInv
  <1> HIDE DEF links
  <1>1. \A k \in 1..Len(links) : links[k].neighbor \in Nodes
    <2>1. \A k \in 1..Len(links) : links[k] \in Link
      BY <1>0
    <2> QED BY <2>1 DEF Link
  <1>2. near = [k \in 1..Len(links) |-> links[k].neighbor]
    BY <1>0 DEF Neighbors, links
  <1>3. near \in Seq(Nodes) /\ Len(near) = Len(links) /\ \A k \in 1..Len(links) : near[k] = links[k].neighbor
    BY <1>0, <1>1, <1>2
  <1>4. ASSUME NEW k \in 1..Len(near) PROVE Joined(Edges, c, near[k])
    <2>1. k \in DOMAIN links /\ near[k] \in Nodes /\ links[k].neighbor = near[k]
      BY <1>0, <1>3
    <2>2. k \in Found(c, near[k])
      BY <2>1 DEF Found, links
    <2> QED BY <2>1, <2>2, FoundLinks
  <1>5. ASSUME NEW n \in Nodes, Joined(Edges, c, n) PROVE \E k \in 1..Len(near) : near[k] = n
    <2>1. c # n
      BY <1>5 DEF LinksInv
    <2>2. PICK k \in DOMAIN links : Found(c, n) = {k}
      BY <1>5, <2>1, FoundLinks DEF links
    <2>3. links[k].neighbor = n /\ k \in 1..Len(links)
      BY <1>0, <2>2 DEF Found, links
    <2> QED BY <1>3, <2>3
  <1>6. \A i, j \in 1..Len(near) : near[i] = near[j] => i = j
    BY <1>0, <1>3 DEF Single
  <1> QED BY <1>3, <1>4, <1>5, <1>6 DEF Adjoins

LEMMA HeadVisited ==
    ASSUME LinksInv, NEW q \in Seq(Nodes), q # <<>>, NEW s \in Nodes, NEW d \in Nodes,
           NEW L, NEW h, h > 0, Layered(Edges, q, s, d, L, h), Found(Head(q), s) = {}
    PROVE  /\ Tail(q) \o Neighbors(Head(q)) \in Seq(Nodes)
           /\ Layered(Edges, Tail(q) \o Neighbors(Head(q)), s, d, L, h - 1)
  <1> DEFINE c == Head(q)
             near == Neighbors(c)
             r == Tail(q) \o near
  <1>0. /\ L \in Nat /\ h \in 1..Len(q)
        /\ \A i \in 1..h : q[i] \in Away(Edges, d, L)
        /\ \A i \in h+1..Len(q) : q[i] \in Away(Edges, d, L + 1)
        /\ \A j \in 0..L : s \notin Away(Edges, d, j)
        /\ \A m \in Away(Edges, d, L) :
              \/ \E i \in 1..h : q[i] = m
              \/ /\ ~Joined(Edges, m, s)
                 /\ \A n \in Nodes : Joined(Edges, m, n) => \E i \in h+1..Len(q) : q[i] = n
    BY DEF Layered
  <1>1. c = q[1] /\ c \in Nodes /\ c \in Away(Edges, d, L) /\ c # s /\ Found(c, s) = {}
    BY <1>0
  <1> HIDE DEF c
  <1>n. near = Neighbors(c)
    OBVIOUS
  <1> HIDE DEF near
  <1>2. /\ near \in Seq(Nodes)
        /\ \A k \in 1..Len(near) : Joined(Edges, c, near[k])
        /\ \A n \in Nodes : Joined(Edges, c, n) => \E k \in 1..Len(near) : near[k] = n
    <2>1. Adjoins(c, near)
      BY <1>1, <1>n, NeighborsLemma
    <2> QED BY <2>1 DEF Adjoins
  <1>3. \A n \in Nodes : Joined(Edges, c, n) => \E k \in 1..Len(near) : near[k] = n
    BY <1>2
  <1>4. \A k \in 1..Len(near) : near[k] \in Away(Edges, d, L + 1)
    <2> SUFFICES ASSUME NEW k \in 1..Len(near) PROVE near[k] \in Away(Edges, d, L + 1)
      OBVIOUS
    <2>1. near[k] \in Nodes /\ Joined(Edges, c, near[k])
      BY <1>2
    <2> QED BY <1>0, <1>1, <2>1, AwayOn
  <1>5. ~Joined(Edges, c, s)
    BY <1>1, FoundLinks
  <1>6. /\ r \in Seq(Nodes) /\ Len(r) = Len(q) - 1 + Len(near) /\ Len(near) \in Nat
        /\ \A i \in 1..Len(q)-1 : r[i] = q[i + 1]
        /\ \A k \in 1..Len(near) : r[Len(q) - 1 + k] = near[k]
    <2>1. /\ Tail(q) \in Seq(Nodes) /\ Len(Tail(q)) = Len(q) - 1
          /\ \A i \in 1..Len(q)-1 : Tail(q)[i] = q[i + 1]
      OBVIOUS
    <2>2. /\ r \in Seq(Nodes) /\ Len(r) = Len(Tail(q)) + Len(near)
          /\ \A i \in 1..Len(Tail(q)) + Len(near) :
                r[i] = IF i =< Len(Tail(q)) THEN Tail(q)[i] ELSE near[i - Len(Tail(q))]
      BY <1>2, <2>1, ConcatProperties
    <2> HIDE DEF r
    <2>3. Len(near) \in Nat /\ Len(q) \in Nat /\ Len(q) >= 1
      BY <1>0, <1>2
    <2>4. Len(r) = Len(q) - 1 + Len(near)
      BY <2>1, <2>2
    <2>5. ASSUME NEW i \in 1..Len(q)-1 PROVE r[i] = q[i + 1]
      BY <2>1, <2>2, <2>3
    <2>6. ASSUME NEW k \in 1..Len(near) PROVE r[Len(q) - 1 + k] = near[k]
      <3>1. /\ Len(q) - 1 + k \in 1..Len(Tail(q)) + Len(near)
            /\ ~(Len(q) - 1 + k =< Len(Tail(q)))
            /\ Len(q) - 1 + k - Len(Tail(q)) = k
        BY <2>1, <2>3
      <3> DEFINE x == Len(q) - 1 + k
      <3>2. x \in 1..Len(Tail(q)) + Len(near) /\ ~(x =< Len(Tail(q))) /\ x - Len(Tail(q)) = k
        BY <3>1
      <3> HIDE DEF x
      <3>3. r[x] = near[x - Len(Tail(q))]
        BY <2>2, <3>2
      <3> QED BY <3>2, <3>3 DEF x
    <2> QED BY <2>2, <2>3, <2>4, <2>5, <2>6
  <1> HIDE DEF r
  <1>7. \A i \in 1..h-1 : r[i] \in Away(Edges, d, L)
    BY <1>0, <1>6
  <1>8. ASSUME NEW i \in h..Len(r) PROVE r[i] \in Away(Edges, d, L + 1)
    <2>1. CASE i =< Len(q) - 1
      BY <1>0, <1>6, <2>1
    <2>2. CASE i > Len(q) - 1
      <3>1. i - (Len(q) - 1) \in 1..Len(near) /\ Len(q) - 1 + (i - (Len(q) - 1)) = i
        BY <1>0, <1>6, <2>2
      <3> QED BY <1>4, <1>6, <3>1
    <2> QED BY <1>0, <2>1, <2>2
  <1>9. ASSUME NEW m \in Away(Edges, d, L), ~ \E i \in 1..h-1 : r[i] = m
        PROVE  /\ ~Joined(Edges, m, s)
               /\ \A n \in Nodes : Joined(Edges, m, n) => \E i \in h..Len(r) : r[i] = n
    <2>1. CASE m = c
      <3>1. ASSUME NEW n \in Nodes, Joined(Edges, m, n) PROVE \E i \in h..Len(r) : r[i] = n
        <4>1. PICK k \in 1..Len(near) : near[k] = n
          BY <1>3, <2>1, <3>1
        <4>2. Len(q) - 1 + k \in h..Len(r)
          BY <1>0, <1>6
        <4> QED BY <1>6, <4>1, <4>2
      <3> QED BY <1>5, <2>1, <3>1
    <2>2. CASE m # c
      <3>1. ASSUME NEW i \in 1..h, q[i] = m PROVE FALSE
        <4>0. i # 1
          BY <1>1, <2>2, <3>1
        <4>1. i - 1 \in 1..h-1 /\ i - 1 \in 1..Len(q)-1 /\ (i - 1) + 1 = i
          BY <1>0, <4>0
        <4>2. r[i - 1] = q[i]
          BY <1>6, <4>1
        <4> QED BY <1>9, <3>1, <4>1, <4>2
      <3>2. /\ ~Joined(Edges, m, s)
            /\ \A n \in Nodes : Joined(Edges, m, n) => \E i \in h+1..Len(q) : q[i] = n
        BY <1>0, <3>1
      <3>3. ASSUME NEW n \in Nodes, NEW i \in h+1..Len(q), q[i] = n PROVE \E j \in h..Len(r) : r[j] = n
        <4>1. i - 1 \in h..Len(r) /\ r[i - 1] = q[i]
          BY <1>0, <1>6
        <4> QED BY <3>3, <4>1
      <3> QED BY <3>2, <3>3
    <2> QED BY <2>1, <2>2
  <1>10. h - 1 \in 0..Len(r) /\ (h - 1) + 1 = h
    BY <1>0, <1>6
  <1>11. Layered(Edges, r, s, d, L, h - 1)
    BY <1>0, <1>7, <1>8, <1>9, <1>10 DEF Layered
  <1> QED BY <1>6, <1>11 DEF r, near, c

LEMMA SearchStep ==
    LinksInv /\ SearchInv /\ OneStepNearer /\ [Next]_vars => SearchInv' /\ OneStepNearer'
  <1> SUFFICES ASSUME LinksInv, SearchInv, OneStepNearer, [Next]_vars
               PROVE  SearchInv' /\ OneStepNearer'
    OBVIOUS
  <1>1. CASE AddLink \/ Run
    BY <1>1 DEF AddLink, Run, SearchInv, OneStepNearer
  <1>2. CASE Ask
    <2>1. PICK p \in Pairs : query' = p /\ bfsq' = <<p[2]>>
      BY <1>2 DEF Ask
    <2>2. p[1] \in Nodes /\ p[2] \in Nodes /\ p[1] # p[2]
      BY DEF Pairs
    <2>3. phase' = "search" /\ visited' = 0 /\ Edges' = Edges
      BY <1>2 DEF Ask, Edges
    <2> DEFINE q == <<p[2]>>
    <2>4. q \in Seq(Nodes) /\ Len(q) = 1 /\ q[1] = p[2]
      BY <2>2
    <2> HIDE DEF q
    <2>5. Layered(Edges, q, p[1], p[2], 0, 1)
      <3>1. p[1] \notin Away(Edges, p[2], 0) /\ q[1] \in Away(Edges, p[2], 0)
        BY <2>2, <2>4, AwayZero, AwayBegins
      <3>2. \A m \in Away(Edges, p[2], 0) : q[1] = m
        BY <2>2, <2>4, AwayZero
      <3> QED BY <2>4, <3>1, <3>2 DEF Layered
    <2>6. bfsq' = q
      BY <2>1 DEF q
    <2> QED BY <2>1, <2>3, <2>4, <2>5, <2>6 DEF SearchInv, OneStepNearer
  <1>3. CASE Return
    <2>1. /\ phase = "search" /\ bfsq # <<>> /\ Found(Head(bfsq), query[1]) # {}
          /\ answer' = Head(bfsq) /\ phase' = "found" /\ bfsq' = <<>> /\ visited' = visited + 1
          /\ query' = query /\ Edges' = Edges
      BY <1>3 DEF Return, Edges
    <2>2. query \in Pairs /\ bfsq \in Seq(Nodes) /\ visited \in Nat
      BY <2>1 DEF SearchInv
    <2>3. query[1] \in Nodes /\ query[2] \in Nodes
      BY <2>2 DEF Pairs
    <2>4. PICK L \in 0..visited, h \in 0..Len(bfsq) :
              h > 0 /\ Layered(Edges, bfsq, query[1], query[2], L, h)
      BY <2>1 DEF SearchInv
    <2> DEFINE c == Head(bfsq)
    <2>5. c = bfsq[1] /\ c \in Nodes
      BY <2>1, <2>2
    <2> HIDE DEF c
    <2>6. c \in Away(Edges, query[2], L) /\ \A j \in 0..L : query[1] \notin Away(Edges, query[2], j)
      BY <2>4, <2>5 DEF Layered
    <2>7. Joined(Edges, c, query[1])
      BY <2>1, <2>3, <2>5, FoundLinks DEF c
    <2>8. Joined(Edges, query[1], c)
      <3>1. {c, query[1]} = {query[1], c}
        OBVIOUS
      <3> QED BY <2>7, <3>1 DEF Joined
    <2>9. answer' = c
      BY <2>1 DEF c
    <2>10. L \in 0..visited'-1
      BY <2>1, <2>2
    <2>11. OneStepNearer'
      BY <2>1, <2>6, <2>8, <2>9, <2>10 DEF OneStepNearer
    <2>12. SearchInv'
      BY <2>1, <2>2 DEF SearchInv
    <2> QED BY <2>11, <2>12
  <1>4. CASE Visit
    <2>1. /\ phase = "search" /\ bfsq # <<>> /\ Found(Head(bfsq), query[1]) = {}
          /\ bfsq' = Tail(bfsq) \o Neighbors(Head(bfsq)) /\ visited' = visited + 1
          /\ phase' = "search" /\ query' = query /\ Edges' = Edges
      BY <1>4 DEF Visit, Edges
    <2>2. query \in Pairs /\ bfsq \in Seq(Nodes) /\ visited \in Nat
      BY <2>1 DEF SearchInv
    <2>3. query[1] \in Nodes /\ query[2] \in Nodes
      BY <2>2 DEF Pairs
    <2>4. PICK L \in 0..visited, h \in 0..Len(bfsq) :
              h > 0 /\ Layered(Edges, bfsq, query[1], query[2], L, h)
      BY <2>1 DEF SearchInv
    <2> DEFINE r == Tail(bfsq) \o Neighbors(Head(bfsq))
    <2>5. r \in Seq(Nodes) /\ Layered(Edges, r, query[1], query[2], L, h - 1)
      BY <2>1, <2>2, <2>3, <2>4, HeadVisited
    <2> HIDE DEF r
    <2>6. Len(r) \in Nat /\ L \in Nat /\ h - 1 \in 0..Len(r)
      BY <2>5 DEF Layered
    <2>7. PICK M \in 0..visited+1, g \in 0..Len(r) :
              (r # <<>> => g > 0) /\ Layered(Edges, r, query[1], query[2], M, g)
      <3>1. CASE h - 1 > 0
        BY <2>2, <2>5, <2>6, <3>1
      <3>2. CASE h - 1 = 0
        <4>1. Layered(Edges, r, query[1], query[2], L + 1, Len(r))
          BY <2>3, <2>5, <2>6, <3>2, NextLayer
        <4>2. r # <<>> => Len(r) > 0
          BY <2>5
        <4> QED BY <2>2, <2>6, <4>1, <4>2
      <3> QED BY <2>6, <3>1, <3>2
    <2>8. bfsq' = r
      BY <2>1 DEF r
    <2>9. \E K \in 0..visited', f \in 0..Len(bfsq') :
              /\ bfsq' # <<>> => f > 0
              /\ Layered(Edges', bfsq', query'[1], query'[2], K, f)
      BY <2>1, <2>7, <2>8
    <2>10. phase' = "search" /\ query' \in Pairs /\ bfsq' \in Seq(Nodes) /\ visited' \in Nat
      <3>1. visited' \in Nat
        BY <2>1, <2>2
      <3>2. query' \in Pairs
        BY <2>1, <2>2
      <3> QED BY <2>1, <2>5, <2>8, <3>1, <3>2
    <2> QED BY <2>9, <2>10 DEF SearchInv, OneStepNearer
  <1>5. CASE FallThrough
    BY <1>5 DEF FallThrough, SearchInv, OneStepNearer
  <1>6. CASE UNCHANGED vars
    BY <1>6 DEF vars, SearchInv, OneStepNearer, Edges
  <1> QED BY <1>1, <1>2, <1>3, <1>4, <1>5, <1>6 DEF Next

\* A next hop is a neighbour, and one link nearer than the node that asks,
\* although the search keeps no record of the nodes that it has visited.
THEOREM HopsGetNearer == Spec => []OneStepNearer
  <1>1. Init => SearchInv /\ OneStepNearer
    BY DEF Init, SearchInv, OneStepNearer
  <1> QED BY <1>1, LinksInit, LinksStep, SearchStep, PTL DEF Spec

---------------------------------------------------------------------------
(* The work.  Every entry of the queue ends a walk of its own, no walk is  *)
(* followed twice, and the walks are fewer than WorkBounded says.          *)

\* The walks of at most k edges.
UpTo(E, d, k) == UNION {Walks(E, d, i) : i \in 0..k}

LEMMA FinitelyManyWalks == ASSUME NEW E, NEW d, NEW k \in Nat PROVE IsFiniteSet(Walks(E, d, k))
  <1> DEFINE T == SUBSET ((0..k) \X Nodes)
             f == [w \in Walks(E, d, k) |-> {<<i, w[i]>> : i \in 0..k}]
  <1>1. IsFiniteSet(T)
    <2>1. IsFiniteSet(0..k)
      BY FS_Interval
    <2> DEFINE A == 0..k
    <2> HIDE DEF A
    <2>2. IsFiniteSet(A \X Nodes)
      BY <2>1, NodesAssumption, FS_Product DEF A
    <2> DEFINE B == A \X Nodes
    <2> HIDE DEF B
    <2>3. IsFiniteSet(SUBSET B)
      BY <2>2, FS_SUBSET DEF B
    <2> QED BY <2>3 DEF A, B
  <1>2. \A w \in Walks(E, d, k) : w \in [0..k -> Nodes]
    BY DEF Walks
  <1>3. f \in [Walks(E, d, k) -> T]
    BY <1>2
  <1>4. ASSUME NEW v \in Walks(E, d, k), NEW w \in Walks(E, d, k), f[v] = f[w] PROVE v = w
    <2>1. {<<i, v[i]>> : i \in 0..k} = {<<i, w[i]>> : i \in 0..k}
      BY <1>4
    <2>2. ASSUME NEW i \in 0..k PROVE v[i] = w[i]
      <3>1. <<i, v[i]>> \in {<<j, w[j]>> : j \in 0..k}
        BY <2>1
      <3> QED BY <3>1
    <2> QED BY <1>2, <2>2
  <1> HIDE DEF T, f
  <1>5. f \in Injection(Walks(E, d, k), T)
    BY <1>3, <1>4 DEF Injection, IsInjective
  <1> QED BY <1>1, <1>5, FS_Injection

LEMMA FinitelyManyUpTo == ASSUME NEW E, NEW d, NEW k \in Nat PROVE IsFiniteSet(UpTo(E, d, k))
  <1> DEFINE f == [i \in 0..k |-> Walks(E, d, i)]
             S == {Walks(E, d, i) : i \in 0..k}
  <1>1. IsFiniteSet(0..k)
    BY FS_Interval
  <1>2. f \in Surjection(0..k, S)
    BY DEF Surjection
  <1>3. \A T \in S : IsFiniteSet(T)
    BY FinitelyManyWalks
  <1>4. IsFiniteSet(S)
    <2> HIDE DEF f, S
    <2> QED BY <1>1, <1>2, FS_Surjection
  <1> HIDE DEF S
  <1>5. IsFiniteSet(UNION S)
    BY <1>3, <1>4, FS_UNION
  <1> QED BY <1>5 DEF UpTo, S

\* The walk w of k edges, and a node further.
Longer(w, k, n) == [i \in 0..k+1 |-> IF i = k + 1 THEN n ELSE w[i]]

Shorter(w, k) == [i \in 0..k |-> w[i]]

LEMMA LongerWalk ==
    ASSUME NEW E, NEW d, NEW k \in Nat, NEW w \in Walks(E, d, k), NEW n \in Nodes, Joined(E, w[k], n)
    PROVE  /\ Longer(w, k, n) \in Walks(E, d, k + 1) /\ Longer(w, k, n)[k + 1] = n
           /\ Shorter(Longer(w, k, n), k) = w
  <1>1. w \in [0..k -> Nodes] /\ w[0] = d /\ \A i \in 1..k : Joined(E, w[i-1], w[i])
    BY DEF Walks
  <1> DEFINE v == Longer(w, k, n)
  <1>2. v \in [0..k+1 -> Nodes] /\ v[k + 1] = n /\ \A i \in 0..k : v[i] = w[i]
    BY <1>1 DEF Longer
  <1> HIDE DEF v
  <1>3. ASSUME NEW i \in 1..k+1 PROVE Joined(E, v[i-1], v[i])
    <2>1. CASE i = k + 1
      BY <1>2, <2>1
    <2>2. CASE i # k + 1
      BY <1>1, <1>2, <2>2
    <2> QED BY <2>1, <2>2
  <1>4. v \in Walks(E, d, k + 1)
    BY <1>1, <1>2, <1>3 DEF Walks
  <1>5. Shorter(v, k) = w
    BY <1>1, <1>2 DEF Shorter
  <1> QED BY <1>2, <1>4, <1>5 DEF v

LEMMA WalksDiffer ==
    ASSUME NEW E, NEW d, NEW j \in Nat, NEW k \in Nat, j # k
    PROVE  Walks(E, d, j) \cap Walks(E, d, k) = {}
  <1> SUFFICES ASSUME NEW w \in Walks(E, d, j), w \in Walks(E, d, k) PROVE FALSE
    OBVIOUS
  <1>1. DOMAIN w = 0..j /\ DOMAIN w = 0..k
    BY DEF Walks
  <1>2. j \in 0..k /\ k \in 0..j
    BY <1>1
  <1> QED BY <1>2

\* The entries of the queue q end the walks W; those of V have been followed.
Traced(E, q, d, L, h, W, V, n) ==
    /\ \A i \in 1..h : W[i] \in Walks(E, d, L) /\ W[i][L] = q[i]
    /\ \A i \in h+1..Len(q) : W[i] \in Walks(E, d, L + 1) /\ W[i][L + 1] = q[i] /\ Shorter(W[i], L) \in V
    /\ \A i, j \in 1..Len(q) : W[i] = W[j] => i = j
    /\ \A i \in 1..Len(q) : W[i] \notin V
    /\ V \subseteq UpTo(E, d, L) /\ IsFiniteSet(V) /\ Cardinality(V) = n

LEMMA UpToGrows == ASSUME NEW E, NEW d, NEW j \in Nat, NEW k \in Nat, j =< k
                   PROVE  UpTo(E, d, j) \subseteq UpTo(E, d, k)
  <1>1. \A i \in 0..j : i \in 0..k
    OBVIOUS
  <1> QED BY <1>1 DEF UpTo

\* When the walks of L edges are all followed, those of L + 1 edges are the
\* queue.
LEMMA TracedOn ==
    ASSUME NEW E, NEW q, Len(q) \in Nat, NEW d, NEW L \in Nat, NEW W, NEW V, NEW n,
           Traced(E, q, d, L, 0, W, V, n)
    PROVE  Traced(E, q, d, L + 1, Len(q), W, V, n)
  <1>1. UpTo(E, d, L) \subseteq UpTo(E, d, L + 1)
    BY UpToGrows
  <1> QED BY <1>1 DEF Traced

\* The first entry's walk is followed, and its continuations are new.
LEMMA TracedVisit ==
    ASSUME LinksInv, NEW q \in Seq(Nodes), q # <<>>, NEW d \in Nodes, NEW L \in Nat, NEW h \in 1..Len(q),
           NEW W, NEW V, NEW n \in Nat, Traced(Edges, q, d, L, h, W, V, n),
           NEW r, r = Tail(q) \o Neighbors(Head(q))
    PROVE  \E X, U : Traced(Edges, r, d, L, h - 1, X, U, n + 1)
  <1> DEFINE c == Head(q)
             near == Neighbors(c)
             w == W[1]
             m == Len(q) - 1
             X == [i \in 1..Len(r) |-> IF i =< m THEN W[i + 1] ELSE Longer(w, L, r[i])]
             U == V \cup {w}
  <1>1. c = q[1] /\ c \in Nodes /\ 1 \in 1..h /\ 1 \in 1..Len(q) /\ m \in Nat /\ Len(q) \in Nat
    OBVIOUS
  <1>2. w \in Walks(Edges, d, L) /\ w[L] = c
    BY <1>1 DEF Traced
  <1> HIDE DEF c
  <1>3. Adjoins(c, near)
    BY <1>1, NeighborsLemma
  <1> HIDE DEF near
  <1>4. near \in Seq(Nodes)
    BY <1>3 DEF Adjoins
  <1>5. \A k \in 1..Len(near) : near[k] \in Nodes /\ Joined(Edges, c, near[k])
    BY <1>3, <1>4 DEF Adjoins
  <1>6. \A i, j \in 1..Len(near) : near[i] = near[j] => i = j
    BY <1>3 DEF Adjoins
  <1>7. /\ Len(r) = m + Len(near) /\ Len(near) \in Nat
        /\ \A i \in 1..m : r[i] = q[i + 1]
        /\ \A i \in m+1..Len(r) : i - m \in 1..Len(near) /\ r[i] = near[i - m]
    <2>1. /\ Tail(q) \in Seq(Nodes) /\ Len(Tail(q)) = m
          /\ \A i \in 1..m : Tail(q)[i] = q[i + 1]
      OBVIOUS
    <2>0. r = Tail(q) \o near
      BY DEF near, c
    <2> DEFINE t == Tail(q)
    <2> HIDE DEF t, m
    <2>2. t \in Seq(Nodes) /\ near \in Seq(Nodes)
      BY <1>4, <2>1 DEF t
    <2>3. /\ Len(t \o near) = Len(t) + Len(near)
          /\ \A i \in 1..Len(t) + Len(near) :
                (t \o near)[i] = IF i =< Len(t) THEN t[i] ELSE near[i - Len(t)]
      BY <2>2, ConcatProperties
    <2>4. Len(t) = m /\ r = t \o near /\ Len(near) \in Nat
      <3>1. Len(near) \in Nat
        BY <2>2
      <3> QED BY <2>0, <2>1, <3>1 DEF t
    <2>5. /\ Len(r) = m + Len(near)
          /\ \A i \in 1..m + Len(near) : r[i] = IF i =< m THEN t[i] ELSE near[i - m]
      BY <2>3, <2>4
    <2>6. \A i \in 1..m : i \in 1..m + Len(near)
      BY <1>1, <2>4
    <2>7. \A i \in 1..m : r[i] = q[i + 1]
      BY <2>1, <2>5, <2>6 DEF t
    <2>8. ASSUME NEW i \in m+1..Len(r) PROVE i - m \in 1..Len(near) /\ r[i] = near[i - m]
      <3>1. i \in 1..m + Len(near) /\ ~(i =< m) /\ i - m \in 1..Len(near)
        BY <1>1, <2>4, <2>5
      <3> QED BY <2>5, <3>1
    <2> QED BY <2>4, <2>5, <2>7, <2>8
  <1>m. m \in Nat /\ Len(q) = m + 1 /\ Len(q) \in Nat
    BY <1>1
  <1> HIDE DEF w
  <1>8. \A i \in m+1..Len(r) : /\ X[i] = Longer(w, L, r[i]) /\ X[i] \in Walks(Edges, d, L + 1)
                               /\ X[i][L + 1] = r[i] /\ Shorter(X[i], L) = w
    <2> SUFFICES ASSUME NEW i \in m+1..Len(r)
                 PROVE  /\ X[i] = Longer(w, L, r[i]) /\ X[i] \in Walks(Edges, d, L + 1)
                        /\ X[i][L + 1] = r[i] /\ Shorter(X[i], L) = w
      OBVIOUS
    <2>1. X[i] = Longer(w, L, r[i])
      BY <1>1
    <2>2. r[i] \in Nodes /\ Joined(Edges, w[L], r[i])
      BY <1>2, <1>5, <1>7
    <2> HIDE DEF X
    <2> QED BY <1>2, <2>1, <2>2, LongerWalk
  <1>9. \A i \in 1..m : X[i] = W[i + 1] /\ i + 1 \in 2..Len(q)
    BY <1>1, <1>7
  <1> HIDE DEF X, m
  <1>10. \A i \in 1..h-1 : X[i] \in Walks(Edges, d, L) /\ X[i][L] = r[i]
    <2> SUFFICES ASSUME NEW i \in 1..h-1 PROVE X[i] \in Walks(Edges, d, L) /\ X[i][L] = r[i]
      OBVIOUS
    <2>1. i + 1 \in 1..h /\ i \in 1..m
      BY <1>m
    <2> QED BY <1>7, <1>9, <2>1 DEF Traced
  <1>11. ASSUME NEW i \in h..Len(r)
         PROVE  X[i] \in Walks(Edges, d, L + 1) /\ X[i][L + 1] = r[i] /\ Shorter(X[i], L) \in U
    <2>1. CASE i =< m
      <3>1. i \in 1..m /\ i + 1 \in h+1..Len(q)
        BY <1>m, <2>1
      <3> QED BY <1>7, <1>9, <3>1 DEF Traced
    <2>2. CASE i > m
      <3>1. i \in m+1..Len(r)
        BY <1>m, <1>7, <2>2
      <3> QED BY <1>8, <3>1
    <2> QED BY <1>m, <2>1, <2>2
  <1>12. Walks(Edges, d, L) \cap Walks(Edges, d, L + 1) = {}
    BY WalksDiffer
  <1>13. w \notin V /\ \A i \in 2..Len(q) : W[i] # w
    BY <1>1 DEF Traced, w
  <1>14. \A i \in 2..Len(q) : W[i] \in Walks(Edges, d, L) \/ Shorter(W[i], L) # w
    BY <1>1, <1>13 DEF Traced
  <1>15. ASSUME NEW i \in 1..Len(r), NEW j \in 1..Len(r), i # j PROVE X[i] # X[j]
    <2>1. CASE i =< m /\ j =< m
      BY <1>m, <1>9, <1>15, <2>1 DEF Traced
    <2>2. CASE i > m /\ j > m
      <3>0. i \in m+1..Len(r) /\ j \in m+1..Len(r)
        BY <1>m, <1>7, <2>2
      <3>1. i - m # j - m /\ i - m \in 1..Len(near) /\ j - m \in 1..Len(near)
        BY <1>m, <1>7, <1>15, <3>0
      <3>a. r[i] = near[i - m] /\ r[j] = near[j - m]
        BY <1>7, <3>0
      <3>b. near[i - m] # near[j - m]
        BY <1>6, <3>1
      <3>2. r[i] # r[j]
        BY <3>a, <3>b
      <3> QED BY <1>8, <3>0, <3>2
    <2>3. ASSUME NEW a \in 1..m, NEW b \in m+1..Len(r) PROVE X[a] # X[b]
      <3>1. X[a] = W[a + 1] /\ a + 1 \in 2..Len(q)
        BY <1>9
      <3>2. X[b] \in Walks(Edges, d, L + 1) /\ Shorter(X[b], L) = w
        BY <1>8
      <3> QED BY <1>12, <1>14, <3>1, <3>2
    <2>4. ASSUME NEW k \in 1..Len(r) PROVE (k \in 1..m /\ k =< m) \/ (k \in m+1..Len(r) /\ k > m)
      BY <1>m, <1>7
    <2>5. CASE i \in 1..m /\ j \in m+1..Len(r)
      BY <2>3, <2>5
    <2>6. CASE j \in 1..m /\ i \in m+1..Len(r)
      BY <2>3, <2>6
    <2> QED BY <2>1, <2>2, <2>4, <2>5, <2>6
  <1>16. ASSUME NEW i \in 1..Len(r) PROVE X[i] \notin U
    <2>1. CASE i =< m
      <3>1. i \in 1..m /\ i + 1 \in 1..Len(q)
        BY <1>m, <2>1
      <3>2. X[i] = W[i + 1] /\ X[i] # w
        BY <1>9, <1>13, <3>1
      <3>3. W[i + 1] \notin V
        BY <3>1 DEF Traced
      <3> QED BY <3>2, <3>3
    <2>2. CASE i > m
      <3>0. i \in m+1..Len(r)
        BY <1>m, <1>7, <2>2
      <3>1. X[i] \in Walks(Edges, d, L + 1)
        BY <1>8, <3>0
      <3>2. X[i] \notin UpTo(Edges, d, L)
        <4> SUFFICES ASSUME NEW k \in 0..L, X[i] \in Walks(Edges, d, k) PROVE FALSE
          BY DEF UpTo
        <4> QED BY <3>1, WalksDiffer
      <3> QED BY <1>2, <1>12, <3>1, <3>2 DEF Traced
    <2> QED BY <1>m, <1>7, <2>1, <2>2
  <1>17. U \subseteq UpTo(Edges, d, L) /\ IsFiniteSet(U) /\ Cardinality(U) = n + 1
    <2>1. w \in UpTo(Edges, d, L)
      BY <1>2 DEF UpTo
    <2>2. IsFiniteSet(V) /\ Cardinality(V) = n /\ V \subseteq UpTo(Edges, d, L)
      BY DEF Traced
    <2> QED BY <1>13, <2>1, <2>2, FS_AddElement
  <1> HIDE DEF U
  <1>18. (h - 1) + 1 = h
    OBVIOUS
  <1>19. Traced(Edges, r, d, L, h - 1, X, U, n + 1)
    BY <1>10, <1>11, <1>15, <1>16, <1>17, <1>18 DEF Traced
  <1> QED BY <1>19

\* The turns of the loop count the walks V that have been followed.
CountInv ==
    phase = "search" =>
        /\ query \in Pairs /\ bfsq \in Seq(Nodes) /\ visited \in Nat
        /\ \E L \in Nat, h \in 0..Len(bfsq) :
              /\ bfsq # <<>> => h > 0
              /\ Layered(Edges, bfsq, query[1], query[2], L, h)
              /\ \E W, V : Traced(Edges, bfsq, query[2], L, h, W, V, visited)

LEMMA CountStep == LinksInv /\ CountInv /\ [Next]_vars => CountInv'
  <1> SUFFICES ASSUME LinksInv, CountInv, [Next]_vars PROVE CountInv'
    OBVIOUS
  <1>1. CASE AddLink \/ Run \/ Return \/ FallThrough
    BY <1>1 DEF AddLink, Run, Return, FallThrough, CountInv
  <1>2. CASE Ask
    <2>1. PICK p \in Pairs : query' = p /\ bfsq' = <<p[2]>>
      BY <1>2 DEF Ask
    <2>2. p[1] \in Nodes /\ p[2] \in Nodes /\ p[1] # p[2]
      BY DEF Pairs
    <2>3. phase' = "search" /\ visited' = 0 /\ Edges' = Edges
      BY <1>2 DEF Ask, Edges
    <2> DEFINE q == <<p[2]>>
               w == [i \in 0..0 |-> p[2]]
               W == [i \in 1..1 |-> w]
    <2>4. q \in Seq(Nodes) /\ Len(q) = 1 /\ q[1] = p[2]
      BY <2>2
    <2> HIDE DEF q
    <2>5. Layered(Edges, q, p[1], p[2], 0, 1)
      <3>1. p[1] \notin Away(Edges, p[2], 0) /\ q[1] \in Away(Edges, p[2], 0)
        BY <2>2, <2>4, AwayZero, AwayBegins
      <3>2. \A m \in Away(Edges, p[2], 0) : q[1] = m
        BY <2>2, <2>4, AwayZero
      <3> QED BY <2>4, <3>1, <3>2 DEF Layered
    <2>6. Traced(Edges, q, p[2], 0, 1, W, {}, 0)
      <3>1. w \in Walks(Edges, p[2], 0) /\ w[0] = q[1]
        BY <2>2, <2>4 DEF Walks
      <3>2. W[1] = w
        OBVIOUS
      <3> HIDE DEF w, W
      <3> QED BY <2>4, <3>1, <3>2, FS_EmptySet DEF Traced
    <2> HIDE DEF W
    <2>7. bfsq' = q
      BY <2>1 DEF q
    <2>8. \E L \in Nat, h \in 0..Len(bfsq') :
              /\ bfsq' # <<>> => h > 0
              /\ Layered(Edges', bfsq', query'[1], query'[2], L, h)
              /\ \E X, V : Traced(Edges', bfsq', query'[2], L, h, X, V, visited')
      BY <2>1, <2>3, <2>4, <2>5, <2>6, <2>7
    <2> QED BY <2>1, <2>3, <2>4, <2>7, <2>8 DEF CountInv
  <1>3. CASE Visit
    <2>1. /\ phase = "search" /\ bfsq # <<>> /\ Found(Head(bfsq), query[1]) = {}
          /\ bfsq' = Tail(bfsq) \o Neighbors(Head(bfsq)) /\ visited' = visited + 1
          /\ phase' = "search" /\ query' = query /\ Edges' = Edges
      BY <1>3 DEF Visit, Edges
    <2>2. query \in Pairs /\ bfsq \in Seq(Nodes) /\ visited \in Nat
      BY <2>1 DEF CountInv
    <2>3. query[1] \in Nodes /\ query[2] \in Nodes
      BY <2>2 DEF Pairs
    <2>4. PICK L \in Nat, h \in 0..Len(bfsq) :
              /\ h > 0 /\ Layered(Edges, bfsq, query[1], query[2], L, h)
              /\ \E W, V : Traced(Edges, bfsq, query[2], L, h, W, V, visited)
      BY <2>1 DEF CountInv
    <2> DEFINE r == Tail(bfsq) \o Neighbors(Head(bfsq))
    <2>5. r \in Seq(Nodes) /\ Layered(Edges, r, query[1], query[2], L, h - 1)
      BY <2>1, <2>2, <2>3, <2>4, HeadVisited
    <2>6. \E X, U : Traced(Edges, r, query[2], L, h - 1, X, U, visited + 1)
      <3>1. PICK W, V : Traced(Edges, bfsq, query[2], L, h, W, V, visited)
        BY <2>4
      <3>2. h \in 1..Len(bfsq)
        BY <2>4
      <3> QED BY <2>1, <2>2, <2>3, <3>1, <3>2, TracedVisit
    <2> HIDE DEF r
    <2>7. Len(r) \in Nat /\ h - 1 \in 0..Len(r)
      BY <2>5 DEF Layered
    <2>8. \E M \in Nat, g \in 0..Len(r) :
              /\ r # <<>> => g > 0
              /\ Layered(Edges, r, query[1], query[2], M, g)
              /\ \E X, U : Traced(Edges, r, query[2], M, g, X, U, visited + 1)
      <3>1. CASE h - 1 > 0
        BY <2>5, <2>6, <2>7, <3>1
      <3>2. CASE h - 1 = 0
        <4>1. Layered(Edges, r, query[1], query[2], L + 1, Len(r))
          BY <2>3, <2>5, <2>7, <3>2, NextLayer
        <4>2. r # <<>> => Len(r) > 0
          BY <2>5
        <4>3. \E X, U : Traced(Edges, r, query[2], L + 1, Len(r), X, U, visited + 1)
          BY <2>6, <2>7, <3>2, TracedOn
        <4>4. L + 1 \in Nat /\ Len(r) \in 0..Len(r)
          BY <2>7
        <4> QED BY <4>1, <4>2, <4>3, <4>4
      <3> QED BY <2>7, <3>1, <3>2
    <2>9. bfsq' = r
      BY <2>1 DEF r
    <2>10. \E L1 \in Nat, h1 \in 0..Len(bfsq') :
              /\ bfsq' # <<>> => h1 > 0
              /\ Layered(Edges', bfsq', query'[1], query'[2], L1, h1)
              /\ \E X, V : Traced(Edges', bfsq', query'[2], L1, h1, X, V, visited')
      BY <2>1, <2>8, <2>9
    <2>11. query' \in Pairs /\ bfsq' \in Seq(Nodes) /\ visited' \in Nat
      <3>1. visited' \in Nat
        BY <2>1, <2>2
      <3> QED BY <2>1, <2>2, <2>5, <2>9, <3>1
    <2> QED BY <2>10, <2>11 DEF CountInv
  <1>4. CASE UNCHANGED vars
    BY <1>4 DEF vars, CountInv, Edges
  <1> QED BY <1>1, <1>2, <1>3, <1>4 DEF Next

\* A node that can be reached has a distance.
LEMMA DistanceLemma ==
    ASSUME NEW s, NEW d, Reachable(s, d)
    PROVE  LET D == Distance(s, d)
           IN  D \in Nat /\ s \in Away(Edges, d, D)
  <1> DEFINE K == {k \in 0..Cardinality(Nodes) : s \in Away(Edges, d, k)}
  <1>1. K # {} /\ K \subseteq Nat
    BY DEF Reachable
  <1>2. PICK k \in K : \A j \in K : k =< j
    BY <1>1, LeastNat
  <1>3. Cardinality(Nodes) \in Nat
    BY NodesAssumption, FS_CardinalityType
  <1>4. k \in 0..Cardinality(Nodes) /\ s \in Away(Edges, d, k) /\ \A j \in 0..k-1 : s \notin Away(Edges, d, j)
    BY <1>1, <1>2, <1>3
  <1> QED BY <1>4 DEF Distance

\* While the search goes on there is a walk that it has not followed; the turn
\* that returns follows that one.
WalksLeft ==
    phase = "search" /\ Reachable(query[1], query[2]) =>
        visited < Cardinality(UpTo(Edges, query[2], Distance(query[1], query[2]) - 1))

FoundInTime ==
    phase = "found" /\ Reachable(query[1], query[2]) =>
        visited - 1 < Cardinality(UpTo(Edges, query[2], Distance(query[1], query[2]) - 1))

LEMMA SearchBounded == CountInv => WalksLeft
  <1> SUFFICES ASSUME CountInv, phase = "search", Reachable(query[1], query[2])
               PROVE  visited < Cardinality(UpTo(Edges, query[2], Distance(query[1], query[2]) - 1))
    BY DEF WalksLeft
  <1> DEFINE s == query[1]
             d == query[2]
             D == Distance(s, d)
  <1>1. query \in Pairs /\ bfsq \in Seq(Nodes) /\ visited \in Nat /\ s \in Nodes /\ d \in Nodes
    BY DEF CountInv, Pairs
  <1>2. PICK L \in Nat, h \in 0..Len(bfsq) :
            /\ bfsq # <<>> => h > 0
            /\ Layered(Edges, bfsq, s, d, L, h)
            /\ \E W, V : Traced(Edges, bfsq, d, L, h, W, V, visited)
    BY DEF CountInv
  <1>3. PICK W, V : Traced(Edges, bfsq, d, L, h, W, V, visited)
    BY <1>2
  <1>4. D \in Nat /\ s \in Away(Edges, d, D)
    BY DistanceLemma
  <1> HIDE DEF s, D
  <1>5. L =< D - 1 /\ D - 1 \in Nat
    <2>1. \A j \in 0..L : s \notin Away(Edges, d, j)
      BY <1>2 DEF Layered
    <2> QED BY <1>4, <2>1
  <1>6. bfsq # <<>>
    <2> SUFFICES ASSUME bfsq = <<>> PROVE FALSE
      OBVIOUS
    <2>1. Len(bfsq) = 0 /\ h = 0
      OBVIOUS
    <2>2. \A m \in Away(Edges, d, L) : ~Joined(Edges, m, s) /\ \A n \in Nodes : ~Joined(Edges, m, n)
      BY <1>2, <2>1 DEF Layered
    <2>3. PICK w \in Walks(Edges, d, D) : TRUE
      BY <1>4 DEF Away
    <2>4. w \in [0..D -> Nodes] /\ w[0] = d /\ \A i \in 1..D : Joined(Edges, w[i-1], w[i])
      BY DEF Walks
    <2>5. Shorter(w, L) \in Walks(Edges, d, L) /\ Shorter(w, L)[L] = w[L]
      <3>1. \A i \in 0..L : i \in 0..D /\ (i \in 1..L => i \in 1..D /\ i - 1 \in 0..L)
        BY <1>4, <1>5
      <3> DEFINE v == Shorter(w, L)
      <3>2. v \in [0..L -> Nodes] /\ \A i \in 0..L : v[i] = w[i]
        BY <2>4, <3>1 DEF Shorter
      <3> HIDE DEF v
      <3>3. 0 \in 0..L /\ L \in 0..L /\ \A i \in 1..L : i \in 0..L
        OBVIOUS
      <3>4. \A i \in 1..L : Joined(Edges, v[i-1], v[i])
        BY <2>4, <3>1, <3>2, <3>3
      <3>5. v \in Walks(Edges, d, L)
        BY <2>4, <3>2, <3>3, <3>4 DEF Walks
      <3> QED BY <3>2, <3>3, <3>5 DEF v
    <2>6. w[L] \in Away(Edges, d, L)
      BY <2>5 DEF Away
    <2>7. L + 1 \in 1..D /\ (L + 1) - 1 = L
      BY <1>4, <1>5
    <2>8. Joined(Edges, w[L], w[L + 1]) /\ w[L + 1] \in Nodes
      BY <2>4, <2>7
    <2> QED BY <2>2, <2>6, <2>8
  <1>7. W[1] \in UpTo(Edges, d, L) /\ W[1] \notin V
    <2>1. h > 0 /\ 1 \in 1..h /\ 1 \in 1..Len(bfsq)
      BY <1>1, <1>2, <1>6
    <2>2. W[1] \in Walks(Edges, d, L) /\ W[1] \notin V
      BY <1>2, <1>3, <2>1 DEF Traced
    <2> QED BY <2>2 DEF UpTo
  <1>8. V \cup {W[1]} \subseteq UpTo(Edges, d, D - 1)
    BY <1>2, <1>3, <1>5, <1>7, UpToGrows DEF Traced
  <1>9. Cardinality(V \cup {W[1]}) = visited + 1
    BY <1>2, <1>3, <1>7, FS_AddElement DEF Traced
  <1>10. IsFiniteSet(UpTo(Edges, d, D - 1))
    BY <1>5, FinitelyManyUpTo
  <1>11. visited + 1 =< Cardinality(UpTo(Edges, d, D - 1)) /\ Cardinality(UpTo(Edges, d, D - 1)) \in Nat
    BY <1>8, <1>9, <1>10, FS_Subset, FS_CardinalityType
  <1> QED BY <1>1, <1>11 DEF s, D

LEMMA FoundStep == CountInv /\ WalksLeft /\ FoundInTime /\ [Next]_vars => FoundInTime'
  <1> SUFFICES ASSUME CountInv, WalksLeft, FoundInTime, [Next]_vars, phase' = "found"
               PROVE  FoundInTime'
    BY DEF FoundInTime
  <1>1. CASE Return
    <2>1. phase = "search" /\ visited \in Nat /\ visited' - 1 = visited
      BY <1>1 DEF Return, CountInv
    <2>2. query' = query /\ lines' = lines
      BY <1>1 DEF Return
    <2> QED BY <2>1, <2>2 DEF WalksLeft, FoundInTime, Reachable, Distance, Edges
  <1>2. CASE UNCHANGED vars
    <2>1. phase' = phase /\ query' = query /\ lines' = lines /\ visited' = visited
      BY <1>2 DEF vars
    <2> QED BY <2>1 DEF FoundInTime, Reachable, Distance, Edges
  <1>3. CASE AddLink \/ Run \/ Ask \/ Visit \/ FallThrough
    BY <1>3 DEF AddLink, Run, Ask, Visit, FallThrough
  <1> QED BY <1>1, <1>2, <1>3 DEF Next

\* The loop ends before it has followed every walk that is shorter than the way
\* to the node that asks, however often it comes back to the same nodes.
THEOREM SearchEnds == Spec => []WorkBounded
  <1>1. Init => CountInv /\ FoundInTime
    BY DEF Init, CountInv, FoundInTime
  <1>2. CountInv /\ WalksLeft /\ FoundInTime => WorkBounded
    <2>1. phase = "search" /\ CountInv => visited - 0 = visited
      BY DEF CountInv
    <2> QED BY <2>1 DEF WalksLeft, FoundInTime, WorkBounded, UpTo
  <1> QED BY <1>1, <1>2, CountStep, SearchBounded, FoundStep, LinksInit, LinksStep, PTL DEF Spec
=============================================================================
