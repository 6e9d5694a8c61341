---------------------------- MODULE ConfigProofs ----------------------------
(***************************************************************************)
(* Proofs about Config, whatever lines a scenario file has and in whatever *)
(* order, and whatever the memory held: its flows are attached to the      *)
(* hosts that receive their packets, and what is built is what the file    *)
(* says.                                                                   *)
(***************************************************************************)
EXTENDS Config, SequenceTheorems, FiniteSetTheorems, WellFoundedInduction, TLAPS

---------------------------------------------------------------------------
(* Sequences that grow.                                                    *)

LEMMA Appended ==
    ASSUME NEW S, NEW s \in Seq(S), NEW x, NEW t, t = Append(s, x)
    PROVE  /\ t \in Seq(S \cup {x}) /\ Len(s) \in Nat /\ Len(t) = Len(s) + 1
           /\ DOMAIN s = 1..Len(s) /\ DOMAIN t = DOMAIN s \cup {Len(s) + 1}
           /\ Len(s) + 1 \notin DOMAIN s
           /\ t[Len(s) + 1] = x
           /\ \A n \in DOMAIN s : t[n] = s[n]
  <1>1. s \in Seq(S \cup {x}) /\ x \in S \cup {x}
    BY SeqMonotonic
  <1>2. /\ t \in Seq(S \cup {x}) /\ Len(t) = Len(s) + 1 /\ t[Len(s) + 1] = x
        /\ Len(s) \in Nat /\ \A n \in 1..Len(s) : t[n] = s[n]
    BY <1>1, AppendProperties, LenProperties
  <1>3. DOMAIN s = 1..Len(s) /\ DOMAIN t = 1..Len(t)
    BY <1>1, <1>2, LenProperties
  <1> QED BY <1>2, <1>3

---------------------------------------------------------------------------
(* Lines and their places.                                                 *)

LEMMA LeastNat == ASSUME NEW T \in SUBSET Nat, T # {} PROVE \E n \in T : \A m \in T : n =< m
  <1>1. IsWellFoundedOn(OpToRel(<, Nat), Nat)
    BY ONLY NatLessThanWellFounded, Zenon
  <1>2. PICK n \in T : \A m \in T : ~ (<<m, n>> \in OpToRel(<, Nat))
    BY <1>1, WFMin
  <1>3. \A m \in T : ~ (m < n)
    BY <1>2 DEF OpToRel
  <1> QED BY <1>3

LEMMA NearestLemma ==
    ASSUME NEW k \in Nat, NEW S \in SUBSET (1..k), S # {}
    PROVE  Nearest(S) \in S /\ \A m \in S : m =< Nearest(S)
  <1> DEFINE T == {k - i : i \in S}
  <1>0. \A i \in S : i \in 1..k /\ k - i \in Nat
    OBVIOUS
  <1>1. T \in SUBSET Nat /\ T # {}
    BY <1>0
  <1> HIDE DEF T
  <1>2. PICK n \in T : \A m \in T : n =< m
    BY <1>1, LeastNat
  <1>3. PICK i \in S : n = k - i
    BY DEF T
  <1>4. \A m \in S : k - m \in T
    BY DEF T
  <1>5. \A m \in S : k - i =< k - m
    BY <1>2, <1>3, <1>4
  <1>6. \A m \in S : m =< i
    BY <1>0, <1>5
  <1> QED BY <1>3, <1>6, Zenon DEF Nearest

\* The place of an element of a finite set of numbers.
LEMMA PlaceLemma ==
    ASSUME NEW S \in SUBSET Nat, IsFiniteSet(S), NEW k \in S
    PROVE  Place(S, k) \in 1..Cardinality(S)
  <1> DEFINE T == {j \in S : j =< k}
  <1>1. T \subseteq S /\ T # {}
    OBVIOUS
  <1> HIDE DEF T
  <1>2. IsFiniteSet(T) /\ Cardinality(T) =< Cardinality(S)
    BY <1>1, FS_Subset
  <1>3. Cardinality(T) \in Nat /\ Cardinality(S) \in Nat /\ Cardinality(T) # 0
    BY <1>1, <1>2, FS_CardinalityType, FS_EmptySet
  <1>4. Cardinality(T) \in 1..Cardinality(S)
    BY <1>2, <1>3
  <1> QED BY <1>4 DEF T, Place

\* A line more: the others keep their places.
LEMMA PlacesKept ==
    ASSUME NEW S \in SUBSET Nat, IsFiniteSet(S), NEW n \in Nat, \A k \in S : k < n
    PROVE  /\ IsFiniteSet(S \cup {n}) /\ Cardinality(S \cup {n}) = Cardinality(S) + 1
           /\ Place(S \cup {n}, n) = Cardinality(S) + 1
           /\ \A k \in S : Place(S \cup {n}, k) = Place(S, k) /\ Place(S, k) \in 1..Cardinality(S)
  <1> DEFINE U == S \cup {n}
  <1>1. n \notin S
    OBVIOUS
  <1>2. IsFiniteSet(U) /\ Cardinality(U) = Cardinality(S) + 1
    BY <1>1, FS_AddElement
  <1>3. {j \in U : j =< n} = U
    <2>1. \A j \in S : j \in Nat /\ j < n
      OBVIOUS
    <2>2. \A j \in U : j =< n
      BY <2>1
    <2> HIDE DEF U
    <2> QED BY <2>2
  <1>4. Place(U, n) = Cardinality(S) + 1
    BY <1>2, <1>3 DEF Place
  <1>5. ASSUME NEW k \in S
        PROVE  Place(U, k) = Place(S, k) /\ Place(S, k) \in 1..Cardinality(S)
    <2>1. {j \in U : j =< k} = {j \in S : j =< k}
      <3>1. k \in Nat /\ ~ (n =< k)
        OBVIOUS
      <3> QED BY <3>1
    <2>2. Place(U, k) = Place(S, k)
      BY <2>1 DEF Place
    <2> QED BY <2>2, PlaceLemma
  <1> QED BY <1>2, <1>4, <1>5

---------------------------------------------------------------------------
(* Lines and their arguments.                                              *)

Arguments == Int \cup FileNames

FileInv == /\ file \in Seq(Lines)
           /\ memory \in Memories
           /\ config_argnum = 0
           /\ config_args = [j \in 1..4 |-> Says(Len(file), j)]
           /\ \A j \in 1..4 : config_args[j] \in Arguments
           /\ config_args[1] \in Int /\ config_args[2] \in Int
           /\ complaints \subseteq DOMAIN file
           /\ phase \in {"read", "run", "fatal", "undefined"}

\* The line n has been read, and is l.
Reads(l, n) == /\ n \in Nat /\ Len(file) \in Nat /\ n = Len(file) + 1 /\ n = Len(file')
               /\ DOMAIN file = 1..Len(file) /\ DOMAIN file' = DOMAIN file \cup {n} /\ n \notin DOMAIN file
               /\ file'[n] = l /\ \A k \in DOMAIN file : file'[k] = file[k]

\* What the file says at its end, and that it still says what it said.
LEMMA SaysLemma ==
    ASSUME NEW l, NEW n, Reads(l, n), memory' = memory, Len(l.args) \in Nat
    PROVE  /\ \A j \in 1..4 : Says(n, j)' = IF j =< Len(l.args) THEN l.args[j] ELSE Says(Len(file), j)
           /\ \A k \in DOMAIN file, j \in 1..4 : Says(k, j)' = Says(k, j)
  <1>1. ASSUME NEW k \in 0..Len(file), NEW j \in 1..4
        PROVE  Writers(k, j)' = Writers(k, j) /\ Says(k, j)' = Says(k, j)
    <2>1. k \in Nat /\ 1..k \subseteq DOMAIN file
      BY DEF Reads
    <2>2. Writers(k, j)' = Writers(k, j)
      BY <2>1 DEF Reads, Writers
    <2>3. CASE Writers(k, j) = {}
      BY <2>2, <2>3 DEF Says
    <2>4. CASE Writers(k, j) # {}
      <3>1. Writers(k, j) \in SUBSET (1..k)
        BY DEF Writers
      <3>2. Nearest(Writers(k, j)) \in 1..k
        BY <2>1, <2>4, <3>1, NearestLemma
      <3>3. file'[Nearest(Writers(k, j))] = file[Nearest(Writers(k, j))]
        BY <2>1, <3>2 DEF Reads
      <3> QED BY <2>2, <2>4, <3>3 DEF Says
    <2> QED BY <2>2, <2>3, <2>4
  <1>2. ASSUME NEW j \in 1..4
        PROVE  Says(n, j)' = IF j =< Len(l.args) THEN l.args[j] ELSE Says(Len(file), j)
    <2>0. /\ n \in Nat /\ n = Len(file) + 1 /\ Len(file) \in Nat
          /\ 1..n = (1..Len(file)) \cup {n} /\ n \notin 1..Len(file) /\ DOMAIN file = 1..Len(file)
      BY DEF Reads
    <2>1. CASE j =< Len(l.args)
      <3>1. n \in Writers(n, j)' /\ Writers(n, j)' \in SUBSET (1..n)
        BY <2>0, <2>1 DEF Reads, Writers
      <3>2. /\ Nearest(Writers(n, j)') \in Writers(n, j)'
            /\ \A m \in Writers(n, j)' : m =< Nearest(Writers(n, j)')
        BY <2>0, <3>1, NearestLemma
      <3>3. Nearest(Writers(n, j)') = n
        BY <2>0, <3>1, <3>2
      <3> QED BY <2>1, <3>1, <3>3 DEF Says, Reads
    <2>2. CASE ~ (j =< Len(l.args))
      <3>1. Writers(n, j)' = Writers(Len(file), j)
        BY <2>0, <2>2 DEF Reads, Writers
      <3>2. CASE Writers(Len(file), j) = {}
        BY <2>2, <3>1, <3>2 DEF Says
      <3>3. CASE Writers(Len(file), j) # {}
        <4>1. Writers(Len(file), j) \in SUBSET (1..Len(file))
          BY DEF Writers
        <4>2. Nearest(Writers(Len(file), j)) \in 1..Len(file)
          BY <2>0, <3>3, <4>1, NearestLemma
        <4>3. file'[Nearest(Writers(Len(file), j))] = file[Nearest(Writers(Len(file), j))]
          BY <2>0, <4>2 DEF Reads
        <4> QED BY <2>2, <3>1, <3>3, <4>3 DEF Says
      <3> QED BY <3>2, <3>3
    <2> QED BY <2>1, <2>2
  <1> QED BY <1>1, <1>2 DEF Reads

\* The line has been read, and its arguments are in the slots.
Stored(l, n) ==
    /\ Reads(l, n) /\ file' \in Seq(Lines)
    /\ Len(l.args) \in Nat /\ Given = Len(l.args) /\ phase = "read"
    /\ config_argnum' = 0 /\ memory' = memory
    /\ config_args' = [j \in 1..4 |-> Says(n, j)']
    /\ \A j \in 1..4 : config_args'[j] \in Arguments /\ (j =< Len(l.args) => config_args'[j] = l.args[j])
    /\ config_args'[1] \in Int /\ config_args'[2] \in Int
    /\ \A k \in DOMAIN file, j \in 1..4 : Says(k, j)' = Says(k, j)

LEMMA LineLemma ==
    ASSUME FileInv, NEW id, Line(id)
    PROVE  \E l \in Lines, n \in Nat : l.id = id /\ Stored(l, n)
  <1>1. PICK l \in Lines : l.id = id /\ file' = Append(file, l) /\ config_args' = AddArgs(l.args)
    BY DEF Line
  <1>2. /\ file \in Seq(Lines) /\ config_argnum = 0 /\ config_argnum' = 0 /\ memory' = memory
        /\ phase = "read"
    BY DEF FileInv, Line
  <1>3. PICK n : n = Len(file')
    OBVIOUS
  <1>4. n \in Nat /\ Reads(l, n)
    BY <1>1, <1>2, <1>3, Appended DEF Reads
  <1>5. file' \in Seq(Lines)
    BY <1>1, <1>2, AppendProperties
  <1>6. /\ Len(l.args) \in Nat /\ DOMAIN l.args = 1..Len(l.args)
        /\ \A j \in 1..Len(l.args) : l.args[j] \in Arguments /\ (j \in {1, 2} => l.args[j] \in Int)
    BY LinesAssumption, LenProperties, ElementOfSeq DEF Arguments
  <1>7. config_args' = [j \in 1..4 |-> IF j =< Len(l.args) THEN l.args[j] ELSE config_args[j]]
    BY <1>1, <1>2, <1>6 DEF AddArgs
  <1>8. Given = Len(l.args)
    BY <1>2, <1>3, <1>4, <1>6 DEF Given, Reads
  <1>9. config_args = [j \in 1..4 |-> Says(Len(file), j)]
    BY DEF FileInv
  <1>10. config_args' = [j \in 1..4 |-> Says(n, j)']
    BY <1>2, <1>4, <1>6, <1>7, <1>9, SaysLemma
  <1>11. /\ \A j \in 1..4 : config_args'[j] \in Arguments /\ (j =< Len(l.args) => config_args'[j] = l.args[j])
         /\ config_args'[1] \in Int /\ config_args'[2] \in Int
    BY <1>6, <1>7 DEF FileInv
  <1>12. \A k \in DOMAIN file, j \in 1..4 : Says(k, j)' = Says(k, j)
    BY <1>2, <1>4, <1>6, SaysLemma
  <1> QED BY <1>1, <1>2, <1>4, <1>5, <1>6, <1>8, <1>10, <1>11, <1>12 DEF Stored

\* Every action reads a line, but for the last one.
LEMMA FileStep == FileInv /\ [Next]_vars => FileInv'
  <1> SUFFICES ASSUME FileInv, [Next]_vars PROVE FileInv'
    OBVIOUS
  <1>1. ASSUME NEW id, Line(id), phase' \in {"read", "run", "fatal", "undefined"},
               complaints' \subseteq complaints \cup {Len(file')}
        PROVE  FileInv'
    <2>1. PICK l \in Lines, n \in Nat : Stored(l, n)
      BY <1>1, LineLemma
    <2>2. n = Len(file') /\ complaints' \subseteq DOMAIN file'
      BY <1>1, <2>1 DEF Stored, Reads, FileInv
    <2>3. config_args' = [j \in 1..4 |-> Says(Len(file), j)]'
      BY <2>1, <2>2 DEF Stored
    <2> QED BY <1>1, <2>1, <2>2, <2>3 DEF Stored, FileInv
  <1>2. CASE Link
    BY <1>1, <1>2 DEF Link, Complain, FileInv
  <1>3. CASE FIFONode
    BY <1>1, <1>3 DEF FIFONode, Complain, FileInv
  <1>4. CASE Router \/ Host
    BY <1>1, <1>4 DEF Router, Host, FileInv
  <1>5. CASE FDTPFlow
    BY <1>1, <1>5 DEF FDTPFlow, FileInv
  <1>6. CASE Fatal \/ Unknown
    BY <1>1, <1>6 DEF Fatal, Unknown, FileInv
  <1>7. CASE Stop \/ UNCHANGED vars
    BY <1>7 DEF Stop, vars, FileInv, Says, Writers
  <1> QED BY <1>2, <1>3, <1>4, <1>5, <1>6, <1>7 DEF Next

LEMMA FileInit == Init => FileInv
  <1> SUFFICES ASSUME Init PROVE FileInv
    OBVIOUS
  <1>1. /\ <<>> \in Seq(Lines) /\ Len(<<>>) = 0 /\ memory \in [1..4 -> Int]
        /\ file = <<>> /\ config_args = memory
    BY MemoriesAssumption DEF Init
  <1>2. \A j \in 1..4 : Writers(Len(file), j) = {}
    BY <1>1 DEF Writers
  <1>3. config_args = [j \in 1..4 |-> Says(Len(file), j)]
    BY <1>1, <1>2 DEF Says
  <1> QED BY <1>1, <1>3 DEF Init, FileInv, Arguments

---------------------------------------------------------------------------
(* Links.                                                                  *)

LinksInv == /\ \E L : links \in Seq(L)
            /\ IsFiniteSet(LinkLines)
            /\ LinksAsWritten

\* A line of another command leaves the Link lines where they are.
LEMMA OtherLinks ==
    ASSUME LinksInv, UNCHANGED links, NEW l, NEW n, Stored(l, n), l.id # "Link"
    PROVE  LinksInv'
  <1>1. LinkLines' = LinkLines /\ LinkLines \subseteq DOMAIN file
    BY DEF Stored, Reads, LinkLines
  <1>2. \A k \in LinkLines, j \in 1..4 : Says(k, j)' = Says(k, j)
    BY <1>1 DEF Stored
  <1> QED BY <1>1, <1>2 DEF LinksInv, LinksAsWritten

\* A Link line becomes the last one.
LEMMA NewLink ==
    ASSUME LinksInv, Link, NEW l, NEW n, Stored(l, n), l.id = "Link"
    PROVE  LinksInv'
  <1> DEFINE x == <<Address(config_args'[1]), Address(config_args'[2]), config_args'[3], config_args'[4]>>
  <1>1. /\ LinkLines' = LinkLines \cup {n} /\ LinkLines \subseteq DOMAIN file
        /\ LinkLines \in SUBSET Nat /\ n \in Nat /\ \A k \in LinkLines : k < n
    BY DEF Stored, Reads, LinkLines
  <1>2. links' = Append(links, x)
    BY DEF Link
  <1>3. x = <<Address(Says(n, 1)'), Address(Says(n, 2)'), Says(n, 3)', Says(n, 4)'>>
    BY DEF Stored
  <1>4. PICK L : links \in Seq(L)
    BY DEF LinksInv
  <1>5. IsFiniteSet(LinkLines) /\ Len(links) = Cardinality(LinkLines)
    BY DEF LinksInv, LinksAsWritten
  <1> HIDE DEF x
  <1>6. /\ IsFiniteSet(LinkLines') /\ Len(links') = Cardinality(LinkLines')
        /\ links'[Place(LinkLines', n)] = x
        /\ \A k \in LinkLines : links'[Place(LinkLines', k)] = links[Place(LinkLines, k)]
    <2>1. /\ Len(links) \in Nat /\ Len(links') = Len(links) + 1 /\ DOMAIN links = 1..Len(links)
          /\ links'[Len(links) + 1] = x /\ \A k \in DOMAIN links : links'[k] = links[k]
      BY <1>2, <1>4, Appended
    <2>2. /\ IsFiniteSet(LinkLines') /\ Cardinality(LinkLines') = Cardinality(LinkLines) + 1
          /\ Place(LinkLines', n) = Cardinality(LinkLines) + 1
          /\ \A k \in LinkLines : /\ Place(LinkLines', k) = Place(LinkLines, k)
                                 /\ Place(LinkLines, k) \in 1..Cardinality(LinkLines)
      BY <1>1, <1>5, PlacesKept
    <2> QED BY <1>5, <2>1, <2>2
  <1>7. \A k \in LinkLines, j \in 1..4 : Says(k, j)' = Says(k, j)
    BY <1>1 DEF Stored
  <1>8. ASSUME NEW k \in LinkLines'
        PROVE  links'[Place(LinkLines', k)] = <<Address(Says(k, 1)'), Address(Says(k, 2)'), Says(k, 3)', Says(k, 4)'>>
    <2>1. CASE k = n
      BY <1>3, <1>6, <2>1
    <2>2. CASE k \in LinkLines
      BY <1>6, <1>7, <2>2 DEF LinksInv, LinksAsWritten
    <2> QED BY <1>1, <2>1, <2>2
  <1>9. links' \in Seq(L \cup {x})
    BY <1>2, <1>4, Appended
  <1> QED BY <1>6, <1>8, <1>9 DEF LinksInv, LinksAsWritten, Address

LEMMA LinksStep == FileInv /\ LinksInv /\ [Next]_vars => LinksInv'
  <1> SUFFICES ASSUME FileInv, LinksInv, [Next]_vars PROVE LinksInv'
    OBVIOUS
  <1>1. CASE Link
    BY <1>1, LineLemma, NewLink DEF Link
  <1>2. CASE FIFONode \/ Router \/ Host \/ FDTPFlow
    BY <1>2, LineLemma, OtherLinks DEF FIFONode, Router, Host, FDTPFlow
  <1>3. CASE Fatal
    BY <1>3, LineLemma, OtherLinks DEF Fatal
  <1>4. CASE Unknown
    BY <1>4, LineLemma, OtherLinks DEF Unknown, Arity
  <1>5. CASE Stop \/ UNCHANGED vars
    BY <1>5 DEF Stop, vars, LinksInv, LinksAsWritten, LinkLines, Says, Writers
  <1> QED BY <1>1, <1>2, <1>3, <1>4, <1>5 DEF Next

LEMMA LinksInit == Init => LinksInv
  <1> SUFFICES ASSUME Init PROVE LinksInv
    OBVIOUS
  <1>1. links = <<>> /\ file = <<>> /\ <<>> \in Seq({}) /\ DOMAIN <<>> = {} /\ Len(<<>>) = 0
    BY DEF Init
  <1>2. LinkLines = {}
    BY <1>1 DEF LinkLines
  <1> QED BY <1>1, <1>2, FS_EmptySet DEF LinksInv, LinksAsWritten

---------------------------------------------------------------------------
(* Nodes and flows.                                                        *)

\* Every node's address is registered, for the first node that has it.
Registered(m, o) ==
    /\ \A n \in DOMAIN o : o[n].address \in DOMAIN m
    /\ \A a \in DOMAIN m : /\ m[a] \in DOMAIN o /\ o[m[a]].address = a
                          /\ \A n \in DOMAIN o : o[n].address = a => m[a] =< n

\* An object that is the node for its address, and a Host.
Named(m, o, n) == /\ n \in DOMAIN o /\ o[n].address \in DOMAIN m /\ m[o[n].address] = n
                  /\ o[n].class = "Host"

\* The ends of every flow are such objects.
Attached(m, o, f) == \A k \in DOMAIN f : Named(m, o, f[k].source) /\ Named(m, o, f[k].destination)

NodesInv == /\ \E O : objects \in Seq(O)
            /\ \E F : flows \in Seq(F)
            /\ Registered(node_map, objects)
            /\ Attached(node_map, objects, flows)

\* A node is constructed: what is there stays as it is.
LEMMA ConstructKeeps ==
    ASSUME NEW O, NEW o \in Seq(O), NEW m, NEW f, NEW x, NEW a, NEW p, NEW r,
           x.address = a, Registered(m, o), Attached(m, o, f),
           p = Append(o, x), DOMAIN r = DOMAIN m \cup {a},
           \A y \in DOMAIN m : r[y] = m[y],
           a \notin DOMAIN m => r[a] = Len(o) + 1
    PROVE  Registered(r, p) /\ Attached(r, p, f)
  <1>1. /\ Len(o) \in Nat /\ DOMAIN o = 1..Len(o)
        /\ DOMAIN p = DOMAIN o \cup {Len(o) + 1} /\ Len(o) + 1 \notin DOMAIN o /\ p[Len(o) + 1] = x
        /\ \A n \in DOMAIN o : p[n] = o[n]
    BY Appended
  <1>2. \A n \in DOMAIN p : p[n].address \in DOMAIN r
    BY <1>1 DEF Registered
  <1>3. ASSUME NEW y \in DOMAIN r
        PROVE  /\ r[y] \in DOMAIN p /\ p[r[y]].address = y
               /\ \A n \in DOMAIN p : p[n].address = y => r[y] =< n
    <2>1. CASE y \in DOMAIN m
      BY <1>1, <2>1 DEF Registered
    <2>2. CASE y \notin DOMAIN m
      <3>1. y = a /\ r[y] = Len(o) + 1
        BY <2>2
      <3>2. \A n \in DOMAIN o : o[n].address # y
        BY <2>2 DEF Registered
      <3> QED BY <1>1, <3>1, <3>2
    <2> QED BY <2>1, <2>2
  <1>4. Registered(r, p)
    BY <1>2, <1>3 DEF Registered
  <1>5. \A n : Named(m, o, n) => Named(r, p, n)
    BY <1>1 DEF Named
  <1> QED BY <1>4, <1>5 DEF Attached

\* A flow is attached to two nodes that are registered.
LEMMA AttachKeeps ==
    ASSUME NEW F, NEW f \in Seq(F), NEW m, NEW o, NEW a \in DOMAIN m, NEW b \in DOMAIN m, NEW x, NEW g,
           x.source = m[a], x.destination = m[b], o[m[a]].class = "Host", o[m[b]].class = "Host",
           Registered(m, o), Attached(m, o, f), g = Append(f, x)
    PROVE  Attached(m, o, g)
  <1>1. \A n \in DOMAIN g : (n \in DOMAIN f /\ g[n] = f[n]) \/ g[n] = x
    BY Appended
  <1>2. Named(m, o, m[a]) /\ Named(m, o, m[b])
    BY DEF Registered, Named
  <1> QED BY <1>1, <1>2 DEF Attached

\* A Router, FIFONode or Host line.
LEMMA ConstructInv ==
    ASSUME NodesInv, NEW class, NEW a, NEW size, Construct(class, a, size), UNCHANGED flows
    PROVE  NodesInv'
  <1> DEFINE x == [class |-> class, address |-> Address(a), size |-> size]
             p == Append(objects, x)
             r == [y \in DOMAIN node_map \cup {Address(a)} |-> IF y \in DOMAIN node_map THEN node_map[y]
                                                               ELSE Len(objects) + 1]
  <1>1. PICK O : objects \in Seq(O)
    BY DEF NodesInv
  <1>2. objects' = p /\ x.address = Address(a)
    BY DEF Construct
  <1>3. node_map' = r
    BY DEF Construct, Register
  <1>4. Registered(node_map, objects) /\ Attached(node_map, objects, flows)
    BY DEF NodesInv
  <1>5. p \in Seq(O \cup {x})
    BY <1>1, Appended
  <1>6. Registered(r, p) /\ Attached(r, p, flows)
    <2>1. p = Append(objects, x) /\ x.address = Address(a)
      OBVIOUS
    <2>2. /\ DOMAIN r = DOMAIN node_map \cup {Address(a)}
          /\ \A y \in DOMAIN node_map : r[y] = node_map[y]
          /\ Address(a) \notin DOMAIN node_map => r[Address(a)] = Len(objects) + 1
      OBVIOUS
    <2> HIDE DEF x, p, r
    <2> QED BY <1>1, <1>4, <2>1, <2>2, ConstructKeeps
  <1> HIDE DEF p, r
  <1>7. (\E O2 : objects' \in Seq(O2)) /\ (\E F : flows' \in Seq(F))
    BY <1>2, <1>5 DEF NodesInv
  <1> QED BY <1>2, <1>3, <1>6, <1>7 DEF NodesInv

\* An FDTPFlow line with four arguments.
LEMMA FlowInv == ASSUME NodesInv, FDTPFlow PROVE NodesInv'
  <1> DEFINE a == Address(config_args'[1])
             b == Address(config_args'[2])
             x == [source |-> node_map[a], destination |-> node_map[b],
                   start |-> config_args'[3], file |-> config_args'[4]]
  <1>0. objects' = objects /\ node_map' = node_map
    BY DEF FDTPFlow
  <1>1. CASE flows' = flows
    BY <1>0, <1>1 DEF NodesInv
  <1>2. ASSUME IsHost(a), IsHost(b), flows' = Append(flows, x)
        PROVE  NodesInv'
    <2>1. /\ a \in DOMAIN node_map /\ b \in DOMAIN node_map
          /\ objects[node_map[a]].class = "Host" /\ objects[node_map[b]].class = "Host"
      BY <1>2 DEF IsHost
    <2>2. x.source = node_map[a] /\ x.destination = node_map[b]
      OBVIOUS
    <2> HIDE DEF a, b, x
    <2>3. PICK F : flows \in Seq(F)
      BY DEF NodesInv
    <2>4. Attached(node_map, objects, flows')
      BY <1>2, <2>1, <2>2, <2>3, AttachKeeps DEF NodesInv
    <2>5. flows' \in Seq(F \cup {x})
      BY <1>2, <2>3, Appended
    <2> QED BY <1>0, <2>4, <2>5 DEF NodesInv
  <1> QED BY <1>1, <1>2 DEF FDTPFlow

LEMMA NodesStep == NodesInv /\ [Next]_vars => NodesInv'
  <1> SUFFICES ASSUME NodesInv, [Next]_vars PROVE NodesInv'
    OBVIOUS
  <1>1. CASE FIFONode \/ Router \/ Host
    BY <1>1, ConstructInv DEF FIFONode, Router, Host
  <1>2. CASE FDTPFlow
    BY <1>2, FlowInv
  <1>3. CASE Link \/ Fatal \/ Unknown \/ Stop \/ UNCHANGED vars
    BY <1>3 DEF Link, Fatal, Unknown, Stop, vars, NodesInv
  <1> QED BY <1>1, <1>2, <1>3 DEF Next

LEMMA NodesInit == Init => NodesInv
  <1> SUFFICES ASSUME Init PROVE NodesInv
    OBVIOUS
  <1>1. objects = <<>> /\ flows = <<>> /\ node_map = <<>>
    BY DEF Init
  <1>2. DOMAIN <<>> = {} /\ <<>> \in Seq({})
    OBVIOUS
  <1> QED BY <1>1, <1>2 DEF NodesInv, Registered, Attached

\* What node_map says is what the order of the nodes says.
LEMMA HostLemma == ASSUME NodesInv, NEW a PROVE HostAt(a) <=> IsHost(a)
  <1>1. PICK O : objects \in Seq(O)
    BY DEF NodesInv
  <1>2. DOMAIN objects = 1..Len(objects) /\ Len(objects) \in Nat
    BY <1>1, LenProperties
  <1>3. Registered(node_map, objects)
    BY DEF NodesInv
  <1>4. ASSUME IsHost(a) PROVE HostAt(a)
    <2>1. /\ node_map[a] \in DOMAIN objects /\ objects[node_map[a]].address = a
          /\ objects[node_map[a]].class = "Host"
          /\ \A n \in DOMAIN objects : objects[n].address = a => node_map[a] =< n
      BY <1>3, <1>4 DEF IsHost, Registered
    <2>2. \A m \in 1 .. node_map[a] - 1 : m \in DOMAIN objects /\ ~ (node_map[a] =< m)
      BY <1>2, <2>1
    <2> QED BY <2>1, <2>2 DEF HostAt
  <1>5. ASSUME HostAt(a) PROVE IsHost(a)
    <2>1. PICK n \in DOMAIN objects : /\ objects[n].address = a /\ objects[n].class = "Host"
                                      /\ \A m \in 1 .. n-1 : objects[m].address # a
      BY <1>5 DEF HostAt
    <2>2. /\ a \in DOMAIN node_map /\ node_map[a] \in DOMAIN objects
          /\ objects[node_map[a]].address = a /\ node_map[a] =< n
      BY <1>3, <2>1 DEF Registered
    <2>3. node_map[a] = n
      BY <1>2, <2>1, <2>2
    <2> QED BY <2>1, <2>2, <2>3 DEF IsHost
  <1> QED BY <1>4, <1>5

---------------------------------------------------------------------------
(* The nodes are those of the file.                                        *)

NodesWritten == IsFiniteSet(NodeLines) /\ NodesAsWritten

\* A line that declares no node leaves the others where they are.
LEMMA OtherNodes ==
    ASSUME NodesWritten, UNCHANGED objects, NEW l, NEW n, Stored(l, n),
           l.id # "FIFONode", l.id \in {"Router", "Host"} => Len(l.args) # Arity[l.id]
    PROVE  NodesWritten'
  <1>1. NodeLines' = NodeLines /\ NodeLines \subseteq DOMAIN file
    BY DEF Stored, Reads, NodeLines
  <1>2. \A k \in NodeLines : file'[k] = file[k] /\ \A j \in 1..4 : Says(k, j)' = Says(k, j)
    BY <1>1 DEF Stored, Reads
  <1>3. NodesAsWritten'
    BY <1>1, <1>2 DEF NodesWritten, NodesAsWritten
  <1> QED BY <1>1, <1>3 DEF NodesWritten

\* A node that is constructed becomes the last one.
LEMMA NewNode ==
    ASSUME NodesInv, NodesWritten, NEW l, NEW n, Stored(l, n),
           l.id = "FIFONode" \/ (l.id \in {"Router", "Host"} /\ Len(l.args) = Arity[l.id]),
           Construct(l.id, config_args'[1], IF l.id = "Host" THEN MAX_QUEUE ELSE config_args'[2])
    PROVE  NodesWritten'
  <1> DEFINE Node(id, a, b) == [class |-> id, address |-> Address(a),
                                size |-> IF id = "Host" THEN MAX_QUEUE ELSE b]
             x == Node(l.id, Says(n, 1)', Says(n, 2)')
  <1>1. /\ NodeLines' = NodeLines \cup {n} /\ NodeLines \subseteq DOMAIN file
        /\ NodeLines \in SUBSET Nat /\ n \in Nat /\ \A k \in NodeLines : k < n
        /\ file'[n] = l
    BY DEF Stored, Reads, NodeLines
  <1>2. objects' = Append(objects, x)
    BY DEF Construct, Stored
  <1>3. PICK O : objects \in Seq(O)
    BY DEF NodesInv
  <1>4. /\ IsFiniteSet(NodeLines) /\ Len(objects) = Cardinality(NodeLines)
        /\ \A k \in NodeLines : objects[Place(NodeLines, k)] = Node(file[k].id, Says(k, 1), Says(k, 2))
    BY DEF NodesWritten, NodesAsWritten
  <1>5. \A k \in NodeLines : file'[k] = file[k] /\ \A j \in 1..4 : Says(k, j)' = Says(k, j)
    BY <1>1 DEF Stored, Reads
  <1> HIDE DEF x, Node
  <1>6. /\ IsFiniteSet(NodeLines') /\ Len(objects') = Cardinality(NodeLines')
        /\ objects'[Place(NodeLines', n)] = x
        /\ \A k \in NodeLines : objects'[Place(NodeLines', k)] = objects[Place(NodeLines, k)]
    <2>1. /\ Len(objects) \in Nat /\ Len(objects') = Len(objects) + 1 /\ DOMAIN objects = 1..Len(objects)
          /\ objects'[Len(objects) + 1] = x /\ \A k \in DOMAIN objects : objects'[k] = objects[k]
      BY <1>2, <1>3, Appended
    <2>2. /\ IsFiniteSet(NodeLines') /\ Cardinality(NodeLines') = Cardinality(NodeLines) + 1
          /\ Place(NodeLines', n) = Cardinality(NodeLines) + 1
          /\ \A k \in NodeLines : /\ Place(NodeLines', k) = Place(NodeLines, k)
                                 /\ Place(NodeLines, k) \in 1..Cardinality(NodeLines)
      BY <1>1, <1>4, PlacesKept
    <2> QED BY <1>4, <2>1, <2>2
  <1>7. x = Node(file'[n].id, Says(n, 1)', Says(n, 2)')
    BY <1>1 DEF x
  <1>8. ASSUME NEW k \in NodeLines'
        PROVE  objects'[Place(NodeLines', k)] = Node(file'[k].id, Says(k, 1)', Says(k, 2)')
    <2>1. CASE k = n
      BY <1>6, <1>7, <2>1
    <2>2. CASE k \in NodeLines
      <3>1. objects[Place(NodeLines, k)] = Node(file[k].id, Says(k, 1), Says(k, 2))
        BY <1>4, <2>2
      <3>2. file'[k] = file[k] /\ Says(k, 1)' = Says(k, 1) /\ Says(k, 2)' = Says(k, 2)
        BY <1>5, <2>2
      <3> QED BY <1>6, <2>2, <3>1, <3>2
    <2> QED BY <1>1, <2>1, <2>2
  <1> QED BY <1>6, <1>8 DEF NodesWritten, NodesAsWritten, Node, Address

LEMMA NodesWrittenStep == FileInv /\ NodesInv /\ NodesWritten /\ [Next]_vars => NodesWritten'
  <1> SUFFICES ASSUME FileInv, NodesInv, NodesWritten, [Next]_vars PROVE NodesWritten'
    OBVIOUS
  <1>1. CASE FIFONode
    <2>1. PICK l \in Lines, n \in Nat : l.id = "FIFONode" /\ Stored(l, n)
      BY <1>1, LineLemma DEF FIFONode
    <2> QED BY <1>1, <2>1, NewNode DEF FIFONode
  <1>2. CASE Router
    <2>1. PICK l \in Lines, n \in Nat : l.id = "Router" /\ Stored(l, n)
      BY <1>2, LineLemma DEF Router
    <2>2. Len(l.args) = Arity["Router"]
      BY <1>2, <2>1 DEF Router, Stored
    <2> QED BY <1>2, <2>1, <2>2, NewNode DEF Router
  <1>3. CASE Host
    <2>1. PICK l \in Lines, n \in Nat : l.id = "Host" /\ Stored(l, n)
      BY <1>3, LineLemma DEF Host
    <2>2. Len(l.args) = Arity["Host"]
      BY <1>3, <2>1 DEF Host, Stored
    <2> QED BY <1>3, <2>1, <2>2, NewNode DEF Host
  <1>4. CASE Link \/ FDTPFlow
    BY <1>4, LineLemma, OtherNodes DEF Link, FDTPFlow
  <1>5. CASE Fatal
    <2>1. PICK id \in {"Router", "Host", "FDTPFlow"} : Line(id) /\ Given # Arity[id] /\ UNCHANGED objects
      BY <1>5 DEF Fatal
    <2>2. PICK l \in Lines, n \in Nat : l.id = id /\ Stored(l, n)
      BY <2>1, LineLemma
    <2> QED BY <2>1, <2>2, OtherNodes DEF Stored
  <1>6. CASE Unknown
    <2>1. PICK x \in Lines : x.id \notin DOMAIN Arity /\ Line(x.id) /\ UNCHANGED objects
      BY <1>6 DEF Unknown
    <2>2. PICK l \in Lines, n \in Nat : l.id = x.id /\ Stored(l, n)
      BY <2>1, LineLemma
    <2> QED BY <2>1, <2>2, OtherNodes DEF Arity
  <1>7. CASE Stop \/ UNCHANGED vars
    BY <1>7 DEF Stop, vars, NodesWritten, NodesAsWritten, NodeLines, Says, Writers
  <1> QED BY <1>1, <1>2, <1>3, <1>4, <1>5, <1>6, <1>7 DEF Next

LEMMA NodesWrittenInit == Init => NodesWritten
  <1> SUFFICES ASSUME Init PROVE NodesWritten
    OBVIOUS
  <1>1. objects = <<>> /\ file = <<>> /\ DOMAIN <<>> = {} /\ Len(<<>>) = 0
    BY DEF Init
  <1>2. NodeLines = {}
    BY <1>1 DEF NodeLines
  <1> QED BY <1>1, <1>2, FS_EmptySet DEF NodesWritten, NodesAsWritten

---------------------------------------------------------------------------
(* The flows are those of the file.                                        *)

FlowsWritten == IsFiniteSet(FlowLines) /\ FlowsAsWritten

\* The flow that a line with the arguments l asks for.
Asked(o, f, l) == /\ o[f.source].address = Address(l[1]) /\ o[f.destination].address = Address(l[2])
                  /\ f.start = l[3] /\ f.file = l[4] /\ f.file \in FileNames

\* While lines are read, none of them was stuck.
LEMMA NotStuck ==
    ASSUME NodesInv, FlowsWritten, phase = "read"
    PROVE  /\ ~Stuck /\ IsFiniteSet(FlowLines) /\ Len(flows) = Cardinality(FlowLines)
           /\ \A k \in FlowLines : Asked(objects, flows[Place(FlowLines, k)], file[k].args)
  BY DEF FlowsWritten, FlowsAsWritten, Carried, Asked

\* A line of another command leaves the flows and their hosts as they are.
LEMMA OtherFlows ==
    ASSUME NodesInv, FlowsWritten, UNCHANGED flows, NEW l, NEW n, Stored(l, n),
           ~ (l.id = "FDTPFlow" /\ Len(l.args) = 4), phase' # "undefined",
           \A i \in DOMAIN objects : objects'[i] = objects[i]
    PROVE  FlowsWritten'
  <1>1. /\ FlowLines' = FlowLines /\ FlowLines \subseteq DOMAIN file /\ FlowLines \in SUBSET Nat
        /\ n \notin FlowLines /\ n = Len(file')
    BY DEF Stored, Reads, FlowLines
  <1>2. /\ ~Stuck /\ IsFiniteSet(FlowLines) /\ Len(flows) = Cardinality(FlowLines)
        /\ \A k \in FlowLines : Asked(objects, flows[Place(FlowLines, k)], file[k].args)
    BY NotStuck DEF Stored
  <1>3. ~Stuck' /\ Carried' = FlowLines
    BY <1>1 DEF Stuck, Carried
  <1>4. PICK F : flows \in Seq(F)
    BY DEF NodesInv
  <1>5. ASSUME NEW k \in FlowLines
        PROVE  Asked(objects', flows[Place(FlowLines, k)], file'[k].args)
    <2>1. Place(FlowLines, k) \in DOMAIN flows
      BY <1>1, <1>2, <1>4, PlaceLemma, LenProperties
    <2>2. /\ flows[Place(FlowLines, k)].source \in DOMAIN objects
          /\ flows[Place(FlowLines, k)].destination \in DOMAIN objects
      BY <2>1 DEF NodesInv, Attached, Named
    <2>3. file'[k] = file[k]
      BY <1>1 DEF Stored, Reads
    <2> QED BY <1>1, <1>2, <2>2, <2>3 DEF Asked
  <1> QED BY <1>1, <1>2, <1>3, <1>5 DEF FlowsWritten, FlowsAsWritten, Asked, Address

\* An FDTPFlow line is the last, and is carried out if it is sound.
LEMMA NewFlow ==
    ASSUME NodesInv, FlowsWritten, FDTPFlow, NEW l, NEW n, Stored(l, n), l.id = "FDTPFlow"
    PROVE  FlowsWritten'
  <1>1. Len(l.args) = 4 /\ phase = "read" /\ \A j \in 1..4 : config_args'[j] = l.args[j]
    BY DEF Stored, FDTPFlow, Arity
  <1>2. /\ FlowLines' = FlowLines \cup {n} /\ FlowLines \subseteq DOMAIN file /\ n \notin FlowLines
        /\ FlowLines \in SUBSET Nat /\ n \in Nat /\ \A k \in FlowLines : k < n
        /\ n = Len(file') /\ file'[n] = l
    BY <1>1 DEF Stored, Reads, FlowLines
  <1>3. /\ ~Stuck /\ IsFiniteSet(FlowLines) /\ Len(flows) = Cardinality(FlowLines)
        /\ \A k \in FlowLines : Asked(objects, flows[Place(FlowLines, k)], file[k].args)
    BY <1>1, NotStuck
  <1>4. objects' = objects /\ node_map' = node_map
    BY DEF FDTPFlow
  <1>5. \A k \in FlowLines : file'[k] = file[k]
    BY <1>2 DEF Stored, Reads
  <1>6. Sound(l)' <=> l.args[4] \in FileNames /\ IsHost(Address(l.args[1])) /\ IsHost(Address(l.args[2]))
    <2>1. HostAt(Address(l.args[1]))' <=> HostAt(Address(l.args[1]))
      BY <1>4 DEF HostAt, Address
    <2>2. HostAt(Address(l.args[2]))' <=> HostAt(Address(l.args[2]))
      BY <1>4 DEF HostAt, Address
    <2> QED BY <2>1, <2>2, HostLemma DEF Sound
  <1>7. Stuck' <=> ~Sound(l)'
    BY <1>2 DEF Stuck, Sound, HostAt
  <1>8. PICK F : flows \in Seq(F)
    BY DEF NodesInv
  <1>9. CASE ~Sound(l)'
    <2>1. phase' = "undefined" /\ flows' = flows
      BY <1>1, <1>6, <1>9 DEF FDTPFlow
    <2>2. Stuck' /\ Carried' = FlowLines
      BY <1>2, <1>7, <1>9 DEF Carried
    <2>3. \A k \in FlowLines : Asked(objects', flows'[Place(FlowLines, k)], file'[k].args)
      BY <1>3, <1>4, <1>5, <2>1
    <2>4. IsFiniteSet(FlowLines')
      BY <1>2, <1>3, PlacesKept
    <2> QED BY <1>3, <2>1, <2>2, <2>3, <2>4 DEF FlowsWritten, FlowsAsWritten, Asked, Address
  <1>10. CASE Sound(l)'
    <2> DEFINE x == [source |-> node_map[Address(l.args[1])], destination |-> node_map[Address(l.args[2])],
                     start |-> l.args[3], file |-> l.args[4]]
    <2>1. phase' = "read" /\ flows' = Append(flows, x)
      BY <1>1, <1>6, <1>10 DEF FDTPFlow
    <2>2. ~Stuck' /\ Carried' = FlowLines'
      BY <1>7, <1>10 DEF Carried
    <2>3. /\ objects[x.source].address = Address(l.args[1]) /\ objects[x.destination].address = Address(l.args[2])
          /\ x.start = l.args[3] /\ x.file = l.args[4] /\ x.file \in FileNames
      BY <1>6, <1>10 DEF NodesInv, Registered, IsHost
    <2> HIDE DEF x
    <2>4. /\ IsFiniteSet(FlowLines') /\ Len(flows') = Cardinality(FlowLines')
          /\ flows'[Place(FlowLines', n)] = x
          /\ \A k \in FlowLines : flows'[Place(FlowLines', k)] = flows[Place(FlowLines, k)]
      <3>1. /\ Len(flows) \in Nat /\ Len(flows') = Len(flows) + 1 /\ DOMAIN flows = 1..Len(flows)
            /\ flows'[Len(flows) + 1] = x /\ \A k \in DOMAIN flows : flows'[k] = flows[k]
        BY <1>8, <2>1, Appended
      <3>2. /\ IsFiniteSet(FlowLines') /\ Cardinality(FlowLines') = Cardinality(FlowLines) + 1
            /\ Place(FlowLines', n) = Cardinality(FlowLines) + 1
            /\ \A k \in FlowLines : /\ Place(FlowLines', k) = Place(FlowLines, k)
                                   /\ Place(FlowLines, k) \in 1..Cardinality(FlowLines)
        BY <1>2, <1>3, PlacesKept
      <3>3. Len(flows) = Cardinality(FlowLines)
        BY <1>3
      <3> QED BY <3>1, <3>2, <3>3
    <2>5. ASSUME NEW k \in FlowLines'
          PROVE  Asked(objects', flows'[Place(FlowLines', k)], file'[k].args)
      <3>1. CASE k = n
        BY <1>2, <1>4, <2>3, <2>4, <3>1 DEF Asked
      <3>2. CASE k \in FlowLines
        BY <1>3, <1>4, <1>5, <2>4, <3>2
      <3> QED BY <1>2, <3>1, <3>2
    <2> QED BY <2>1, <2>2, <2>4, <2>5 DEF FlowsWritten, FlowsAsWritten, Asked, Address
  <1> QED BY <1>9, <1>10

LEMMA FlowsWrittenStep == FileInv /\ NodesInv /\ FlowsWritten /\ [Next]_vars => FlowsWritten'
  <1> SUFFICES ASSUME FileInv, NodesInv, FlowsWritten, [Next]_vars PROVE FlowsWritten'
    OBVIOUS
  <1>1. ASSUME NEW class, NEW a, NEW size, Construct(class, a, size)
        PROVE  \A i \in DOMAIN objects : objects'[i] = objects[i]
    BY <1>1, Appended DEF Construct, NodesInv
  <1>2. CASE FIFONode \/ Router \/ Host
    <2>1. \A i \in DOMAIN objects : objects'[i] = objects[i]
      BY <1>1, <1>2 DEF FIFONode, Router, Host
    <2>2. PICK id \in {"FIFONode", "Router", "Host"} : Line(id) /\ UNCHANGED <<phase, flows>>
      BY <1>2 DEF FIFONode, Router, Host
    <2>3. PICK l \in Lines, n \in Nat : l.id = id /\ Stored(l, n)
      BY <2>2, LineLemma
    <2>4. l.id # "FDTPFlow" /\ phase' # "undefined"
      BY <2>2, <2>3 DEF Stored
    <2> QED BY <2>1, <2>2, <2>3, <2>4, OtherFlows
  <1>3. CASE Link
    <2>1. PICK l \in Lines, n \in Nat : l.id = "Link" /\ Stored(l, n)
      BY <1>3, LineLemma DEF Link
    <2>2. phase' # "undefined"
      BY <1>3, <2>1 DEF Link, Stored
    <2> QED BY <1>3, <2>1, <2>2, OtherFlows DEF Link
  <1>4. CASE FDTPFlow
    BY <1>4, LineLemma, NewFlow DEF FDTPFlow
  <1>5. CASE Fatal
    <2>1. PICK id \in {"Router", "Host", "FDTPFlow"} : Line(id) /\ Given # Arity[id]
      BY <1>5 DEF Fatal
    <2>2. PICK l \in Lines, n \in Nat : l.id = id /\ Stored(l, n)
      BY <2>1, LineLemma
    <2>3. ~ (l.id = "FDTPFlow" /\ Len(l.args) = 4)
      <3>1. Len(l.args) # Arity[id] /\ l.id = id
        BY <2>1, <2>2 DEF Stored
      <3>2. Arity["FDTPFlow"] = 4
        BY DEF Arity
      <3> QED BY <3>1, <3>2
    <2> QED BY <1>5, <2>2, <2>3, OtherFlows DEF Fatal
  <1>6. CASE Unknown
    <2>1. PICK x \in Lines : x.id \notin DOMAIN Arity /\ Line(x.id)
      BY <1>6 DEF Unknown
    <2>2. PICK l \in Lines, n \in Nat : l.id = x.id /\ Stored(l, n)
      BY <2>1, LineLemma
    <2>3. l.id # "FDTPFlow" /\ phase' # "undefined"
      BY <1>6, <2>1, <2>2 DEF Arity, Unknown, Stored
    <2> QED BY <1>6, <2>2, <2>3, OtherFlows DEF Unknown
  <1>7. CASE Stop
    <2>1. UNCHANGED <<objects, flows, file>> /\ phase = "read" /\ phase' = "run"
      BY <1>7 DEF Stop
    <2>2. (Stuck' <=> Stuck) /\ Carried' = Carried /\ FlowLines' = FlowLines
      BY <2>1 DEF Stuck, Carried, FlowLines, Sound, HostAt
    <2>3. ~Stuck
      BY <2>1, NotStuck
    <2> QED BY <2>1, <2>2, <2>3 DEF FlowsWritten, FlowsAsWritten
  <1>8. CASE UNCHANGED vars
    <2>1. UNCHANGED <<objects, flows, file, phase>>
      BY <1>8 DEF vars
    <2>2. (Stuck' <=> Stuck) /\ Carried' = Carried /\ FlowLines' = FlowLines
      BY <2>1 DEF Stuck, Carried, FlowLines, Sound, HostAt
    <2> QED BY <2>1, <2>2 DEF FlowsWritten, FlowsAsWritten
  <1> QED BY <1>2, <1>3, <1>4, <1>5, <1>6, <1>7, <1>8 DEF Next

LEMMA FlowsWrittenInit == Init => FlowsWritten
  <1> SUFFICES ASSUME Init PROVE FlowsWritten
    OBVIOUS
  <1>1. flows = <<>> /\ file = <<>> /\ phase = "read" /\ DOMAIN <<>> = {} /\ Len(<<>>) = 0
    BY DEF Init
  <1>2. FlowLines = {}
    BY <1>1 DEF FlowLines
  <1>3. ~Stuck /\ Carried = {}
    BY <1>2 DEF Stuck, Carried
  <1> QED BY <1>1, <1>2, <1>3, FS_EmptySet DEF FlowsWritten, FlowsAsWritten

---------------------------------------------------------------------------
(* Values.                                                                 *)

LEMMA AddressLemma == \A n \in Int : Address(n) \in 0 .. AddressLimit-1
  BY AddressAssumption DEF Address

ValuesInv ==
    /\ \A n \in DOMAIN objects : /\ objects[n].class \in {"FIFONode", "Router", "Host"}
                                 /\ objects[n].address \in 0 .. AddressLimit-1
    /\ \A k \in DOMAIN links : links[k][1] \in 0 .. AddressLimit-1 /\ links[k][2] \in 0 .. AddressLimit-1

LEMMA ConstructValues ==
    ASSUME FileInv, NodesInv, ValuesInv, UNCHANGED links,
           NEW id \in {"FIFONode", "Router", "Host"}, Line(id), NEW size,
           Construct(id, config_args'[1], size)
    PROVE  ValuesInv'
  <1>1. config_args'[1] \in Int
    BY LineLemma DEF Stored
  <1> DEFINE x == [class |-> id, address |-> Address(config_args'[1]), size |-> size]
  <1>2. PICK O : objects \in Seq(O)
    BY DEF NodesInv
  <1>3. objects' = Append(objects, x) /\ x.class = id /\ x.address \in 0 .. AddressLimit-1
    BY <1>1, AddressLemma DEF Construct
  <1> HIDE DEF x
  <1>4. \A n \in DOMAIN objects' : (n \in DOMAIN objects /\ objects'[n] = objects[n]) \/ objects'[n] = x
    BY <1>2, <1>3, Appended
  <1> QED BY <1>3, <1>4 DEF ValuesInv

LEMMA LinkValues ==
    ASSUME FileInv, LinksInv, ValuesInv, Link
    PROVE  ValuesInv'
  <1>1. config_args'[1] \in Int /\ config_args'[2] \in Int
    BY LineLemma DEF Stored, Link
  <1> DEFINE x == <<Address(config_args'[1]), Address(config_args'[2]), config_args'[3], config_args'[4]>>
  <1>2. PICK L : links \in Seq(L)
    BY DEF LinksInv
  <1>3. /\ links' = Append(links, x) /\ objects' = objects
        /\ x[1] \in 0 .. AddressLimit-1 /\ x[2] \in 0 .. AddressLimit-1
    BY <1>1, AddressLemma DEF Link
  <1> HIDE DEF x
  <1>4. \A n \in DOMAIN links' : (n \in DOMAIN links /\ links'[n] = links[n]) \/ links'[n] = x
    BY <1>2, <1>3, Appended
  <1> QED BY <1>3, <1>4 DEF ValuesInv

LEMMA ValuesStep == FileInv /\ NodesInv /\ LinksInv /\ ValuesInv /\ [Next]_vars => ValuesInv'
  <1> SUFFICES ASSUME FileInv, NodesInv, LinksInv, ValuesInv, [Next]_vars PROVE ValuesInv'
    OBVIOUS
  <1>1. CASE FIFONode
    BY <1>1, ConstructValues DEF FIFONode
  <1>2. CASE Router
    BY <1>2, ConstructValues DEF Router
  <1>3. CASE Host
    BY <1>3, ConstructValues DEF Host
  <1>4. CASE Link
    BY <1>4, LinkValues
  <1>5. CASE FDTPFlow \/ Fatal \/ Unknown \/ Stop \/ UNCHANGED vars
    BY <1>5 DEF FDTPFlow, Fatal, Unknown, Stop, vars, ValuesInv
  <1> QED BY <1>1, <1>2, <1>3, <1>4, <1>5 DEF Next

LEMMA ValuesInit == Init => ValuesInv
  BY DEF Init, ValuesInv

---------------------------------------------------------------------------
(* The properties.                                                         *)

\* Whatever lines a file has, and in whatever order, however often it declares
\* an address: a flow belongs to the Host objects that Scheduler finds for its
\* packets.
THEOREM FlowsFindTheirHosts == Spec => []FlowsMeetTheirPackets
  <1>1. NodesInv => FlowsMeetTheirPackets
    BY DEF NodesInv, Attached, Named, FlowsMeetTheirPackets
  <1> QED BY <1>1, NodesInit, NodesStep, PTL DEF Spec

\* Whatever lines a file has, short ones included, and whatever the memory held:
\* the links, nodes and flows are those of the lines, each with the arguments
\* that its line, or else the nearest line before it, gave in their places; and
\* the program goes astray on a line for a flow that cannot be carried out, and
\* on no other.
THEOREM BuiltFromTheLines == Spec => []BuiltAsWritten
  <1>1. LinksInv /\ NodesWritten /\ FlowsWritten => BuiltAsWritten
    BY DEF LinksInv, NodesWritten, FlowsWritten, BuiltAsWritten
  <1> QED BY <1>1, FileInit, FileStep, NodesInit, NodesStep, LinksInit, LinksStep, NodesWrittenInit,
             NodesWrittenStep, FlowsWrittenInit, FlowsWrittenStep, PTL DEF Spec

\* The types, whatever lines a file has.
THEOREM TypeCorrect == Spec => []TypeOK
  <1>1. FileInv /\ NodesInv /\ ValuesInv => TypeOK
    BY DEF FileInv, NodesInv, ValuesInv, Registered, Attached, Named, TypeOK, Arguments
  <1> QED BY <1>1, FileInit, FileStep, NodesInit, NodesStep, LinksInit, LinksStep, ValuesInit,
             ValuesStep, PTL DEF Spec
=============================================================================
