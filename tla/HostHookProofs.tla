---------------------------- MODULE HostHookProofs ---------------------------
(* Theorems about HostHook, for any finite sets of threads and nodes and any *)
(* hash function. Three things are proved of the unlocked table. Pointers    *)
(* lead to nodes that were filled in, whatever threads do. A chain is a row  *)
(* of nodes (Listed) and what a walk found is still true when it is used,    *)
(* until two updates of a chain overlap. And a descriptor has as many nodes  *)
(* as its opens and pending calls account for, which gives the routing.      *)
EXTENDS HostHook, FiniteSetTheorems, WellFoundedInduction, TLAPS

(* Every set of natural numbers has a least one. *)
LEMMA LeastNumber ==
  ASSUME NEW S \in SUBSET Nat, S # {}
  PROVE  \E x \in S : \A y \in S : x <= y
<1>1. PICK x \in S : \A y \in S : <<y, x>> \notin OpToRel(<, Nat)
  BY NatLessThanWellFounded, WFMin, Zenon
<1>2. ASSUME NEW y \in S PROVE x <= y
  <2>1. x \in Nat /\ y \in Nat OBVIOUS
  <2>2. ~(y < x) BY <1>1, <2>1 DEF OpToRel
  <2>. QED BY SMT, <2>1, <2>2
<1>. QED BY <1>2

(* The walk is the function that its recursive definition describes. *)
Places(f, first, nodes) ==
  /\ f[0] = first
  /\ \A k \in DOMAIN f \ {0} :
       f[k] = IF f[k - 1] \in Node THEN nodes[f[k - 1]].next ELSE f[k - 1]

IsTable(f, n) == f = [k \in 0 .. n |-> f[k]]

(* There are finitely many nodes. *)
LEMMA NodeCount == Cardinality(Node) \in Nat
BY HookAssumption, FS_CardinalityType, Zenon

(* The recursive definition of the walk has a solution, whatever the links   *)
(* are.                                                                      *)
LEMMA WalkExists ==
  ASSUME NEW first, NEW nodes, NEW n \in Nat
  PROVE  \E f : DOMAIN f = 0 .. n /\ Places(f, first, nodes) /\ IsTable(f, n)
<1>. DEFINE P(k, f) == DOMAIN f = 0 .. k /\ Places(f, first, nodes) /\ IsTable(f, k)
            Bad == {k \in Nat : ~\E f : P(k, f)}
<1>1. SUFFICES ASSUME Bad # {} PROVE FALSE OBVIOUS
<1>2. PICK k \in Bad : \A j \in Bad : k <= j BY <1>1, LeastNumber, Zenon
<1>3. k \in Nat /\ ~\E f : P(k, f) OBVIOUS
<1>4. CASE k = 0
  <2>. DEFINE f == [i \in 0 .. 0 |-> first]
  <2>1. DOMAIN f = 0 .. 0 /\ f[0] = first /\ \A i \in DOMAIN f : i = 0 OBVIOUS
  <2>2. Places(f, first, nodes) BY <2>1 DEF Places
  <2>3. IsTable(f, 0) BY DEF IsTable
  <2>4. P(0, f) BY <2>1, <2>2, <2>3
  <2>. QED BY <1>3, <1>4, <2>4
<1>5. CASE k # 0
  <2>1. k - 1 \in Nat /\ ~(k <= k - 1) BY <1>3, <1>5
  <2>2. k - 1 \notin Bad BY <1>2, <2>1
  <2>3. PICK g : P(k - 1, g) BY <2>1, <2>2
  <2>. DEFINE v == IF g[k - 1] \in Node THEN nodes[g[k - 1]].next ELSE g[k - 1]
              f == [i \in 0 .. k |-> IF i = k THEN v ELSE g[i]]
  <2>4. DOMAIN g = 0 .. (k - 1) /\ Places(g, first, nodes) BY <2>3
  <2>. HIDE DEF v
  <2>5. DOMAIN f = 0 .. k /\ IsTable(f, k) BY DEF IsTable
  <2>6. f[0] = first BY <1>3, <1>5, <2>4 DEF Places
  <2>7. ASSUME NEW i \in DOMAIN f \ {0}
        PROVE  f[i] = IF f[i - 1] \in Node THEN nodes[f[i - 1]].next ELSE f[i - 1]
    <3>1. i \in 1 .. k BY <1>3
    <3>2. f[i - 1] = g[i - 1] BY <1>3, <3>1
    <3>3. CASE i = k BY <3>1, <3>2, <3>3, <1>3 DEF v
    <3>4. CASE i # k
      <4>1. i \in DOMAIN g \ {0} /\ f[i] = g[i] BY <3>1, <3>4, <1>3, <2>4
      <4>. QED BY <4>1, <3>2, <2>4 DEF Places
    <3>. QED BY <3>3, <3>4
  <2>8. Places(f, first, nodes)
    <3>. HIDE DEF f
    <3>. QED BY <2>6, <2>7 DEF Places
  <2>. HIDE DEF f
  <2>9. P(k, f) BY <2>5, <2>8
  <2>. QED BY <1>3, <2>9
<1>. QED BY <1>4, <1>5

(* The walk starts at its first node and follows the links                   *)
(* (fd_insertByValue).                                                       *)
LEMMA WalkPlaces ==
  ASSUME NEW first, NEW nodes
  PROVE  /\ DOMAIN Walk(first, nodes) = 0 .. Cardinality(Node)
         /\ Places(Walk(first, nodes), first, nodes)
<1>. DEFINE N == Cardinality(Node)
            F(f) == [k \in 0 .. N |-> IF k = 0 THEN first
                       ELSE IF f[k - 1] \in Node THEN nodes[f[k - 1]].next ELSE f[k - 1]]
<1>1. N \in Nat BY NodeCount
<1>2. PICK f : DOMAIN f = 0 .. N /\ Places(f, first, nodes) /\ IsTable(f, N)
  BY <1>1, WalkExists, Zenon
<1>3. f = F(f)
  <2>1. ASSUME NEW k \in 0 .. N PROVE f[k] = F(f)[k]
    BY <1>2 DEF Places
  <2>. QED BY <1>2, <2>1 DEF IsTable
<1>4. Walk(first, nodes) = CHOOSE g : g = F(g) BY Zenon DEF Walk
<1>5. PICK w : w = Walk(first, nodes) OBVIOUS
<1>6. w = F(w) BY <1>3, <1>4, <1>5
<1>. HIDE DEF N
<1>7. DOMAIN w = 0 .. N BY <1>6
<1>8. w[0] = first BY <1>1, <1>6
<1>9. ASSUME NEW k \in 0 .. N, k # 0
      PROVE  w[k] = IF w[k - 1] \in Node THEN nodes[w[k - 1]].next ELSE w[k - 1]
  BY <1>6, <1>9
<1>. QED BY <1>5, <1>7, <1>8, <1>9 DEF Places, N

(* The row that makes Listed true. *)
Row(first, nodes, m, s) ==
  /\ s \in [1 .. m -> Node] /\ IsInjective(s)
  /\ first = IF m = 0 THEN NULL ELSE s[1]
  /\ \A i \in 1 .. m : nodes[s[i]].next = IF i = m THEN NULL ELSE s[i + 1]

(* A list of nodes is a row of them without repetition, linked in order. *)
LEMMA RowOfListed ==
  ASSUME NEW first, NEW nodes, NEW members, Listed(first, nodes, members)
  PROVE  \E m \in Nat : m <= Cardinality(Node)
           /\ \E s : Row(first, nodes, m, s) /\ members = Range(s)
<1>1. PICK m \in 0 .. Cardinality(Node) : \E s \in [1 .. m -> Node] :
        Row(first, nodes, m, s) /\ members = Range(s)
  BY Zenon DEF Listed, Row
<1>. QED BY <1>1, NodeCount

(* A row is no longer than there are nodes. *)
LEMMA ListedOfRow ==
  ASSUME NEW first, NEW nodes, NEW m \in Nat, NEW s, Row(first, nodes, m, s)
  PROVE  Listed(first, nodes, Range(s))
<1>1. s \in Injection(1 .. m, Node) BY DEF Row, Injection
<1>2. Cardinality(1 .. m) <= Cardinality(Node) BY <1>1, HookAssumption, FS_Injection
<1>3. Cardinality(1 .. m) = m
  <2>1. 1 \in Int /\ m \in Int /\ (IF 1 > m THEN 0 ELSE m - 1 + 1) = m OBVIOUS
  <2>. QED BY <2>1, FS_Interval
<1>4. m \in 0 .. Cardinality(Node) BY <1>2, <1>3, NodeCount
<1>. QED BY <1>4, Zenon DEF Listed, Row

(* The walk along a row passes its members one by one and then stays at      *)
(* NULL.                                                                     *)
LEMMA RowWalk ==
  ASSUME NEW first, NEW nodes, NEW m \in Nat, NEW s, Row(first, nodes, m, s),
         m <= Cardinality(Node), NEW k \in 0 .. Cardinality(Node)
  PROVE  Walk(first, nodes)[k] = IF k < m THEN s[k + 1] ELSE NULL
<1>. DEFINE Bad == {j \in 0 .. Cardinality(Node) :
                      Walk(first, nodes)[j] # IF j < m THEN s[j + 1] ELSE NULL}
<1>1. SUFFICES ASSUME Bad # {} PROVE FALSE OBVIOUS
<1>2. PICK j \in Bad : \A i \in Bad : j <= i
  <2>1. Bad \in SUBSET Nat BY NodeCount
  <2>. HIDE DEF Bad
  <2>. QED BY <1>1, <2>1, LeastNumber, Zenon
<1>3. PICK w : w = Walk(first, nodes) OBVIOUS
<1>4. /\ w[0] = first
      /\ \A i \in 0 .. Cardinality(Node) : i # 0 =>
           w[i] = IF w[i - 1] \in Node THEN nodes[w[i - 1]].next ELSE w[i - 1]
  <2>1. DOMAIN w = 0 .. Cardinality(Node) /\ Places(w, first, nodes)
    BY <1>3, WalkPlaces, Zenon
  <2>. QED BY <2>1 DEF Places
<1>5. j \in Nat /\ j <= Cardinality(Node) /\ w[j] # IF j < m THEN s[j + 1] ELSE NULL
  BY <1>3, NodeCount
<1>6. CASE j = 0 BY <1>4, <1>5, <1>6 DEF Row
<1>7. CASE j # 0
  <2>1. j - 1 \in 0 .. Cardinality(Node) /\ ~(j <= j - 1) BY <1>5, <1>7, NodeCount
  <2>2. j - 1 \notin Bad BY <1>2, <2>1
  <2>3. w[j - 1] = IF j - 1 < m THEN s[(j - 1) + 1] ELSE NULL BY <1>3, <2>1, <2>2
  <2>4. w[j] = IF w[j - 1] \in Node THEN nodes[w[j - 1]].next ELSE w[j - 1]
    BY <1>4, <1>5, <1>7, NodeCount
  <2>5. (j - 1) + 1 = j BY <1>5
  <2>6. CASE j - 1 < m
    <3>1. j \in 1 .. m BY <1>5, <1>7, <2>6
    <3>2. w[j - 1] = s[j] /\ s[j] \in Node BY <2>3, <2>5, <2>6, <3>1 DEF Row
    <3>3. w[j] = IF j = m THEN NULL ELSE s[j + 1] BY <2>4, <3>1, <3>2 DEF Row
    <3>. QED BY <1>5, <3>1, <3>3
  <2>7. CASE ~(j - 1 < m)
    <3>1. w[j - 1] = NULL /\ NULL \notin Node BY <2>3, <2>7, HookAssumption
    <3>2. ~(j < m) BY <1>5, <2>7
    <3>. QED BY <1>5, <2>4, <3>1, <3>2
  <2>. QED BY <2>6, <2>7
<1>. QED BY <1>6, <1>7

(* The walk along a row ends and has passed its members and nothing else. *)
Members(first, nodes) == Range(Walk(first, nodes)) \cap Node

(* The members of a chain are the nodes of its walk. *)
LEMMA ListedWalk ==
  ASSUME NEW first, NEW nodes, NEW members, Listed(first, nodes, members)
  PROVE  /\ Members(first, nodes) = members
         /\ Walk(first, nodes)[Cardinality(Node)] = NULL
<1>1. PICK m \in Nat : m <= Cardinality(Node)
        /\ \E s : Row(first, nodes, m, s) /\ members = Range(s)
  BY RowOfListed
<1>2. PICK s : Row(first, nodes, m, s) /\ members = Range(s) BY <1>1
<1>3. PICK w : w = Walk(first, nodes) OBVIOUS
<1>4. PICK N \in Nat : N = Cardinality(Node) BY NodeCount
<1>5. DOMAIN w = 0 .. N BY <1>3, <1>4, WalkPlaces
<1>6. \A k \in 0 .. N : w[k] = IF k < m THEN s[k + 1] ELSE NULL
  BY <1>1, <1>2, <1>3, <1>4, RowWalk
<1>7. DOMAIN s = 1 .. m /\ \A i \in 1 .. m : s[i] \in Node BY <1>2 DEF Row
<1>8. ASSUME NEW n \in Range(w) \cap Node PROVE n \in Range(s)
  <2>1. PICK k \in 0 .. N : n = w[k] BY <1>5 DEF Range
  <2>2. k < m /\ n = s[k + 1] BY <1>6, <2>1, HookAssumption
  <2>3. k + 1 \in 1 .. m BY <2>2
  <2>. QED BY <1>7, <2>2, <2>3 DEF Range
<1>9. ASSUME NEW n \in Range(s) PROVE n \in Range(w) \cap Node
  <2>1. PICK i \in 1 .. m : n = s[i] BY <1>7 DEF Range
  <2>2. i - 1 \in 0 .. N /\ i - 1 < m /\ (i - 1) + 1 = i BY <1>1, <1>4
  <2>3. w[i - 1] = n BY <1>6, <2>1, <2>2
  <2>. QED BY <1>5, <1>7, <2>1, <2>2, <2>3 DEF Range
<1>10. w[N] = NULL BY <1>1, <1>4, <1>6
<1>. QED BY <1>2, <1>3, <1>4, <1>8, <1>9, <1>10 DEF Members

(* Where a row begins, how it goes on and that it has an end *)
LEMMA ListedShape ==
  ASSUME NEW first, NEW nodes, NEW members, Listed(first, nodes, members)
  PROVE  /\ members \subseteq Node
         /\ first = NULL => members = {}
         /\ first # NULL => first \in members
         /\ first # NULL => \E p \in members : nodes[p].next = NULL
         /\ first # NULL => first \in Node
<1>1. PICK m \in Nat : m <= Cardinality(Node)
        /\ \E s : Row(first, nodes, m, s) /\ members = Range(s)
  BY RowOfListed
<1>2. PICK s : Row(first, nodes, m, s) /\ members = Range(s) BY <1>1
<1>3. /\ DOMAIN s = 1 .. m /\ \A i \in 1 .. m : s[i] \in Node
      /\ first = IF m = 0 THEN NULL ELSE s[1]
      /\ \A i \in 1 .. m : nodes[s[i]].next = IF i = m THEN NULL ELSE s[i + 1]
  BY <1>2 DEF Row
<1>4. members \subseteq Node /\ \A i \in 1 .. m : s[i] \in members
  BY <1>2, <1>3 DEF Range
<1>5. CASE m = 0
  <2>1. Range(s) = {} BY <1>3, <1>5 DEF Range
  <2>. QED BY <1>2, <1>3, <1>5, <2>1
<1>6. CASE m # 0
  <2>1. 1 \in 1 .. m /\ m \in 1 .. m BY <1>6
  <2>2. first \in Node /\ first \in members /\ nodes[s[m]].next = NULL /\ s[m] \in members
    BY <1>3, <1>4, <1>6, <2>1
  <2>. QED BY <1>4, <2>2, HookAssumption
<1>. QED BY <1>5, <1>6

(* A row is not disturbed by changes of other nodes. *)
LEMMA ListedSame ==
  ASSUME NEW first, NEW nodes, NEW members, Listed(first, nodes, members), NEW other,
         \A n \in members : other[n].next = nodes[n].next
  PROVE  Listed(first, other, members)
<1>1. PICK m \in Nat : m <= Cardinality(Node)
        /\ \E s : Row(first, nodes, m, s) /\ members = Range(s)
  BY RowOfListed
<1>2. PICK s : Row(first, nodes, m, s) /\ members = Range(s) BY <1>1
<1>3. \A i \in 1 .. m : s[i] \in members BY <1>2 DEF Row, Range
<1>4. Row(first, other, m, s) BY <1>2, <1>3 DEF Row
<1>. QED BY <1>2, <1>4, ListedOfRow

(* The first node of an empty chain *)
LEMMA ListedFirst ==
  ASSUME NEW n \in Node, NEW nodes, nodes[n].next = NULL
  PROVE  Listed(n, nodes, {n})
<1>. DEFINE s == [i \in 1 .. 1 |-> n]
<1>1. s \in [1 .. 1 -> Node] /\ s[1] = n /\ Range(s) = {n} BY DEF Range
<1>2. IsInjective(s) BY DEF IsInjective
<1>3. Row(n, nodes, 1, s) BY <1>1, <1>2 DEF Row
<1>. HIDE DEF s
<1>. QED BY <1>1, <1>3, ListedOfRow

(* A node is linked after the last one: it becomes the last of the row. *)
Appends(nodes, other, members, p, n) ==
  /\ p \in members /\ nodes[p].next = NULL /\ n \in Node /\ n \notin members
  /\ other[p].next = n /\ other[n].next = NULL
  /\ \A x \in members : x # p => other[x].next = nodes[x].next

LongerRow(first, other, m, s, n) ==
  \E r : /\ Row(first, other, m + 1, r) /\ Range(r) = Range(s) \cup {n}
        /\ r[m + 1] = n /\ \A i \in 1 .. m : r[i] = s[i]

(* A row that is appended to is one longer. *)
LEMMA RowAppend ==
  ASSUME NEW first, NEW nodes, NEW m \in Nat, NEW s, Row(first, nodes, m, s),
         NEW p, NEW n, NEW other, Appends(nodes, other, Range(s), p, n)
  PROVE  LongerRow(first, other, m, s, n)
<1>1. PICK members : members = Range(s) OBVIOUS
<1>2. PICK r : r = [i \in 1 .. (m + 1) |-> IF i = m + 1 THEN n ELSE s[i]] OBVIOUS
<1>. USE DEF Appends
<1>3. /\ s \in [1 .. m -> Node] /\ first = IF m = 0 THEN NULL ELSE s[1]
      /\ \A i \in 1 .. m : nodes[s[i]].next = IF i = m THEN NULL ELSE s[i + 1]
  BY DEF Row
<1>4. \A i \in 1 .. m : s[i] \in members /\ s[i] # n BY <1>1, <1>3 DEF Range
<1>5. PICK l \in 1 .. m : p = s[l] BY <1>3 DEF Range
<1>6. l = m
  <2>1. SUFFICES ASSUME l # m PROVE FALSE OBVIOUS
  <2>2. l + 1 \in 1 .. m BY <2>1
  <2>3. s[l + 1] = NULL BY <1>3, <1>5, <2>1
  <2>. QED BY <1>3, <2>2, <2>3, HookAssumption
<1>7. \A i, j \in 1 .. m : s[i] = s[j] => i = j BY <1>3 DEF Row, IsInjective
<1>8. r \in [1 .. (m + 1) -> Node] /\ r[m + 1] = n /\ DOMAIN r = 1 .. (m + 1)
      /\ \A i \in 1 .. m : r[i] = s[i]
  BY <1>2, <1>3
<1>9. \A i \in 1 .. (m + 1) : i = m + 1 \/ i \in 1 .. m OBVIOUS
<1>10. IsInjective(r)
  <2>1. ASSUME NEW i \in 1 .. (m + 1), NEW j \in 1 .. (m + 1), r[i] = r[j] PROVE i = j
    BY <2>1, <1>4, <1>7, <1>8, <1>9
  <2>. QED BY <2>1, <1>8 DEF IsInjective
<1>11. Range(r) = members \cup {n}
  <2>1. ASSUME NEW x \in Range(r) PROVE x \in members \cup {n}
    BY <1>4, <1>8, <1>9 DEF Range
  <2>2. ASSUME NEW x \in members PROVE x \in Range(r)
    <3>1. PICK i \in 1 .. m : x = s[i] BY <1>1, <1>3 DEF Range
    <3>2. i \in 1 .. (m + 1) BY <3>1
    <3>. QED BY <1>8, <3>1, <3>2 DEF Range
  <2>3. n \in Range(r)
    <3>1. m + 1 \in 1 .. (m + 1) OBVIOUS
    <3>. QED BY <3>1, <1>8 DEF Range
  <2>. QED BY <2>1, <2>2, <2>3
<1>12. ASSUME NEW i \in 1 .. (m + 1)
       PROVE  other[r[i]].next = IF i = m + 1 THEN NULL ELSE r[i + 1]
  <2>1. CASE i = m + 1 BY <1>8, <2>1
  <2>2. CASE i = m
    <3>1. r[i] = p /\ i # m + 1 /\ i + 1 = m + 1 BY <1>5, <1>6, <1>8, <2>2
    <3>. QED BY <1>8, <3>1
  <2>3. CASE i # m /\ i # m + 1
    <3>1. i \in 1 .. m /\ i + 1 \in 1 .. m BY <2>3
    <3>2. r[i] = s[i] /\ s[i] \in members /\ s[i] # p /\ r[i + 1] = s[i + 1]
      BY <1>4, <1>5, <1>6, <1>7, <1>8, <2>3, <3>1
    <3>. QED BY <1>1, <1>3, <2>3, <3>1, <3>2
  <2>. QED BY <2>1, <2>2, <2>3
<1>13. first = r[1]
  <2>1. m # 0 /\ 1 \in 1 .. m BY <1>5
  <2>. QED BY <1>3, <1>8, <2>1
<1>14. m + 1 \in Nat /\ m + 1 # 0 OBVIOUS
<1>15. Row(first, other, m + 1, r) BY <1>8, <1>10, <1>12, <1>13, <1>14 DEF Row
<1>. QED BY <1>1, <1>8, <1>11, <1>15, Zenon DEF LongerRow

(* The members of a chain after an insert *)
LEMMA ListedAppend ==
  ASSUME NEW first, NEW nodes, NEW members, Listed(first, nodes, members),
         NEW p, NEW n, NEW other, Appends(nodes, other, members, p, n)
  PROVE  Listed(first, other, members \cup {n})
<1>1. PICK m \in Nat : m <= Cardinality(Node)
        /\ \E s : Row(first, nodes, m, s) /\ members = Range(s)
  BY RowOfListed
<1>2. PICK s : Row(first, nodes, m, s) /\ members = Range(s) BY <1>1
<1>3. Appends(nodes, other, Range(s), p, n) BY <1>2
<1>4. PICK r : Row(first, other, m + 1, r) /\ Range(r) = Range(s) \cup {n}
  <2>1. LongerRow(first, other, m, s, n) BY <1>2, <1>3, RowAppend
  <2>. QED BY <2>1 DEF LongerRow
<1>5. m + 1 \in Nat OBVIOUS
<1>. QED BY <1>2, <1>4, <1>5, ListedOfRow

(* A node is taken out of a row: the head or the node before it gets its     *)
(* link, and the others keep their order.                                    *)
Removes(first, nodes, begin, other, members, p, n) ==
  /\ IF p = NULL THEN first = n /\ begin = nodes[n].next
     ELSE p \in members /\ nodes[p].next = n /\ begin = first
          /\ other[p].next = nodes[n].next
  /\ \A x \in members : x # n /\ x # p => other[x].next = nodes[x].next

ShorterRow(begin, other, m, s, l) ==
  \E r : /\ Row(begin, other, m - 1, r) /\ Range(r) = Range(s) \ {s[l]}
        /\ \A i \in 1 .. (m - 1) : r[i] = IF i < l THEN s[i] ELSE s[i + 1]

(* A row that loses a node is one shorter. *)
LEMMA RowRemove ==
  ASSUME NEW first, NEW nodes, NEW m \in Nat, NEW s, Row(first, nodes, m, s),
         NEW l \in 1 .. m, NEW n, n = s[l], NEW begin, NEW other, NEW p,
         Removes(first, nodes, begin, other, Range(s), p, n)
  PROVE  ShorterRow(begin, other, m, s, l)
<1>1. PICK members : members = Range(s) OBVIOUS
<1>2. PICK r : r = [i \in 1 .. (m - 1) |-> IF i < l THEN s[i] ELSE s[i + 1]] OBVIOUS
<1>. USE DEF Removes
<1>3. /\ s \in [1 .. m -> Node] /\ first = IF m = 0 THEN NULL ELSE s[1]
      /\ \A i \in 1 .. m : nodes[s[i]].next = IF i = m THEN NULL ELSE s[i + 1]
  BY DEF Row
<1>4. \A i \in 1 .. m : s[i] \in members /\ s[i] # NULL
  BY <1>1, <1>3, HookAssumption DEF Range
<1>5. n = s[l] OBVIOUS
<1>6. \A i, j \in 1 .. m : s[i] = s[j] => i = j BY <1>3 DEF Row, IsInjective
<1>7. CASE (p = NULL /\ l = 1) \/ (p # NULL /\ l > 1 /\ p = s[l - 1])
  <2>1. /\ DOMAIN r = 1 .. (m - 1) /\ r \in [1 .. (m - 1) -> Node]
        /\ \A i \in 1 .. (m - 1) : r[i] = IF i < l THEN s[i] ELSE s[i + 1]
    <3>1. \A i \in 1 .. (m - 1) : i \in 1 .. m /\ i + 1 \in 1 .. m OBVIOUS
    <3>. QED BY <1>2, <1>3, <3>1
  <2>2. \A i \in 1 .. (m - 1) : i \in 1 .. m /\ i + 1 \in 1 .. m OBVIOUS
  <2>3. IsInjective(r)
    <3>1. ASSUME NEW i \in 1 .. (m - 1), NEW j \in 1 .. (m - 1), r[i] = r[j] PROVE i = j
      BY <1>6, <2>1, <2>2, <3>1
    <3>. QED BY <2>1, <3>1 DEF IsInjective
  <2>4. Range(r) = members \ {n}
    <3>1. ASSUME NEW x \in Range(r) PROVE x \in members \ {n}
      <4>1. PICK i \in 1 .. (m - 1) : x = r[i] BY <2>1 DEF Range
      <4>. QED BY <1>4, <1>5, <1>6, <2>1, <2>2, <4>1
    <3>2. ASSUME NEW x \in members \ {n} PROVE x \in Range(r)
      <4>1. PICK i \in 1 .. m : x = s[i] BY <1>1, <1>3 DEF Range
      <4>2. i # l BY <1>5, <4>1
      <4>3. CASE i < l
        <5>1. i \in 1 .. (m - 1) /\ r[i] = x BY <2>1, <4>1, <4>3
        <5>. QED BY <2>1, <5>1 DEF Range
      <4>4. CASE i > l
        <5>1. i - 1 \in 1 .. (m - 1) /\ ~(i - 1 < l) /\ (i - 1) + 1 = i BY <4>4
        <5>2. r[i - 1] = x BY <2>1, <4>1, <5>1
        <5>. QED BY <2>1, <5>1, <5>2 DEF Range
      <4>. QED BY <4>2, <4>3, <4>4
    <3>. QED BY <3>1, <3>2
  <2>5. ASSUME NEW i \in 1 .. (m - 1)
        PROVE  other[r[i]].next = IF i = m - 1 THEN NULL ELSE r[i + 1]
    <3>1. CASE i < l - 1
      <4>1. i \in 1 .. m /\ i + 1 \in 1 .. (m - 1) /\ i + 1 < l /\ i # m BY <3>1
      <4>2. r[i] = s[i] /\ r[i + 1] = s[i + 1] BY <2>1, <3>1, <4>1
      <4>3. s[i] # n /\ s[i] # p /\ s[i] \in members
        BY <1>4, <1>5, <1>6, <1>7, <3>1, <4>1
      <4>4. nodes[s[i]].next = s[i + 1] BY <1>3, <4>1
      <4>. QED BY <1>1, <4>1, <4>2, <4>3, <4>4
    <3>2. CASE i = l - 1
      <4>1. p # NULL /\ p = s[i] /\ r[i] = p /\ l \in 1 .. m BY <1>7, <2>1, <3>2
      <4>2. other[p].next = nodes[s[l]].next BY <1>5, <4>1
      <4>3. other[p].next = IF l = m THEN NULL ELSE s[l + 1] BY <1>3, <4>1, <4>2
      <4>4. i # m - 1 => i + 1 \in 1 .. (m - 1) /\ r[i + 1] = s[l + 1] BY <2>1, <3>2
      <4>. QED BY <3>2, <4>1, <4>3, <4>4
    <3>3. CASE i > l - 1
      <4>1. i + 1 \in 1 .. m /\ ~(i < l) /\ i + 1 # l /\ i + 1 # l - 1 BY <3>3
      <4>2. r[i] = s[i + 1] BY <2>1, <4>1
      <4>3. s[i + 1] # n /\ s[i + 1] # p /\ s[i + 1] \in members
        BY <1>4, <1>5, <1>6, <1>7, <4>1
      <4>4. nodes[s[i + 1]].next = IF i + 1 = m THEN NULL ELSE s[(i + 1) + 1]
        BY <1>3, <4>1
      <4>5. i # m - 1 => i + 1 \in 1 .. (m - 1) /\ r[i + 1] = s[(i + 1) + 1]
        BY <2>1, <4>1
      <4>6. (i + 1 = m) <=> (i = m - 1) OBVIOUS
      <4>. QED BY <1>1, <4>2, <4>3, <4>4, <4>5, <4>6
    <3>. QED BY <3>1, <3>2, <3>3
  <2>6. begin = IF m - 1 = 0 THEN NULL ELSE r[1]
    <3>1. CASE p = NULL
      <4>1. l = 1 /\ begin = nodes[s[1]].next BY <1>5, <1>7, <3>1
      <4>2. begin = IF 1 = m THEN NULL ELSE s[2] BY <1>3, <4>1
      <4>3. m - 1 # 0 => 1 \in 1 .. (m - 1) /\ r[1] = s[2] BY <2>1, <4>1
      <4>. QED BY <4>2, <4>3
    <3>2. CASE p # NULL
      <4>1. l > 1 /\ begin = first BY <1>7, <3>2
      <4>2. m - 1 # 0 /\ 1 \in 1 .. (m - 1) /\ 1 < l BY <4>1
      <4>3. r[1] = s[1] BY <2>1, <4>2
      <4>. QED BY <1>3, <4>1, <4>2, <4>3
    <3>. QED BY <3>1, <3>2
  <2>7. m - 1 \in Nat OBVIOUS
  <2>8. Row(begin, other, m - 1, r) BY <2>1, <2>3, <2>5, <2>6 DEF Row
  <2>. QED BY <1>1, <1>5, <2>1, <2>4, <2>8, Zenon DEF ShorterRow
<1>8. CASE p = NULL
  <2>1. s[1] = n /\ 1 \in 1 .. m BY <1>3, <1>5, <1>8
  <2>2. l = 1 BY <1>5, <1>6, <2>1
  <2>. QED BY <1>7, <1>8, <2>2
<1>9. CASE p # NULL
  <2>1. PICK i \in 1 .. m : p = s[i] BY <1>1, <1>3, <1>9 DEF Range
  <2>2. nodes[s[i]].next = s[l] /\ s[l] # NULL BY <1>4, <1>5, <1>9, <2>1
  <2>3. i # m /\ i + 1 \in 1 .. m /\ s[i + 1] = s[l] BY <1>3, <2>1, <2>2
  <2>4. i + 1 = l BY <1>6, <2>3
  <2>5. l > 1 /\ l - 1 = i BY <2>4
  <2>. QED BY <1>7, <1>9, <2>1, <2>5
<1>. QED BY <1>8, <1>9

(* The members of a chain after a delete *)
LEMMA ListedRemove ==
  ASSUME NEW first, NEW nodes, NEW members, Listed(first, nodes, members),
         NEW n \in members, NEW begin, NEW other, NEW p,
         Removes(first, nodes, begin, other, members, p, n)
  PROVE  Listed(begin, other, members \ {n})
<1>1. PICK m \in Nat : m <= Cardinality(Node)
        /\ \E s : Row(first, nodes, m, s) /\ members = Range(s)
  BY RowOfListed
<1>2. PICK s : Row(first, nodes, m, s) /\ members = Range(s) BY <1>1
<1>3. PICK l \in 1 .. m : n = s[l] BY <1>2 DEF Row, Range
<1>4. Removes(first, nodes, begin, other, Range(s), p, n) BY <1>2
<1>5. PICK r : Row(begin, other, m - 1, r) /\ Range(r) = Range(s) \ {n}
  <2>1. ShorterRow(begin, other, m, s, l) BY <1>2, <1>3, <1>4, RowRemove
  <2>. QED BY <1>3, <2>1 DEF ShorterRow
<1>6. m - 1 \in Nat BY <1>3
<1>. QED BY <1>2, <1>5, <1>6, ListedOfRow

---------------------------------------------------------------------------
(* Walks along any links, sound or not *)

(* Links between nodes of a set do not lead out of it. *)
LEMMA WalkStays ==
  ASSUME NEW U \in SUBSET Node, NEW first \in U \cup {NULL}, NEW nodes,
         \A n \in U : nodes[n].next \in U \cup {NULL}, NEW k \in 0 .. Cardinality(Node)
  PROVE  Walk(first, nodes)[k] \in U \cup {NULL}
<1>. DEFINE Bad == {j \in 0 .. Cardinality(Node) : Walk(first, nodes)[j] \notin U \cup {NULL}}
<1>1. SUFFICES ASSUME Bad # {} PROVE FALSE OBVIOUS
<1>2. PICK j \in Bad : \A i \in Bad : j <= i
  <2>1. Bad \in SUBSET Nat BY NodeCount
  <2>. HIDE DEF Bad
  <2>. QED BY <1>1, <2>1, LeastNumber, Zenon
<1>3. PICK w : w = Walk(first, nodes) OBVIOUS
<1>4. DOMAIN w = 0 .. Cardinality(Node) /\ Places(w, first, nodes)
  BY <1>3, WalkPlaces, Zenon
<1>5. j \in Nat /\ j \in 0 .. Cardinality(Node) /\ w[j] \notin U \cup {NULL}
  BY <1>3, NodeCount
<1>6. CASE j = 0 BY <1>4, <1>5, <1>6 DEF Places
<1>7. CASE j # 0
  <2>1. j - 1 \in 0 .. Cardinality(Node) /\ ~(j <= j - 1) BY <1>5, <1>7, NodeCount
  <2>2. w[j - 1] \in U \cup {NULL} BY <1>2, <1>3, <2>1
  <2>3. w[j] = IF w[j - 1] \in Node THEN nodes[w[j - 1]].next ELSE w[j - 1]
    BY <1>4, <1>5, <1>7 DEF Places
  <2>. QED BY <1>5, <2>2, <2>3, HookAssumption
<1>. QED BY <1>6, <1>7

(* A node that the walk comes to is a member, and the one before it has its   *)
(* link.                                                                      *)
LEMMA WalkComes ==
  ASSUME NEW first, NEW nodes, NEW k \in 0 .. Cardinality(Node),
         Walk(first, nodes)[k] \in Node
  PROVE  /\ Walk(first, nodes)[k] \in Members(first, nodes)
         /\ k = 0 => Walk(first, nodes)[k] = first
         /\ k # 0 => /\ k - 1 \in 0 .. Cardinality(Node)
                     /\ Walk(first, nodes)[k - 1] \in Node
                     /\ nodes[Walk(first, nodes)[k - 1]].next = Walk(first, nodes)[k]
<1>1. PICK w : w = Walk(first, nodes) OBVIOUS
<1>2. DOMAIN w = 0 .. Cardinality(Node) /\ Places(w, first, nodes)
  BY <1>1, WalkPlaces, Zenon
<1>3. w[k] \in Range(w) \cap Node BY <1>1, <1>2 DEF Range
<1>4. k = 0 => w[k] = first BY <1>2 DEF Places
<1>5. ASSUME k # 0
      PROVE  k - 1 \in 0 .. Cardinality(Node) /\ w[k - 1] \in Node
             /\ nodes[w[k - 1]].next = w[k]
  <2>1. w[k] = IF w[k - 1] \in Node THEN nodes[w[k - 1]].next ELSE w[k - 1]
    BY <1>2, <1>5 DEF Places
  <2>2. w[k] \in Node BY <1>3
  <2>3. k - 1 \in 0 .. Cardinality(Node) BY <1>5, NodeCount
  <2>. QED BY <2>1, <2>2, <2>3
<1>. QED BY <1>1, <1>3, <1>4, <1>5 DEF Members

(* A walk that ends has come to a last node. *)
LEMMA WalkHasLast ==
  ASSUME NEW U \in SUBSET Node, NEW first \in U, NEW nodes,
         \A n \in U : nodes[n].next \in U \cup {NULL},
         Walk(first, nodes)[Cardinality(Node)] = NULL
  PROVE  \E p \in Members(first, nodes) : nodes[p].next = NULL
<1>. DEFINE S == {j \in 0 .. Cardinality(Node) : Walk(first, nodes)[j] = NULL}
<1>1. Cardinality(Node) \in S BY NodeCount
<1>2. PICK j \in S : \A i \in S : j <= i
  <2>1. S \in SUBSET Nat /\ S # {} BY <1>1, NodeCount
  <2>. HIDE DEF S
  <2>. QED BY <2>1, LeastNumber, Zenon
<1>3. PICK w : w = Walk(first, nodes) OBVIOUS
<1>4. DOMAIN w = 0 .. Cardinality(Node) /\ Places(w, first, nodes)
  BY <1>3, WalkPlaces, Zenon
<1>5. j \in Nat /\ j \in 0 .. Cardinality(Node) /\ w[j] = NULL BY <1>3, NodeCount
<1>6. j # 0 BY <1>4, <1>5, HookAssumption DEF Places
<1>7. j - 1 \in 0 .. Cardinality(Node) /\ ~(j <= j - 1) BY <1>5, <1>6, NodeCount
<1>8. w[j - 1] \in U
  <2>1. w[j - 1] # NULL BY <1>2, <1>3, <1>7
  <2>2. first \in U \cup {NULL} OBVIOUS
  <2>3. w[j - 1] \in U \cup {NULL} BY <1>3, <1>7, <2>2, WalkStays
  <2>. QED BY <2>1, <2>3
<1>9. w[j] = nodes[w[j - 1]].next BY <1>4, <1>5, <1>6, <1>8 DEF Places
<1>10. w[j - 1] \in Members(first, nodes) BY <1>3, <1>7, <1>8, WalkComes
<1>. QED BY <1>5, <1>9, <1>10

---------------------------------------------------------------------------
(* What the walks of an insert and of a delete find *)

(* The chain of a bucket is what the walk from its head passes. *)
LEMMA ChainIs == \A b : Chain(b) = Members(head[b], node)
BY DEF Chain, PlacesOf, Members

(* An insert finds the last node of a chain that ends (fd_insertByValue). *)
LEMMA LastFound ==
  ASSUME TypeOK, UsedInv, NEW b \in Bucket, Ends(b)
  PROVE  /\ LastOf(b) \in Used \cup {NULL}
         /\ IF LastOf(b) = NULL THEN head[b] = NULL
            ELSE LastOf(b) \in Chain(b) /\ node[LastOf(b)].next = NULL
<1>1. /\ Used \in SUBSET Node /\ head[b] \in Used \cup {NULL}
      /\ \A n \in Used : node[n].next \in Used \cup {NULL}
  BY DEF Used, UsedInv
<1>2. CASE head[b] = NULL
  <2>1. LastOf(b) = NULL BY <1>2 DEF LastOf
  <2>. QED BY <1>2, <2>1
<1>3. CASE head[b] # NULL
  <2>1. Walk(head[b], node)[Cardinality(Node)] = NULL BY DEF Ends, PlacesOf
  <2>2. head[b] \in Used BY <1>1, <1>3, Zenon
  <2>3. \E p \in Members(head[b], node) : node[p].next = NULL
    BY <1>1, <2>1, <2>2, WalkHasLast
  <2>4. \E p \in Node \cup {NULL} : p \in Chain(b) /\ node[p].next = NULL
    BY <2>3, ChainIs DEF Members
  <2>5. LastOf(b) \in Node \cup {NULL} /\ LastOf(b) \in Chain(b) /\ node[LastOf(b)].next = NULL
    BY <1>3, <2>4, Zenon DEF LastOf
  <2>6. LastOf(b) \in Node BY <2>5 DEF Chain
  <2>7. LastOf(b) \in Used BY <2>5, <2>6, HookAssumption DEF Used
  <2>. QED BY <2>5, <2>6, <2>7, HookAssumption
<1>. QED BY <1>2, <1>3

(* A delete finds a node with its key, and the head or a link that leads to  *)
(* it (fd_deleteByKey).                                                      *)
LEMMA NodeFound ==
  ASSUME UsedInv, NEW b \in Bucket, NEW key, NEW f \in Find(b, key)
  PROVE  /\ f[2] \in Used /\ f[2] \in Chain(b) /\ node[f[2]].key = key
         /\ f[1] \in Used \cup {NULL}
         /\ IF f[1] = NULL THEN head[b] = f[2]
            ELSE f[1] \in Chain(b) /\ node[f[1]].next = f[2]
<1>1. PICK k \in 0 .. Cardinality(Node) :
        f[2] = PlacesOf(b)[k] /\ f[1] = (IF k = 0 THEN NULL ELSE PlacesOf(b)[k - 1])
  BY DEF Find
<1>2. f[2] \in Node /\ node[f[2]].key = key BY DEF Find
<1>3. PlacesOf(b) = Walk(head[b], node) BY DEF PlacesOf
<1>4. /\ Used \in SUBSET Node /\ head[b] \in Used \cup {NULL}
      /\ \A n \in Used : node[n].next \in Used \cup {NULL}
  BY DEF Used, UsedInv
<1>5. f[2] \in Members(head[b], node) /\ (k = 0 => f[2] = head[b])
      /\ (k # 0 => /\ k - 1 \in 0 .. Cardinality(Node) /\ f[1] \in Node
                   /\ node[f[1]].next = f[2])
  BY <1>1, <1>2, <1>3, WalkComes
<1>6. f[2] \in Used
  <2>1. Walk(head[b], node)[k] \in Used \cup {NULL} BY <1>4, WalkStays
  <2>. QED BY <1>1, <1>2, <1>3, <2>1, HookAssumption, Zenon
<1>7. k # 0 => f[1] \in Used /\ f[1] \in Chain(b)
  <2>1. SUFFICES ASSUME k # 0 PROVE f[1] \in Used /\ f[1] \in Chain(b) OBVIOUS
  <2>2. f[1] = Walk(head[b], node)[k - 1] /\ k - 1 \in 0 .. Cardinality(Node) /\ f[1] \in Node
    BY <1>1, <1>3, <1>5, <2>1
  <2>3. Walk(head[b], node)[k - 1] \in Used \cup {NULL} BY <1>4, <2>2, WalkStays
  <2>4. f[1] \in Used BY <2>2, <2>3, HookAssumption, Zenon
  <2>. QED BY <2>2, <2>4, WalkComes, ChainIs
<1>. QED BY <1>1, <1>2, <1>5, <1>6, <1>7, ChainIs, HookAssumption

(* A delete that finds nothing has met no node with its key. *)
LEMMA NothingFound ==
  ASSUME NEW b, NEW key, Find(b, key) = {}, NEW n \in Chain(b)
  PROVE  node[n].key # key
<1>. DEFINE at == PlacesOf(b)
            S == {j \in 0 .. Cardinality(Node) : at[j] \in Node /\ node[at[j]].key = key}
<1>1. SUFFICES ASSUME node[n].key = key PROVE FALSE OBVIOUS
<1>2. DOMAIN at = 0 .. Cardinality(Node) BY WalkPlaces DEF PlacesOf
<1>3. PICK i \in 0 .. Cardinality(Node) : n = at[i] /\ n \in Node
  BY <1>2 DEF Chain, Range
<1>4. i \in S BY <1>1, <1>3
<1>5. PICK k \in S : \A j \in S : k <= j
  <2>1. S \in SUBSET Nat /\ S # {} BY <1>4, NodeCount
  <2>. HIDE DEF S
  <2>. QED BY <2>1, LeastNumber, Zenon
<1>6. k \in Nat /\ k \in 0 .. Cardinality(Node) /\ at[k] \in Node /\ node[at[k]].key = key
  BY NodeCount
<1>7. k # 0 => k - 1 \in 0 .. Cardinality(Node) /\ at[k - 1] \in Node
  BY <1>6, WalkComes DEF PlacesOf
<1>8. ASSUME NEW j \in 0 .. k - 1 PROVE node[at[j]].key # key
  <2>1. j \in 0 .. Cardinality(Node) /\ ~(k <= j) /\ j \in Nat BY <1>6, NodeCount
  <2>2. at[j] \in Node
    <3>. DEFINE T == {l \in 0 .. Cardinality(Node) : l > j /\ at[l] \in Node}
    <3>1. k \in T BY <1>6, <2>1
    <3>2. PICK l \in T : \A x \in T : l <= x
      <4>1. T \in SUBSET Nat /\ T # {} BY <3>1, NodeCount
      <4>. HIDE DEF T
      <4>. QED BY <4>1, LeastNumber, Zenon
    <3>3. l \in Nat /\ l \in 0 .. Cardinality(Node) /\ l > j /\ l # 0 /\ at[l] \in Node
      BY <2>1, NodeCount
    <3>4. l - 1 \in 0 .. Cardinality(Node) /\ at[l - 1] \in Node
      BY <3>3, WalkComes DEF PlacesOf
    <3>5. l - 1 \notin T BY <3>2, <3>3
    <3>6. l - 1 = j BY <2>1, <3>3, <3>4, <3>5
    <3>. QED BY <3>4, <3>6
  <2>. QED BY <1>5, <2>1, <2>2
<1>9. PICK p : p = IF k = 0 THEN NULL ELSE at[k - 1] OBVIOUS
<1>10. <<p, at[k]>> \in Find(b, key)
  <2>1. p \in Node \cup {NULL} BY <1>7, <1>9
  <2>2. <<p, at[k]>> \in (Node \cup {NULL}) \X Node BY <1>6, <2>1
  <2>. QED BY <1>6, <1>8, <1>9, <2>2 DEF Find
<1>. QED BY <1>10

---------------------------------------------------------------------------
(* Types, and links that lead to nodes, in every state *)

(* Every descriptor has a bucket. *)
LEMMA HashInBucket == \A d \in Fd : Hash[d] \in Bucket /\ Hash[d] \in Nat
BY HookAssumption DEF Bucket, Range

PcType == {"idle", "insert", "insert_again", "link", "link_again", "delete", "unlink"}

(* The part of the types that a thread's own step changes *)
LocalsOK ==
  /\ pc \in [Thread -> PcType]
  /\ fd \in [Thread -> Fd \cup {NULL}]
  /\ new \in [Thread -> Node \cup {NULL}]
  /\ prev \in [Thread -> Node \cup {NULL}]

ThreadUsed(t) ==
  /\ pc[t] # "idle" => fd[t] \in Fd
  /\ pc[t] \in Walked => new[t] \in Used /\ prev[t] \in Used \cup {NULL}

(* A step that sends one thread on keeps the types of all threads'           *)
(* variables.                                                                *)
LEMMA GotoOK ==
  ASSUME TypeOK, UsedInv, NEW t \in Thread, NEW l \in PcType, NEW d \in Fd \cup {NULL},
         NEW n \in Node \cup {NULL}, NEW p \in Node \cup {NULL}, Goto(t, l, d, n, p),
         Used \subseteq Used', l # "idle" => d \in Fd,
         l \in Walked => n \in Used' /\ p \in Used' \cup {NULL}
  PROVE  LocalsOK' /\ \A u \in Thread : ThreadUsed(u)'
<1>1. LocalsOK BY DEF TypeOK, LocalsOK, PcType
<1>2. LocalsOK' BY <1>1 DEF LocalsOK, Goto
<1>3. ASSUME NEW u \in Thread PROVE ThreadUsed(u)'
  <2>1. ThreadUsed(u) BY DEF UsedInv, ThreadUsed
  <2>2. CASE u = t
    <3>1. pc'[u] = l /\ fd'[u] = d /\ new'[u] = n /\ prev'[u] = p
      BY <1>1, <2>2 DEF Goto, LocalsOK
    <3>. QED BY <3>1 DEF ThreadUsed
  <2>3. CASE u # t
    <3>1. pc'[u] = pc[u] /\ fd'[u] = fd[u] /\ new'[u] = new[u] /\ prev'[u] = prev[u]
      BY <1>1, <2>3 DEF Goto, LocalsOK
    <3>. QED BY <2>1, <3>1 DEF ThreadUsed
  <2>. QED BY <2>2, <2>3
<1>. QED BY <1>2, <1>3

(* Threads that stay where they are keep pointers to nodes in use. *)
LEMMA LocalsStay ==
  ASSUME TypeOK, UsedInv, UNCHANGED locals, Used \subseteq Used'
  PROVE  LocalsOK' /\ \A u \in Thread : ThreadUsed(u)'
<1>1. LocalsOK' BY DEF TypeOK, LocalsOK, PcType, locals
<1>2. ASSUME NEW u \in Thread PROVE ThreadUsed(u)'
  BY DEF UsedInv, ThreadUsed, locals
<1>. QED BY <1>1, <1>2

(* The part of the types that only updates change *)
TableOK ==
  /\ head \in [Bucket -> Node \cup {NULL}]
  /\ node \in [Node -> NodeRecord]
  /\ alloc \subseteq Used
  /\ \A b \in Bucket : head[b] \in Used \cup {NULL}
  /\ \A n \in Used : node[n].next \in Used \cup {NULL}

SetsOK ==
  /\ snic \subseteq Fd /\ host \subseteq LocalFd
  /\ app \subseteq Handle
  /\ up \in BOOLEAN
  /\ connected \subseteq Fd /\ misclosed \subseteq Fd
  /\ raced \in BOOLEAN

(* The types and UsedInv by what they are about: table, threads, sets of     *)
(* descriptors.                                                              *)
LEMMA Parts ==
  (TypeOK /\ UsedInv) <=> (TableOK /\ LocalsOK /\ SetsOK /\ \A t \in Thread : ThreadUsed(t))
<1>1. TableOK => alloc \subseteq Node /\ \A n \in alloc : node[n].next # Garbage
  BY DEF TableOK, Used
<1>. QED BY <1>1 DEF TypeOK, UsedInv, TableOK, LocalsOK, SetsOK, ThreadUsed, PcType

(* The same in the next state. *)
LEMMA PartsPrimed ==
  ASSUME TableOK', LocalsOK', SetsOK', \A t \in Thread : ThreadUsed(t)'
  PROVE  TypeOK' /\ UsedInv'
<1>1. alloc' \subseteq Node /\ \A n \in alloc' : node'[n].next # Garbage
  BY DEF TableOK, Used
<1>. QED BY <1>1 DEF TypeOK, UsedInv, TableOK, LocalsOK, SetsOK, ThreadUsed, PcType

(* A step that leaves the table alone leaves its types alone. *)
LEMMA TableStays ==
  ASSUME TableOK, UNCHANGED table
  PROVE  TableOK' /\ Used' = Used
<1>1. Used' = Used BY DEF table, Used
<1>. QED BY <1>1 DEF TableOK, table

(* Types: a node is allocated, filled in, and the end of the chain found     *)
(* (fd_insertByValue).                                                       *)
LEMMA InsertWalkOK ==
  ASSUME TypeOK, UsedInv, NEW t \in Thread, FdInsertWalk(t)
  PROVE  TypeOK' /\ UsedInv'
<1>1. TableOK /\ LocalsOK /\ SetsOK /\ ThreadUsed(t) BY Parts
<1>2. PICK n \in Node \ alloc :
        /\ alloc' = alloc \cup {n}
        /\ node' = [node EXCEPT ![n] =
                      [key |-> fd[t], next |-> NULL,
                       value |-> IF pc[t] = "insert" THEN t ELSE Hash[fd[t]]]]
        /\ Goto(t, IF pc[t] = "insert" THEN "link" ELSE "link_again", fd[t], n,
                LastOf(Hash[fd[t]]))
  BY DEF FdInsertWalk
<1>3. fd[t] \in Fd /\ Hash[fd[t]] \in Bucket
  BY <1>1, HashInBucket DEF FdInsertWalk, ThreadUsed
<1>4. LastOf(Hash[fd[t]]) \in Used \cup {NULL} BY <1>3, LastFound DEF FdInsertWalk
<1>5. node' \in [Node -> NodeRecord] /\ node'[n].next = NULL
      /\ \A x \in Node : x # n => node'[x] = node[x]
  <2>1. [key |-> fd[t], next |-> NULL, value |-> IF pc[t] = "insert" THEN t ELSE Hash[fd[t]]]
          \in NodeRecord
    BY <1>3 DEF NodeRecord
  <2>. QED BY <1>1, <1>2, <2>1 DEF TableOK
<1>6. Used' = Used \cup {n} BY <1>5, HookAssumption DEF Used
<1>7. TableOK'
  <2>1. head' = head BY DEF FdInsertWalk
  <2>2. \A x \in Used' : node'[x].next \in Used' \cup {NULL}
    BY <1>1, <1>5, <1>6 DEF TableOK, Used
  <2>. QED BY <1>1, <1>2, <1>5, <1>6, <2>1, <2>2 DEF TableOK
<1>8. LocalsOK' /\ \A u \in Thread : ThreadUsed(u)'
  <2>1. PICK l : l = IF pc[t] = "insert" THEN "link" ELSE "link_again" OBVIOUS
  <2>2. PICK p : p = LastOf(Hash[fd[t]]) OBVIOUS
  <2>3. l \in PcType /\ l # "idle" BY <2>1 DEF PcType
  <2>4. p \in Used' \cup {NULL} /\ n \in Used' /\ Used \subseteq Used' BY <1>4, <1>6, <2>2
  <2>5. p \in Node \cup {NULL} BY <2>4 DEF Used
  <2>6. Goto(t, l, fd[t], n, p) BY <1>2, <2>1, <2>2
  <2>. QED BY <1>3, <2>3, <2>4, <2>5, <2>6, GotoOK
<1>9. SetsOK' BY <1>1 DEF SetsOK, FdInsertWalk, history
<1>. QED BY <1>7, <1>8, <1>9, PartsPrimed

(* Types: the node is linked (fd_insertByValue). *)
LEMMA InsertLinkOK ==
  ASSUME TypeOK, UsedInv, NEW t \in Thread, FdInsertLink(t)
  PROVE  TypeOK' /\ UsedInv'
<1>1. TableOK /\ LocalsOK /\ SetsOK /\ ThreadUsed(t) BY Parts
<1>2. /\ fd[t] \in Fd /\ Hash[fd[t]] \in Bucket /\ new[t] \in Used /\ new[t] \in Node
      /\ prev[t] \in Used \cup {NULL}
  BY <1>1, HashInBucket DEF FdInsertLink, ThreadUsed, Walked, Used
<1>3. TableOK' /\ Used' = Used
  <2>1. CASE prev[t] = NULL
    <3>1. head' = [head EXCEPT ![Hash[fd[t]]] = new[t]] /\ node' = node /\ alloc' = alloc
      BY <2>1 DEF FdInsertLink
    <3>2. Used' = Used BY <3>1 DEF Used
    <3>. QED BY <1>1, <1>2, <3>1, <3>2 DEF TableOK
  <2>2. CASE prev[t] # NULL
    <3>1. node' = [node EXCEPT ![prev[t]].next = new[t]] /\ head' = head /\ alloc' = alloc
      BY <2>2 DEF FdInsertLink
    <3>2. prev[t] \in Used /\ prev[t] \in Node BY <1>2, <2>2 DEF Used
    <3>3. node' \in [Node -> NodeRecord] /\ node'[prev[t]].next = new[t]
          /\ \A x \in Node : x # prev[t] => node'[x].next = node[x].next
      BY <1>1, <1>2, <3>1, <3>2 DEF TableOK, NodeRecord
    <3>4. Used' = Used BY <1>2, <3>2, <3>3, HookAssumption DEF Used
    <3>5. \A x \in Used : node'[x].next \in Used \cup {NULL}
      BY <1>1, <1>2, <3>3 DEF TableOK, Used
    <3>. QED BY <1>1, <3>1, <3>3, <3>4, <3>5 DEF TableOK
  <2>. QED BY <2>1, <2>2
<1>4. LocalsOK' /\ \A u \in Thread : ThreadUsed(u)'
  <2>1. Goto(t, "idle", NULL, NULL, NULL) BY DEF FdInsertLink
  <2>2. "idle" \in PcType /\ "idle" \notin Walked /\ Used \subseteq Used'
    BY <1>3 DEF PcType, Walked
  <2>. QED BY <2>1, <2>2, GotoOK
<1>5. SetsOK'
  <2>1. [fd |-> fd[t], at |-> "snic"] \in Handle BY <1>2 DEF Handle
  <2>. QED BY <1>1, <2>1 DEF SetsOK, FdInsertLink, NoteRace, Races
<1>. QED BY <1>3, <1>4, <1>5, PartsPrimed

(* Types: the node is unlinked and freed (fd_deleteByKey). *)
LEMMA DeleteUnlinkOK ==
  ASSUME TypeOK, UsedInv, NEW t \in Thread, FdDeleteUnlink(t)
  PROVE  TypeOK' /\ UsedInv'
<1>1. TableOK /\ LocalsOK /\ SetsOK /\ ThreadUsed(t) BY Parts
<1>2. /\ fd[t] \in Fd /\ Hash[fd[t]] \in Bucket /\ new[t] \in Used /\ new[t] \in Node
      /\ prev[t] \in Used \cup {NULL} /\ node[new[t]].next \in Used \cup {NULL}
  BY <1>1, HashInBucket DEF FdDeleteUnlink, ThreadUsed, Walked, Used, TableOK
<1>3. PICK freed : freed = [node EXCEPT ![new[t]].key = Garbage, ![new[t]].value = Garbage]
  OBVIOUS
<1>4. /\ freed \in [Node -> NodeRecord]
      /\ \A x \in Node : freed[x].next = node[x].next
  BY <1>1, <1>2, <1>3 DEF TableOK, NodeRecord
<1>5. TableOK' /\ Used' = Used
  <2>0. alloc' \subseteq Used BY <1>1 DEF TableOK, FdDeleteUnlink
  <2>1. CASE prev[t] = NULL
    <3>1. head' = [head EXCEPT ![Hash[fd[t]]] = node[new[t]].next] /\ node' = freed
      BY <1>3, <2>1 DEF FdDeleteUnlink
    <3>2. Used' = Used BY <1>4, <3>1 DEF Used
    <3>3. \A x \in Used : node'[x].next \in Used \cup {NULL}
      BY <1>1, <1>4, <3>1 DEF TableOK, Used
    <3>4. node[new[t]].next \in Node \cup {NULL} BY <1>2 DEF Used
    <3>. QED BY <1>1, <1>2, <1>4, <2>0, <3>1, <3>2, <3>3, <3>4 DEF TableOK
  <2>2. CASE prev[t] # NULL
    <3>1. node' = [freed EXCEPT ![prev[t]].next = node[new[t]].next] /\ head' = head
      BY <1>3, <2>2 DEF FdDeleteUnlink
    <3>2. prev[t] \in Used /\ prev[t] \in Node BY <1>2, <2>2 DEF Used
    <3>3. node[new[t]].next \in Node \cup {NULL} /\ node[new[t]].next # Garbage
      BY <1>2, HookAssumption DEF Used
    <3>4. node' \in [Node -> NodeRecord] /\ node'[prev[t]].next = node[new[t]].next
          /\ \A x \in Node : x # prev[t] => node'[x].next = node[x].next
      BY <1>4, <3>1, <3>2, <3>3 DEF NodeRecord
    <3>5. Used' = Used BY <3>2, <3>3, <3>4 DEF Used
    <3>6. \A x \in Used : node'[x].next \in Used \cup {NULL}
      BY <1>1, <1>2, <3>4 DEF TableOK, Used
    <3>. QED BY <1>1, <2>0, <3>1, <3>4, <3>5, <3>6 DEF TableOK
  <2>. QED BY <2>1, <2>2
<1>6. LocalsOK' /\ \A u \in Thread : ThreadUsed(u)'
  <2>1. Goto(t, "idle", NULL, NULL, NULL) BY DEF FdDeleteUnlink
  <2>2. "idle" \in PcType /\ "idle" \notin Walked /\ Used \subseteq Used'
    BY <1>5 DEF PcType, Walked
  <2>. QED BY <2>1, <2>2, GotoOK
<1>7. SetsOK' BY <1>1 DEF SetsOK, FdDeleteUnlink, NoteRace, Races
<1>. QED BY <1>5, <1>6, <1>7, PartsPrimed

(* Types: a delete looks for its node (fd_deleteByKey). *)
LEMMA DeleteWalkOK ==
  ASSUME TypeOK, UsedInv, NEW t \in Thread, FdDeleteWalk(t)
  PROVE  TypeOK' /\ UsedInv'
<1>1. TableOK /\ LocalsOK /\ SetsOK /\ ThreadUsed(t) BY Parts
<1>2. fd[t] \in Fd /\ Hash[fd[t]] \in Bucket
  BY <1>1, HashInBucket DEF FdDeleteWalk, ThreadUsed
<1>3. TableOK' /\ Used' = Used BY <1>1, TableStays DEF FdDeleteWalk
<1>4. SetsOK' BY <1>1 DEF SetsOK, FdDeleteWalk, history
<1>5. LocalsOK' /\ \A u \in Thread : ThreadUsed(u)'
  <2>1. CASE Goto(t, "idle", NULL, NULL, NULL)
    <3>1. "idle" \in PcType /\ "idle" \notin Walked /\ Used \subseteq Used'
      BY <1>3 DEF PcType, Walked
    <3>. QED BY <2>1, <3>1, GotoOK
  <2>2. ASSUME NEW f \in Find(Hash[fd[t]], fd[t]), Goto(t, "unlink", fd[t], f[2], f[1])
        PROVE  LocalsOK' /\ \A u \in Thread : ThreadUsed(u)'
    <3>1. f[2] \in Used /\ f[1] \in Used \cup {NULL} BY <1>2, NodeFound
    <3>2. f[2] \in Node /\ f[1] \in Node \cup {NULL} BY <3>1 DEF Used
    <3>3. "unlink" \in PcType /\ Used \subseteq Used' BY <1>3 DEF PcType
    <3>. QED BY <1>2, <1>3, <2>2, <3>1, <3>2, <3>3, GotoOK
  <2>. QED BY <2>1, <2>2 DEF FdDeleteWalk
<1>. QED BY <1>3, <1>4, <1>5, PartsPrimed

(* A thread that is idle begins a call: the table stays as it is. *)
LEMMA BeginsOK ==
  ASSUME TypeOK, UsedInv, NEW t \in Thread, NEW l \in {"insert", "insert_again", "delete"},
         NEW d \in Fd, Goto(t, l, d, NULL, NULL), UNCHANGED table, SetsOK'
  PROVE  TypeOK' /\ UsedInv'
<1>1. TableOK' /\ Used' = Used BY Parts, TableStays
<1>2. l \in PcType /\ l \notin Walked BY DEF PcType, Walked
<1>3. NULL \in Node \cup {NULL} /\ d \in Fd \cup {NULL} /\ Used \subseteq Used' BY <1>1
<1>4. LocalsOK' /\ \A u \in Thread : ThreadUsed(u)' BY <1>2, <1>3, GotoOK
<1>. QED BY <1>1, <1>4, PartsPrimed

(* Types: no thread moves and the table stays as it is. *)
LEMMA StaysOK ==
  ASSUME TypeOK, UsedInv, UNCHANGED <<locals, table>>, SetsOK'
  PROVE  TypeOK' /\ UsedInv'
<1>1. TableOK' /\ Used' = Used BY Parts, TableStays
<1>2. LocalsOK' /\ \A u \in Thread : ThreadUsed(u)' BY <1>1, LocalsStay
<1>. QED BY <1>1, <1>2, PartsPrimed

(* Types: the calls that open a descriptor of the SmartNIC. *)
LEMMA NewRemoteOK ==
  ASSUME TypeOK, UsedInv, NEW t \in Thread, NEW limit, NewRemote(t, limit)
  PROVE  TypeOK' /\ UsedInv'
<1>1. SetsOK' /\ UNCHANGED table
  <2>1. SetsOK BY Parts
  <2>. QED BY <2>1 DEF SetsOK, NewRemote, history
<1>2. PICK d \in Fd : Goto(t, "insert", d, NULL, NULL) \/ UNCHANGED locals
  BY DEF NewRemote
<1>. QED BY <1>1, <1>2, BeginsOK, StaysOK

(* Types: req_connect. *)
LEMMA ConnectOK ==
  ASSUME TypeOK, UsedInv, NEW t \in Thread, NEW h \in app, ReqConnect(t, h)
  PROVE  TypeOK' /\ UsedInv'
<1>1. h.fd \in Fd BY DEF TypeOK, Handle
<1>2. SetsOK BY Parts
<1>3. SetsOK' /\ UNCHANGED table BY <1>1, <1>2 DEF SetsOK, ReqConnect
<1>. QED BY <1>1, <1>3, BeginsOK DEF ReqConnect

(* Types: req_close. *)
LEMMA CloseOK ==
  ASSUME TypeOK, UsedInv, NEW t \in Thread, NEW h \in app, ReqClose(t, h)
  PROVE  TypeOK' /\ UsedInv'
<1>1. h.fd \in Fd BY DEF TypeOK, Handle
<1>2. SetsOK BY Parts
<1>3. UNCHANGED table BY DEF ReqClose
<1>4. SetsOK'
  <2>1. snic' \subseteq Fd /\ host' \subseteq LocalFd /\ misclosed' \subseteq Fd
    BY <1>1, <1>2 DEF SetsOK, ReqClose
  <2>. QED BY <1>2, <2>1 DEF SetsOK, ReqClose
<1>5. Goto(t, "delete", h.fd, NULL, NULL) \/ UNCHANGED locals BY DEF ReqClose
<1>. QED BY <1>1, <1>3, <1>4, <1>5, BeginsOK, StaysOK

(* Types: a local descriptor is opened. *)
LEMMA OpenLocalOK ==
  ASSUME TypeOK, UsedInv, NEW t \in Thread, OpenLocal(t)
  PROVE  TypeOK' /\ UsedInv'
<1>1. SetsOK BY Parts
<1>2. PICK d \in LocalFd \ host :
        host' = host \cup {d} /\ app' = app \cup {[fd |-> d, at |-> "host"]}
  BY DEF OpenLocal
<1>3. [fd |-> d, at |-> "host"] \in Handle BY HookAssumption DEF Handle
<1>4. SetsOK' BY <1>1, <1>2, <1>3 DEF SetsOK, OpenLocal, history
<1>. QED BY <1>4, StaysOK DEF OpenLocal

(* The types in the initial state. *)
LEMMA TypeInit == Init => TypeOK /\ UsedInv
<1>. SUFFICES ASSUME Init PROVE TypeOK /\ UsedInv OBVIOUS
<1>1. Used = {} BY DEF Init, Used
<1>2. [key |-> Garbage, value |-> Garbage, next |-> Garbage] \in NodeRecord BY DEF NodeRecord
<1>3. TableOK BY <1>1, <1>2 DEF Init, TableOK
<1>4. LocalsOK BY DEF Init, LocalsOK, PcType
<1>5. SetsOK BY DEF Init, SetsOK
<1>6. \A t \in Thread : ThreadUsed(t) BY DEF Init, ThreadUsed, Walked
<1>. QED BY <1>3, <1>4, <1>5, <1>6, Parts

(* Every step keeps the types, also after overlapping updates. *)
LEMMA TypeStep == TypeOK /\ UsedInv /\ [Next]_vars => TypeOK' /\ UsedInv'
<1>. SUFFICES ASSUME TypeOK, UsedInv, [Next]_vars PROVE TypeOK' /\ UsedInv' OBVIOUS
<1>1. CASE UNCHANGED vars
  <2>1. SetsOK BY Parts
  <2>2. SetsOK' /\ UNCHANGED <<locals, table>>
    BY <1>1, <2>1 DEF vars, history, SetsOK
  <2>. QED BY <2>2, StaysOK
<1>2. ASSUME NEW t \in Thread,
             \/ FdInsertWalk(t) \/ FdInsertLink(t) \/ FdDeleteWalk(t) \/ FdDeleteUnlink(t)
             \/ ReqSock(t) \/ ReqEpollCreate1(t) \/ ReqAccept(t) \/ OpenLocal(t)
             \/ \E h \in app : ReqConnect(t, h) \/ ReqClose(t, h)
      PROVE  TypeOK' /\ UsedInv'
  BY <1>2, InsertWalkOK, InsertLinkOK, DeleteWalkOK, DeleteUnlinkOK, NewRemoteOK, ConnectOK,
    CloseOK, OpenLocalOK
  DEF ReqSock, ReqEpollCreate1, ReqAccept
<1>. QED BY <1>1, <1>2 DEF Next

---------------------------------------------------------------------------
(* Sound chains, as long as no two updates of a chain overlap *)

Linking == {"link", "link_again"}

LinkSound(t) ==
  LET b == Hash[fd[t]]
  IN  /\ NodeOf(b, new[t]) /\ node[new[t]].key = fd[t] /\ node[new[t]].next = NULL
      /\ \A c \in Bucket : new[t] \notin Chain(c)
      /\ \A u \in Thread \ {t} : pc[u] \in Linking => new[u] # new[t]
      /\ IF prev[t] = NULL THEN head[b] = NULL
         ELSE prev[t] \in Chain(b) /\ node[prev[t]].next = NULL

UnlinkSound(t) ==
  LET b == Hash[fd[t]]
  IN  /\ new[t] \in Chain(b) /\ node[new[t]].key = fd[t]
      /\ IF prev[t] = NULL THEN head[b] = new[t]
         ELSE prev[t] \in Chain(b) /\ node[prev[t]].next = new[t]

(* What a walk found, thread by thread. *)
LEMMA SoundParts ==
  /\ LinkInv <=> \A t \in Thread : pc[t] \in Linking => LinkSound(t)
  /\ UnlinkInv <=> \A t \in Thread : pc[t] = "unlink" => UnlinkSound(t)
BY DEF LinkInv, UnlinkInv, LinkSound, UnlinkSound, Linking

(* The same in the next state. *)
LEMMA SoundPartsPrimed ==
  ASSUME ChainInv', \A t \in Thread : pc'[t] \in Linking => LinkSound(t)',
         \A t \in Thread : pc'[t] = "unlink" => UnlinkSound(t)'
  PROVE  ChainInv' /\ LinkInv' /\ UnlinkInv'
BY DEF LinkInv, UnlinkInv, LinkSound, UnlinkSound, Linking

(* A step leaves chains to their rows. *)
LEMMA ChainIsPrimed ==
  ASSUME NEW b, NEW C, Listed(head'[b], node', C)
  PROVE  Chain(b)' = C
<1>1. Members(head'[b], node') = C BY ListedWalk
<1>. QED BY <1>1 DEF Chain, PlacesOf, Members

(* A node is in the chain of one bucket only. *)
LEMMA Disjoint ==
  ASSUME ChainInv, NEW b \in Bucket, NEW c \in Bucket, NEW n \in Chain(b), n \in Chain(c)
  PROVE  b = c
BY DEF ChainInv, NodeOf

(* Steps that leave the table alone *)
LEMMA ChainsStay ==
  ASSUME UNCHANGED table
  PROVE  /\ \A b : Chain(b)' = Chain(b)
         /\ \A b, n : NodeOf(b, n)' <=> NodeOf(b, n)
         /\ ChainInv => ChainInv'
<1>1. \A b : Chain(b)' = Chain(b) BY DEF table, Chain, PlacesOf
<1>2. \A b, n : NodeOf(b, n)' <=> NodeOf(b, n) BY DEF table, NodeOf
<1>. QED BY <1>1, <1>2 DEF ChainInv, table

(* What the other threads found stays true when one thread moves and the     *)
(* table does not.                                                           *)
LEMMA OthersStay ==
  ASSUME TypeOK, UNCHANGED table, ChainInv, LinkInv, UnlinkInv, NEW t \in Thread,
         NEW l, l \notin Linking, NEW d, NEW n, NEW p, Goto(t, l, d, n, p),
         l = "unlink" => UnlinkSound(t)'
  PROVE  ChainInv' /\ LinkInv' /\ UnlinkInv'
<1>1. /\ \A u \in Thread : u # t =>
           pc'[u] = pc[u] /\ fd'[u] = fd[u] /\ new'[u] = new[u] /\ prev'[u] = prev[u]
      /\ pc'[t] = l
  BY DEF TypeOK, Goto
<1>2. /\ \A b : Chain(b)' = Chain(b)
      /\ \A b, x : NodeOf(b, x)' <=> NodeOf(b, x)
      /\ ChainInv' /\ head' = head /\ node' = node
  BY ChainsStay DEF table
<1>3. ASSUME NEW u \in Thread, pc'[u] \in Linking PROVE LinkSound(u)'
  <2>1. u # t /\ pc[u] \in Linking BY <1>1, <1>3
  <2>2. LinkSound(u) BY <2>1, SoundParts
  <2>3. \A v \in Thread \ {u} : pc'[v] \in Linking => new'[v] # new'[u]
    BY <1>1, <2>1, <2>2 DEF LinkSound
  <2>. QED BY <1>1, <1>2, <2>1, <2>2, <2>3 DEF LinkSound
<1>4. ASSUME NEW u \in Thread, pc'[u] = "unlink" PROVE UnlinkSound(u)'
  <2>1. CASE u = t BY <1>1, <1>4, <2>1
  <2>2. CASE u # t
    <3>1. UnlinkSound(u) BY <1>1, <1>4, <2>2, SoundParts
    <3>. QED BY <1>1, <1>2, <2>2, <3>1 DEF UnlinkSound
  <2>. QED BY <2>1, <2>2
<1>. QED BY <1>2, <1>3, <1>4, SoundPartsPrimed

(* The chains and what was found stay as they are if threads and table do. *)
LEMMA NothingMoves ==
  ASSUME UNCHANGED <<locals, table>>, ChainInv, LinkInv, UnlinkInv
  PROVE  ChainInv' /\ LinkInv' /\ UnlinkInv'
<1>1. /\ \A b : Chain(b)' = Chain(b)
      /\ \A b, x : NodeOf(b, x)' <=> NodeOf(b, x)
      /\ ChainInv'
  BY ChainsStay
<1>2. /\ pc' = pc /\ fd' = fd /\ new' = new /\ prev' = prev /\ head' = head /\ node' = node
  BY DEF locals, table
<1>3. ASSUME NEW u \in Thread, pc'[u] \in Linking PROVE LinkSound(u)'
  <2>1. LinkSound(u) BY <1>2, <1>3, SoundParts
  <2>. QED BY <1>1, <1>2, <2>1 DEF LinkSound
<1>4. ASSUME NEW u \in Thread, pc'[u] = "unlink" PROVE UnlinkSound(u)'
  <2>1. UnlinkSound(u) BY <1>2, <1>4, SoundParts
  <2>. QED BY <1>1, <1>2, <2>1 DEF UnlinkSound
<1>. QED BY <1>1, <1>3, <1>4, SoundPartsPrimed

(* What fd_deleteByKey's walk found is true of the chain. *)
LEMMA DeleteWalkSound ==
  ASSUME TypeOK, UsedInv, ChainInv, LinkInv, UnlinkInv, NEW t \in Thread, FdDeleteWalk(t)
  PROVE  ChainInv' /\ LinkInv' /\ UnlinkInv'
<1>1. UNCHANGED table /\ fd[t] \in Fd /\ Hash[fd[t]] \in Bucket
  BY HashInBucket DEF FdDeleteWalk, UsedInv
<1>2. CASE Goto(t, "idle", NULL, NULL, NULL)
  <2>1. "idle" \notin Linking /\ "idle" # "unlink" BY DEF Linking
  <2>. QED BY <1>1, <1>2, <2>1, OthersStay
<1>3. ASSUME NEW f \in Find(Hash[fd[t]], fd[t]), Goto(t, "unlink", fd[t], f[2], f[1])
      PROVE  ChainInv' /\ LinkInv' /\ UnlinkInv'
  <2>1. /\ f[2] \in Chain(Hash[fd[t]]) /\ node[f[2]].key = fd[t]
        /\ IF f[1] = NULL THEN head[Hash[fd[t]]] = f[2]
           ELSE f[1] \in Chain(Hash[fd[t]]) /\ node[f[1]].next = f[2]
    BY <1>1, NodeFound
  <2>2. fd'[t] = fd[t] /\ new'[t] = f[2] /\ prev'[t] = f[1] BY <1>3 DEF TypeOK, Goto
  <2>3. head' = head /\ node' = node /\ \A b : Chain(b)' = Chain(b)
    BY <1>1, ChainsStay DEF table
  <2>4. UnlinkSound(t)' BY <2>1, <2>2, <2>3 DEF UnlinkSound
  <2>5. "unlink" \notin Linking BY DEF Linking
  <2>. QED BY <1>1, <1>3, <2>4, <2>5, OthersStay
<1>. QED BY <1>2, <1>3 DEF FdDeleteWalk

(* A node that was not allocated is in no chain, so its contents disturb none. *)
LEMMA InsertWalkSound ==
  ASSUME TypeOK, UsedInv, ChainInv, LinkInv, UnlinkInv, NEW t \in Thread, FdInsertWalk(t)
  PROVE  ChainInv' /\ LinkInv' /\ UnlinkInv' /\ (\A b \in Bucket : Chain(b)' = Chain(b))
         /\ \A b \in Bucket : \A x \in Chain(b) : node'[x].key = node[x].key
<1>1. fd[t] \in Fd /\ Hash[fd[t]] \in Bucket /\ Ends(Hash[fd[t]])
  BY HashInBucket DEF FdInsertWalk, UsedInv
<1>2. PICK n \in Node \ alloc :
        /\ alloc' = alloc \cup {n}
        /\ node' = [node EXCEPT ![n] =
                      [key |-> fd[t], next |-> NULL,
                       value |-> IF pc[t] = "insert" THEN t ELSE Hash[fd[t]]]]
        /\ Goto(t, IF pc[t] = "insert" THEN "link" ELSE "link_again", fd[t], n,
                LastOf(Hash[fd[t]]))
  BY DEF FdInsertWalk
<1>3. /\ head' = head
      /\ \A x \in Node : x # n => node'[x] = node[x]
      /\ node'[n].key = fd[t] /\ node'[n].next = NULL
      /\ node'[n].value \in Thread \cup {Hash[fd[t]]}
  BY <1>2 DEF TypeOK, FdInsertWalk
<1>4. \A b \in Bucket : \A x \in Chain(b) : x \in Node /\ x \in alloc /\ x # n
  BY <1>2 DEF ChainInv, NodeOf, Chain
<1>5. ASSUME NEW b \in Bucket PROVE Listed(head'[b], node', Chain(b)) /\ Chain(b)' = Chain(b)
  <2>1. \A x \in Chain(b) : node'[x].next = node[x].next BY <1>3, <1>4
  <2>2. Listed(head[b], node, Chain(b)) BY DEF ChainInv
  <2>3. Listed(head'[b], node', Chain(b)) BY <1>3, <2>1, <2>2, ListedSame
  <2>. QED BY <2>3, ChainIsPrimed
<1>6. \A b \in Bucket : \A x \in Node : x # n /\ NodeOf(b, x) => NodeOf(b, x)'
  BY <1>2, <1>3 DEF NodeOf
<1>7. ChainInv' BY <1>4, <1>5, <1>6 DEF ChainInv
<1>8. /\ \A u \in Thread : u # t =>
           pc'[u] = pc[u] /\ fd'[u] = fd[u] /\ new'[u] = new[u] /\ prev'[u] = prev[u]
      /\ pc'[t] \in Linking /\ fd'[t] = fd[t] /\ new'[t] = n
      /\ prev'[t] = LastOf(Hash[fd[t]])
  BY <1>2 DEF TypeOK, Goto, Linking
<1>9. \A u \in Thread : pc[u] \in Walked => fd[u] \in Fd /\ Hash[fd[u]] \in Bucket
  BY HashInBucket DEF UsedInv, Walked
<1>10. ASSUME NEW u \in Thread, pc'[u] \in Linking PROVE LinkSound(u)'
  <2>1. CASE u # t
    <3>1. LinkSound(u) /\ pc[u] \in Linking BY <1>8, <1>10, <2>1, SoundParts
    <3>2. PICK b, y : b = Hash[fd[u]] /\ y = new[u] OBVIOUS
    <3>3. b \in Bucket /\ y \in alloc /\ y \in Node /\ y # n /\ NodeOf(b, y)
      BY <1>2, <1>9, <3>1, <3>2 DEF LinkSound, NodeOf, TypeOK, Linking, Walked
    <3>4. NodeOf(b, y)' BY <1>6, <3>3
    <3>5. node'[y].key = fd[u] /\ node'[y].next = NULL BY <1>3, <3>1, <3>2, <3>3 DEF LinkSound
    <3>6. \A c \in Bucket : y \notin Chain(c)' BY <1>5, <3>1, <3>2 DEF LinkSound
    <3>7. \A v \in Thread \ {u} : pc'[v] \in Linking => new'[v] # new'[u]
      BY <1>8, <2>1, <3>1, <3>2, <3>3 DEF LinkSound
    <3>8. PICK p : p = prev[u] OBVIOUS
    <3>9. IF p = NULL THEN head'[b] = NULL ELSE p \in Chain(b)' /\ node'[p].next = NULL
      BY <1>3, <1>4, <1>5, <3>1, <3>2, <3>3, <3>8 DEF LinkSound
    <3>. QED BY <1>8, <2>1, <3>2, <3>4, <3>5, <3>6, <3>7, <3>8, <3>9 DEF LinkSound
  <2>2. CASE u = t
    <3>0. PICK b : b = Hash[fd[t]] OBVIOUS
    <3>1. NodeOf(b, n)' BY <1>1, <1>2, <1>3, <3>0 DEF NodeOf
    <3>2. \A c \in Bucket : n \notin Chain(c)' BY <1>4, <1>5
    <3>3. \A v \in Thread \ {t} : pc'[v] \in Linking => new'[v] # n
      <4>1. SUFFICES ASSUME NEW v \in Thread \ {t}, pc[v] \in Linking PROVE new[v] # n
        BY <1>8
      <4>2. LinkSound(v) BY <4>1, SoundParts
      <4>. QED BY <1>2, <4>2 DEF LinkSound, NodeOf
    <3>4. PICK p : p = LastOf(Hash[fd[t]]) OBVIOUS
    <3>5. IF p = NULL THEN head[b] = NULL ELSE p \in Chain(b) /\ node[p].next = NULL
      BY <1>1, <3>0, <3>4, LastFound
    <3>6. IF p = NULL THEN head'[b] = NULL ELSE p \in Chain(b)' /\ node'[p].next = NULL
      BY <1>1, <1>3, <1>4, <1>5, <3>0, <3>5
    <3>. QED BY <1>3, <1>8, <2>2, <3>0, <3>1, <3>2, <3>3, <3>4, <3>6 DEF LinkSound
  <2>. QED BY <2>1, <2>2
<1>11. ASSUME NEW u \in Thread, pc'[u] = "unlink" PROVE UnlinkSound(u)'
  <2>1. u # t /\ pc[u] = "unlink" BY <1>8, <1>11 DEF Linking
  <2>2. UnlinkSound(u) /\ Hash[fd[u]] \in Bucket BY <1>9, <2>1, SoundParts DEF Walked
  <2>3. PICK b, y, p : b = Hash[fd[u]] /\ y = new[u] /\ p = prev[u] OBVIOUS
  <2>4. y \in Chain(b)' /\ node'[y].key = fd[u]
    BY <1>3, <1>4, <1>5, <2>2, <2>3 DEF UnlinkSound
  <2>5. IF p = NULL THEN head'[b] = y ELSE p \in Chain(b)' /\ node'[p].next = y
    BY <1>3, <1>4, <1>5, <2>2, <2>3 DEF UnlinkSound
  <2>. QED BY <1>8, <2>1, <2>3, <2>4, <2>5 DEF UnlinkSound
<1>12. \A b \in Bucket : \A x \in Chain(b) : node'[x].key = node[x].key BY <1>3, <1>4
<1>. QED BY <1>5, <1>7, <1>10, <1>11, <1>12, SoundPartsPrimed

(* Nobody else has walked the chain: what the others found is in other chains. *)
LEMMA Alone ==
  ASSUME UsedInv, NEW t \in Thread, NoteRace(t), ~raced', NEW u \in Thread, u # t,
         pc[u] \in Walked
  PROVE  Hash[fd[u]] # Hash[fd[t]] /\ Hash[fd[u]] \in Bucket
BY HashInBucket DEF NoteRace, Races, Walked, UsedInv

(* What the second step of fd_insertByValue finds and writes *)
LEMMA LinkWrites ==
  ASSUME TypeOK, UsedInv, ChainInv, LinkInv, NEW t \in Thread, FdInsertLink(t),
         NEW b, NEW n, NEW p, b = Hash[fd[t]] /\ n = new[t] /\ p = prev[t]
  PROVE  /\ b \in Bucket /\ pc[t] \in Linking
         /\ NodeOf(b, n) /\ node[n].key = fd[t] /\ node[n].next = NULL /\ n \in Node
         /\ \A c \in Bucket : n \notin Chain(c)
         /\ \A u \in Thread \ {t} : pc[u] \in Linking => new[u] # n
         /\ IF p = NULL THEN head[b] = NULL ELSE p \in Chain(b) /\ node[p].next = NULL /\ p \in Node
         /\ alloc' = alloc
         /\ \A x \in Node : node'[x].key = node[x].key /\ node'[x].value = node[x].value
         /\ \A x \in Node : x # p => node'[x].next = node[x].next
         /\ IF p = NULL THEN head'[b] = n ELSE head'[b] = head[b] /\ node'[p].next = n
         /\ \A c \in Bucket : c # b => head'[c] = head[c]
<1>1. b = Hash[fd[t]] /\ n = new[t] /\ p = prev[t] OBVIOUS
<1>2. b \in Bucket /\ LinkSound(t) /\ pc[t] \in Linking
  BY <1>1, HashInBucket, SoundParts DEF FdInsertLink, UsedInv, Linking
<1>3. /\ NodeOf(b, n) /\ node[n].key = fd[t] /\ node[n].next = NULL /\ n \in Node
      /\ \A c \in Bucket : n \notin Chain(c)
      /\ \A u \in Thread \ {t} : pc[u] \in Linking => new[u] # n
      /\ IF p = NULL THEN head[b] = NULL ELSE p \in Chain(b) /\ node[p].next = NULL /\ p \in Node
  BY <1>1, <1>2 DEF LinkSound, NodeOf, TypeOK, Chain
<1>4. /\ alloc' = alloc
      /\ \A x \in Node : node'[x].key = node[x].key /\ node'[x].value = node[x].value
      /\ \A x \in Node : x # p => node'[x].next = node[x].next
      /\ IF p = NULL THEN head'[b] = n ELSE head'[b] = head[b] /\ node'[p].next = n
      /\ \A c \in Bucket : c # b => head'[c] = head[c]
  <2>1. alloc' = alloc BY DEF FdInsertLink
  <2>2. CASE p = NULL
    <3>1. head' = [head EXCEPT ![b] = n] /\ node' = node BY <1>1, <2>2 DEF FdInsertLink
    <3>. QED BY <1>2, <2>1, <2>2, <3>1 DEF TypeOK
  <2>3. CASE p # NULL
    <3>1. head' = head /\ node' = [node EXCEPT ![p].next = n] /\ p \in Node
      BY <1>1, <1>3, <2>3 DEF FdInsertLink
    <3>. QED BY <2>1, <2>3, <3>1 DEF TypeOK, NodeRecord
  <2>. QED BY <2>2, <2>3
<1>. QED BY <1>2, <1>3, <1>4

(* Linking a node after the last one keeps the chains, if no other update    *)
(* overlaps.                                                                 *)
LEMMA InsertLinkSound ==
  ASSUME TypeOK, UsedInv, ChainInv, LinkInv, UnlinkInv, NEW t \in Thread, FdInsertLink(t),
         ~raced'
  PROVE  /\ ChainInv' /\ LinkInv' /\ UnlinkInv'
         /\ \A b \in Bucket : Chain(b)' = IF b = Hash[fd[t]] THEN Chain(b) \cup {new[t]} ELSE Chain(b)
         /\ \A x \in Node : node'[x].key = node[x].key
         /\ new[t] \notin Chain(Hash[fd[t]]) /\ node[new[t]].key = fd[t]
<1>1. PICK b, n, p : b = Hash[fd[t]] /\ n = new[t] /\ p = prev[t] OBVIOUS
<1>2. b \in Bucket /\ pc[t] \in Linking BY <1>1, LinkWrites
<1>3. /\ NodeOf(b, n) /\ node[n].key = fd[t] /\ node[n].next = NULL /\ n \in Node
      /\ \A c \in Bucket : n \notin Chain(c)
      /\ \A u \in Thread \ {t} : pc[u] \in Linking => new[u] # n
      /\ IF p = NULL THEN head[b] = NULL ELSE p \in Chain(b) /\ node[p].next = NULL /\ p \in Node
  BY <1>1, LinkWrites
<1>4. /\ alloc' = alloc
      /\ \A x \in Node : node'[x].key = node[x].key /\ node'[x].value = node[x].value
      /\ \A x \in Node : x # p => node'[x].next = node[x].next
      /\ IF p = NULL THEN head'[b] = n ELSE head'[b] = head[b] /\ node'[p].next = n
      /\ \A c \in Bucket : c # b => head'[c] = head[c]
  BY <1>1, LinkWrites
<1>5. \A c \in Bucket : \A x \in Chain(c) : x \in Node BY DEF Chain
<1>6. Listed(head'[b], node', Chain(b) \cup {n})
  <2>1. Listed(head[b], node, Chain(b)) BY <1>2 DEF ChainInv
  <2>2. CASE p = NULL
    <3>1. Chain(b) = {} BY <1>3, <2>1, <2>2, ListedShape
    <3>2. node'[n].next = NULL /\ head'[b] = n BY <1>3, <1>4, <2>2, HookAssumption
    <3>3. Listed(n, node', {n}) BY <1>3, <3>2, ListedFirst
    <3>. QED BY <3>1, <3>2, <3>3
  <2>3. CASE p # NULL
    <3>1. p \in Chain(b) /\ node[p].next = NULL /\ n \in Node /\ n \notin Chain(b) /\ n # p
      BY <1>2, <1>3, <2>3
    <3>2. node'[p].next = n /\ node'[n].next = NULL /\ head'[b] = head[b]
      BY <1>3, <1>4, <2>3, <3>1
    <3>3. \A x \in Chain(b) : x # p => node'[x].next = node[x].next BY <1>2, <1>4, <1>5
    <3>4. Listed(head[b], node', Chain(b) \cup {n})
      BY <2>1, <3>1, <3>2, <3>3, ListedAppend DEF Appends
    <3>. QED BY <3>2, <3>4
  <2>. QED BY <2>2, <2>3
<1>7. ASSUME NEW c \in Bucket, c # b
      PROVE  Listed(head'[c], node', Chain(c)) /\ \A x \in Chain(c) : node'[x].next = node[x].next
  <2>1. \A x \in Chain(c) : x # p
    BY <1>2, <1>3, <1>5, <1>7, Disjoint, HookAssumption
  <2>2. \A x \in Chain(c) : node'[x].next = node[x].next BY <1>4, <1>5, <1>7, <2>1
  <2>3. Listed(head[c], node, Chain(c)) BY DEF ChainInv
  <2>4. head'[c] = head[c] BY <1>4, <1>7
  <2>. QED BY <2>2, <2>3, <2>4, ListedSame
<1>8. Chain(b)' = Chain(b) \cup {n} /\ \A c \in Bucket : c # b => Chain(c)' = Chain(c)
  BY <1>6, <1>7, ChainIsPrimed
<1>9. \A c : \A x \in Node : NodeOf(c, x) => NodeOf(c, x)'
  BY <1>4 DEF NodeOf
<1>10. ChainInv'
  <2>1. ASSUME NEW c \in Bucket
        PROVE  Listed(head'[c], node', Chain(c)') /\ \A x \in Chain(c)' : NodeOf(c, x)'
    <3>1. CASE c = b BY <1>2, <1>3, <1>5, <1>6, <1>8, <1>9, <3>1 DEF ChainInv
    <3>2. CASE c # b BY <1>5, <1>7, <1>8, <1>9, <3>2 DEF ChainInv
    <3>. QED BY <3>1, <3>2
  <2>. QED BY <2>1 DEF ChainInv
<1>11. /\ \A u \in Thread : u # t =>
            pc'[u] = pc[u] /\ fd'[u] = fd[u] /\ new'[u] = new[u] /\ prev'[u] = prev[u]
       /\ pc'[t] = "idle"
  BY DEF TypeOK, Goto, FdInsertLink
<1>12. ASSUME NEW u \in Thread, u # t, pc[u] \in Walked
       PROVE  Hash[fd[u]] # b /\ Hash[fd[u]] \in Bucket
  BY <1>1, <1>12, Alone DEF FdInsertLink
<1>13. ASSUME NEW u \in Thread, pc'[u] \in Linking PROVE LinkSound(u)'
  <2>1. u # t /\ pc[u] \in Linking /\ pc[u] \in Walked BY <1>11, <1>13 DEF Linking, Walked
  <2>2. PICK c, y : c = Hash[fd[u]] /\ y = new[u] OBVIOUS
  <2>3. LinkSound(u) /\ c # b /\ c \in Bucket BY <1>12, <2>1, <2>2, SoundParts
  <2>4. new[u] \in Node /\ NodeOf(c, new[u]) BY <2>2, <2>3 DEF LinkSound, NodeOf, TypeOK
  <2>5. new[u] # p
    BY <1>2, <1>3, <2>3, <2>4, HookAssumption DEF LinkSound
  <2>6. node'[new[u]].key = fd[u] /\ node'[new[u]].next = NULL
    BY <1>4, <2>3, <2>4, <2>5 DEF LinkSound
  <2>7. \A x \in Bucket : new[u] \notin Chain(x)'
    BY <1>3, <1>8, <2>1, <2>3 DEF LinkSound
  <2>8. IF prev[u] = NULL THEN head'[c] = NULL
        ELSE prev[u] \in Chain(c)' /\ node'[prev[u]].next = NULL
    BY <1>4, <1>7, <1>8, <2>2, <2>3 DEF LinkSound
  <2>9. \A v \in Thread \ {u} : pc'[v] \in Linking => new'[v] # new'[u]
    BY <1>11, <2>1, <2>3 DEF LinkSound, Linking
  <2>10. NodeOf(c, y)' BY <1>9, <2>2, <2>4
  <2>. QED BY <1>11, <2>1, <2>2, <2>6, <2>7, <2>8, <2>9, <2>10 DEF LinkSound
<1>14. ASSUME NEW u \in Thread, pc'[u] = "unlink" PROVE UnlinkSound(u)'
  <2>1. u # t /\ pc[u] = "unlink" /\ pc[u] \in Walked BY <1>11, <1>14 DEF Walked
  <2>2. PICK c : c = Hash[fd[u]] OBVIOUS
  <2>3. UnlinkSound(u) /\ c # b /\ c \in Bucket BY <1>12, <2>1, <2>2, SoundParts
  <2>4. new[u] \in Chain(c)' /\ node'[new[u]].key = fd[u]
    BY <1>4, <1>5, <1>8, <2>2, <2>3 DEF UnlinkSound
  <2>5. IF prev[u] = NULL THEN head'[c] = new[u]
        ELSE prev[u] \in Chain(c)' /\ node'[prev[u]].next = new[u]
    BY <1>4, <1>7, <1>8, <2>2, <2>3 DEF UnlinkSound
  <2>. QED BY <1>11, <2>1, <2>2, <2>4, <2>5 DEF UnlinkSound
<1>15. ChainInv' /\ LinkInv' /\ UnlinkInv' BY <1>10, <1>13, <1>14, SoundPartsPrimed
<1>. QED BY <1>1, <1>2, <1>3, <1>4, <1>8, <1>15

(* What the second step of fd_deleteByKey finds and writes *)
LEMMA UnlinkWrites ==
  ASSUME TypeOK, UsedInv, ChainInv, UnlinkInv, NEW t \in Thread, FdDeleteUnlink(t),
         NEW b, NEW n, NEW p, b = Hash[fd[t]] /\ n = new[t] /\ p = prev[t]
  PROVE  /\ b \in Bucket /\ pc[t] = "unlink"
         /\ n \in Chain(b) /\ n \in Node /\ node[n].key = fd[t]
         /\ IF p = NULL THEN head[b] = n ELSE p \in Chain(b) /\ node[p].next = n /\ p \in Node
         /\ alloc' = alloc \ {n}
         /\ \A x \in Node : x # n => node'[x].key = node[x].key /\ node'[x].value = node[x].value
         /\ \A x \in Node : x # p => node'[x].next = node[x].next
         /\ IF p = NULL THEN head'[b] = node[n].next
            ELSE head'[b] = head[b] /\ node'[p].next = node[n].next
         /\ \A c \in Bucket : c # b => head'[c] = head[c]
<1>1. b = Hash[fd[t]] /\ n = new[t] /\ p = prev[t] OBVIOUS
<1>2. b \in Bucket /\ UnlinkSound(t) /\ pc[t] = "unlink"
  BY <1>1, HashInBucket, SoundParts DEF FdDeleteUnlink, UsedInv
<1>3. /\ n \in Chain(b) /\ n \in Node /\ node[n].key = fd[t]
      /\ IF p = NULL THEN head[b] = n ELSE p \in Chain(b) /\ node[p].next = n /\ p \in Node
  BY <1>1, <1>2 DEF UnlinkSound, Chain
<1>4. /\ alloc' = alloc \ {n}
      /\ \A x \in Node : x # n => node'[x].key = node[x].key /\ node'[x].value = node[x].value
      /\ \A x \in Node : x # p => node'[x].next = node[x].next
      /\ IF p = NULL THEN head'[b] = node[n].next
         ELSE head'[b] = head[b] /\ node'[p].next = node[n].next
      /\ \A c \in Bucket : c # b => head'[c] = head[c]
  <2>1. alloc' = alloc \ {n} BY <1>1 DEF FdDeleteUnlink
  <2>2. PICK freed : freed = [node EXCEPT ![n].key = Garbage, ![n].value = Garbage] OBVIOUS
  <2>3. /\ freed \in [Node -> NodeRecord]
        /\ \A x \in Node : freed[x].next = node[x].next
        /\ \A x \in Node : x # n => freed[x] = node[x]
    <3>1. node \in [Node -> NodeRecord] BY DEF TypeOK
    <3>2. freed \in [Node -> NodeRecord] /\ \A x \in Node : freed[x].next = node[x].next
      BY ZenonT(60), <1>3, <2>2, <3>1 DEF NodeRecord
    <3>3. PICK half : half = [node EXCEPT ![n].key = Garbage] OBVIOUS
    <3>4. freed = [half EXCEPT ![n].value = Garbage] BY <2>2, <3>3
    <3>5. DOMAIN half = Node /\ \A x \in Node : x # n => half[x] = node[x] BY <3>1, <3>3
    <3>6. \A x \in Node : x # n => freed[x] = half[x] BY <3>4, <3>5
    <3>. QED BY <3>2, <3>5, <3>6
  <2>4. CASE p = NULL
    <3>1. head' = [head EXCEPT ![b] = node[n].next] /\ node' = freed
      BY <1>1, <2>2, <2>4 DEF FdDeleteUnlink
    <3>. QED BY <1>2, <2>1, <2>3, <2>4, <3>1 DEF TypeOK
  <2>5. CASE p # NULL
    <3>1. head' = head /\ node' = [freed EXCEPT ![p].next = node[n].next] /\ p \in Node
      BY <1>1, <1>3, <2>2, <2>5 DEF FdDeleteUnlink
    <3>. QED BY <2>1, <2>3, <2>5, <3>1 DEF NodeRecord
  <2>. QED BY <2>4, <2>5
<1>. QED BY <1>2, <1>3, <1>4

(* Unlinking a node keeps the chains, if no other update overlaps. *)
LEMMA DeleteUnlinkSound ==
  ASSUME TypeOK, UsedInv, ChainInv, LinkInv, UnlinkInv, NEW t \in Thread, FdDeleteUnlink(t),
         ~raced'
  PROVE  /\ ChainInv' /\ LinkInv' /\ UnlinkInv'
         /\ \A b \in Bucket : Chain(b)' = IF b = Hash[fd[t]] THEN Chain(b) \ {new[t]} ELSE Chain(b)
         /\ \A x \in Node : x # new[t] => node'[x].key = node[x].key
         /\ new[t] \in Chain(Hash[fd[t]]) /\ node[new[t]].key = fd[t]
<1>1. PICK b, n, p : b = Hash[fd[t]] /\ n = new[t] /\ p = prev[t] OBVIOUS
<1>2. b \in Bucket /\ pc[t] = "unlink" BY <1>1, UnlinkWrites
<1>3. /\ n \in Chain(b) /\ n \in Node /\ node[n].key = fd[t]
      /\ IF p = NULL THEN head[b] = n ELSE p \in Chain(b) /\ node[p].next = n /\ p \in Node
  BY <1>1, UnlinkWrites
<1>4. /\ alloc' = alloc \ {n}
      /\ \A x \in Node : x # n => node'[x].key = node[x].key /\ node'[x].value = node[x].value
      /\ \A x \in Node : x # p => node'[x].next = node[x].next
      /\ IF p = NULL THEN head'[b] = node[n].next
         ELSE head'[b] = head[b] /\ node'[p].next = node[n].next
      /\ \A c \in Bucket : c # b => head'[c] = head[c]
  BY <1>1, UnlinkWrites
<1>5. \A c \in Bucket : \A x \in Chain(c) : x \in Node BY DEF Chain
<1>6. Listed(head'[b], node', Chain(b) \ {n})
  <2>1. Listed(head[b], node, Chain(b)) BY <1>2 DEF ChainInv
  <2>2. IF p = NULL THEN head[b] = n /\ head'[b] = node[n].next
        ELSE p \in Chain(b) /\ node[p].next = n /\ head'[b] = head[b]
             /\ node'[p].next = node[n].next
    BY <1>3, <1>4
  <2>3. \A x \in Chain(b) : x # n /\ x # p => node'[x].next = node[x].next
    BY <1>2, <1>4, <1>5
  <2>4. PICK first, nodes, members, begin, other :
          /\ first = head[b] /\ nodes = node /\ members = Chain(b)
          /\ begin = head'[b] /\ other = node'
    OBVIOUS
  <2>5. /\ Listed(first, nodes, members) /\ n \in members
        /\ Removes(first, nodes, begin, other, members, p, n)
    BY <1>3, <2>1, <2>2, <2>3, <2>4 DEF Removes
  <2>6. Listed(begin, other, members \ {n}) BY <2>5, ListedRemove
  <2>. QED BY <2>4, <2>6
<1>7. ASSUME NEW c \in Bucket, c # b
      PROVE  /\ Listed(head'[c], node', Chain(c))
             /\ \A x \in Chain(c) : node'[x].next = node[x].next /\ x # n /\ x # p
  <2>1. \A x \in Chain(c) : x # p /\ x # n
    BY <1>2, <1>3, <1>5, <1>7, Disjoint, HookAssumption
  <2>2. \A x \in Chain(c) : node'[x].next = node[x].next BY <1>4, <1>5, <1>7, <2>1
  <2>3. Listed(head[c], node, Chain(c)) BY DEF ChainInv
  <2>4. head'[c] = head[c] BY <1>4, <1>7
  <2>. QED BY <2>1, <2>2, <2>3, <2>4, ListedSame
<1>8. Chain(b)' = Chain(b) \ {n} /\ \A c \in Bucket : c # b => Chain(c)' = Chain(c)
  BY <1>6, <1>7, ChainIsPrimed
<1>9. \A c : \A x \in Node : x # n /\ NodeOf(c, x) => NodeOf(c, x)'
  BY <1>4 DEF NodeOf
<1>10. ChainInv'
  <2>1. ASSUME NEW c \in Bucket
        PROVE  Listed(head'[c], node', Chain(c)') /\ \A x \in Chain(c)' : NodeOf(c, x)'
    <3>1. CASE c = b BY <1>2, <1>3, <1>5, <1>6, <1>8, <1>9, <3>1 DEF ChainInv
    <3>2. CASE c # b BY <1>5, <1>7, <1>8, <1>9, <3>2 DEF ChainInv
    <3>. QED BY <3>1, <3>2
  <2>. QED BY <2>1 DEF ChainInv
<1>11. /\ \A u \in Thread : u # t =>
            pc'[u] = pc[u] /\ fd'[u] = fd[u] /\ new'[u] = new[u] /\ prev'[u] = prev[u]
       /\ pc'[t] = "idle"
  BY DEF TypeOK, Goto, FdDeleteUnlink
<1>12. ASSUME NEW u \in Thread, u # t, pc[u] \in Walked
       PROVE  Hash[fd[u]] # b /\ Hash[fd[u]] \in Bucket
  BY <1>1, <1>12, Alone DEF FdDeleteUnlink
<1>13. ASSUME NEW u \in Thread, pc'[u] \in Linking PROVE LinkSound(u)'
  <2>1. u # t /\ pc[u] \in Linking /\ pc[u] \in Walked BY <1>11, <1>13 DEF Linking, Walked
  <2>2. PICK c, y, q : c = Hash[fd[u]] /\ y = new[u] /\ q = prev[u] OBVIOUS
  <2>3. LinkSound(u) /\ c # b /\ c \in Bucket BY <1>12, <2>1, <2>2, SoundParts
  <2>4. y \in Node /\ NodeOf(c, y) BY <2>2, <2>3 DEF LinkSound, NodeOf, TypeOK
  <2>5. y # p /\ y # n
    BY <1>2, <1>3, <2>2, <2>3, <2>4, HookAssumption DEF LinkSound
  <2>6. node'[y].key = fd[u] /\ node'[y].next = NULL
    BY <1>4, <2>2, <2>3, <2>4, <2>5 DEF LinkSound
  <2>7. \A x \in Bucket : y \notin Chain(x)' BY <1>8, <2>2, <2>3 DEF LinkSound
  <2>8. IF q = NULL THEN head'[c] = NULL ELSE q \in Chain(c)' /\ node'[q].next = NULL
    BY <1>4, <1>7, <1>8, <2>2, <2>3 DEF LinkSound
  <2>9. \A v \in Thread \ {u} : pc'[v] \in Linking => new'[v] # new'[u]
    BY <1>11, <2>1, <2>3 DEF LinkSound, Linking
  <2>10. NodeOf(c, y)' BY <1>9, <2>4, <2>5
  <2>. QED BY <1>11, <2>1, <2>2, <2>6, <2>7, <2>8, <2>9, <2>10 DEF LinkSound
<1>14. ASSUME NEW u \in Thread, pc'[u] = "unlink" PROVE UnlinkSound(u)'
  <2>1. u # t /\ pc[u] = "unlink" /\ pc[u] \in Walked BY <1>11, <1>14 DEF Walked
  <2>2. PICK c, y, q : c = Hash[fd[u]] /\ y = new[u] /\ q = prev[u] OBVIOUS
  <2>3. UnlinkSound(u) /\ c # b /\ c \in Bucket BY <1>12, <2>1, <2>2, SoundParts
  <2>4. y \in Chain(c)' /\ node'[y].key = fd[u]
    BY <1>4, <1>5, <1>7, <1>8, <2>2, <2>3 DEF UnlinkSound
  <2>5. IF q = NULL THEN head'[c] = y ELSE q \in Chain(c)' /\ node'[q].next = y
    BY <1>4, <1>7, <1>8, <2>2, <2>3 DEF UnlinkSound
  <2>. QED BY <1>11, <2>1, <2>2, <2>4, <2>5 DEF UnlinkSound
<1>15. ChainInv' /\ LinkInv' /\ UnlinkInv' BY <1>10, <1>13, <1>14, SoundPartsPrimed
<1>. QED BY <1>1, <1>2, <1>3, <1>4, <1>8, <1>15

---------------------------------------------------------------------------
(* The nodes of a descriptor, counted *)

Enough(d) ==
  Cardinality(NodesFor(d)) >= Cardinality(Deleting(d)) + (IF Held(d) THEN 1 ELSE 0)

NoSpare(d) ==
  Cardinality(NodesFor(d)) + Cardinality(Inserting(d)) <=
    Cardinality(Deleting(d)) + (IF d \in snic THEN 1 ELSE 0)

AgainConnected == \A t \in Thread : pc[t] \in {"insert_again", "link_again"} => fd[t] \in connected

(* The balance of nodes, descriptor by descriptor. *)
LEMMA CountParts ==
  /\ EnoughNodes <=> \A d \in Fd \ misclosed : Enough(d)
  /\ NoSpareNodes <=> (\A d \in Fd \ (misclosed \cup connected) : NoSpare(d)) /\ AgainConnected
BY DEF EnoughNodes, NoSpareNodes, Enough, NoSpare, AgainConnected

(* The same in the next state. *)
LEMMA CountPartsPrimed ==
  ASSUME \A d \in Fd : d \notin misclosed' => Enough(d)',
         \A d \in Fd : d \notin misclosed' /\ d \notin connected' => NoSpare(d)',
         AgainConnected'
  PROVE  EnoughNodes' /\ NoSpareNodes'
BY DEF EnoughNodes, NoSpareNodes, Enough, NoSpare, AgainConnected

(* The numbers that are compared are natural numbers. *)
LEMMA Counts ==
  ASSUME NEW d
  PROVE  /\ IsFiniteSet(NodesFor(d)) /\ Cardinality(NodesFor(d)) \in Nat
         /\ IsFiniteSet(Inserting(d)) /\ Cardinality(Inserting(d)) \in Nat
         /\ IsFiniteSet(Deleting(d)) /\ Cardinality(Deleting(d)) \in Nat
<1>1. NodesFor(d) \in SUBSET Node BY DEF NodesFor, Chain
<1>2. Inserting(d) \in SUBSET Thread /\ Deleting(d) \in SUBSET Thread BY DEF Inserting, Deleting
<1>. QED BY <1>1, <1>2, HookAssumption, FS_Subset, FS_CardinalityType

(* One element more *)
LEMMA OneMore ==
  ASSUME NEW S, IsFiniteSet(S), NEW x, x \notin S
  PROVE  Cardinality(S \cup {x}) = Cardinality(S) + 1
BY FS_AddElement

(* One element less *)
LEMMA OneLess ==
  ASSUME NEW S, IsFiniteSet(S), NEW x \in S
  PROVE  Cardinality(S \ {x}) = Cardinality(S) - 1 /\ Cardinality(S) >= 1
<1>1. Cardinality(S \ {x}) = Cardinality(S) - 1 BY FS_RemoveElement
<1>2. IsFiniteSet(S \ {x}) BY FS_RemoveElement
<1>3. Cardinality(S \ {x}) \in Nat /\ Cardinality(S) \in Nat BY <1>2, FS_CardinalityType
<1>. QED BY <1>1, <1>3

(* Where a step leads a thread says which of the sets it enters and leaves. *)
LEMMA PendingSets ==
  ASSUME TypeOK, NEW t \in Thread, NEW l, NEW e, NEW n, NEW p, Goto(t, l, e, n, p), NEW d
  PROVE  /\ Inserting(d)' = IF l \in {"insert", "link"} /\ e = d
                            THEN Inserting(d) \cup {t} ELSE Inserting(d) \ {t}
         /\ Deleting(d)' = IF l \in {"delete", "unlink"} /\ e = d
                           THEN Deleting(d) \cup {t} ELSE Deleting(d) \ {t}
<1>1. /\ \A u \in Thread : u # t => pc'[u] = pc[u] /\ fd'[u] = fd[u]
      /\ pc'[t] = l /\ fd'[t] = e
  BY DEF TypeOK, Goto
<1>. QED BY <1>1 DEF Inserting, Deleting

(* Nothing a descriptor counts is changed, or to its advantage. *)
LEMMA SameCounts ==
  ASSUME NEW d, NodesFor(d)' = NodesFor(d), Inserting(d)' = Inserting(d),
         Deleting(d)' = Deleting(d), Held(d)' => Held(d), d \in snic => d \in snic'
  PROVE  (Enough(d) => Enough(d)') /\ (NoSpare(d) => NoSpare(d)')
<1>1. PICK a \in Nat, i \in Nat, k \in Nat :
        a = Cardinality(NodesFor(d)) /\ i = Cardinality(Inserting(d))
        /\ k = Cardinality(Deleting(d))
  BY Counts
<1>2. Cardinality(NodesFor(d))' = a /\ Cardinality(Inserting(d))' = i
      /\ Cardinality(Deleting(d))' = k
  BY <1>1
<1>3. Enough(d) => Enough(d)' BY <1>1, <1>2 DEF Enough
<1>4. NoSpare(d) => NoSpare(d)' BY <1>1, <1>2 DEF NoSpare
<1>. QED BY <1>3, <1>4

(* A step that leaves the nodes' keys alone leaves their number alone. *)
LEMMA NodesStay ==
  ASSUME NEW d \in Fd, Chain(Hash[d])' = Chain(Hash[d]),
         \A x \in Chain(Hash[d]) : node'[x].key = node[x].key
  PROVE  NodesFor(d)' = NodesFor(d)
BY DEF NodesFor

(* Balance: a node that is allocated is not in a chain yet. *)
LEMMA InsertWalkCount ==
  ASSUME TypeOK, UsedInv, ChainInv, LinkInv, UnlinkInv, EnoughNodes, NoSpareNodes,
         NEW t \in Thread, FdInsertWalk(t)
  PROVE  EnoughNodes' /\ NoSpareNodes'
<1>1. PICK l, n, p : Goto(t, l, fd[t], n, p)
        /\ l = IF pc[t] = "insert" THEN "link" ELSE "link_again"
  BY DEF FdInsertWalk
<1>2. pc[t] \in {"insert", "insert_again"} BY DEF FdInsertWalk
<1>3. PICK e : e = fd[t] OBVIOUS
<1>4. ASSUME NEW d \in Fd
      PROVE  (Enough(d) => Enough(d)') /\ (NoSpare(d) => NoSpare(d)')
  <2>1. NodesFor(d)' = NodesFor(d) BY InsertWalkSound, NodesStay, HashInBucket
  <2>2. t \in Inserting(d) <=> (l = "link" /\ e = d) BY <1>1, <1>2, <1>3 DEF Inserting
  <2>3. t \notin Deleting(d) BY <1>2 DEF Deleting
  <2>4. Goto(t, l, e, n, p) BY <1>1, <1>3
  <2>5. Inserting(d)' = Inserting(d) /\ Deleting(d)' = Deleting(d)
    BY <1>1, <2>2, <2>3, <2>4, PendingSets
  <2>6. (Held(d)' => Held(d)) /\ (d \in snic => d \in snic') BY DEF Held, FdInsertWalk
  <2>. QED BY <2>1, <2>5, <2>6, SameCounts
<1>5. AgainConnected'
  <2>1. /\ \A u \in Thread : u # t => pc'[u] = pc[u] /\ fd'[u] = fd[u]
        /\ pc'[t] = l /\ fd'[t] = fd[t]
    BY <1>1 DEF TypeOK, Goto
  <2>2. AgainConnected /\ connected' = connected BY CountParts DEF FdInsertWalk, history
  <2>. QED BY <1>1, <1>2, <2>1, <2>2 DEF AgainConnected
<1>6. misclosed' = misclosed /\ connected' = connected BY DEF FdInsertWalk, history
<1>. QED BY <1>4, <1>5, <1>6, CountParts, CountPartsPrimed

(* Balance: an insert that was pending becomes a node. *)
LEMMA InsertLinkCount ==
  ASSUME TypeOK, UsedInv, ChainInv, LinkInv, UnlinkInv, EnoughNodes, NoSpareNodes,
         NEW t \in Thread, FdInsertLink(t), ~raced'
  PROVE  EnoughNodes' /\ NoSpareNodes'
<1>1. PICK e, y : e = fd[t] /\ y = new[t] OBVIOUS
<1>2. e \in Fd /\ Hash[e] \in Bucket /\ pc[t] \in Linking
  BY <1>1, HashInBucket DEF FdInsertLink, UsedInv, Linking
<1>3. Goto(t, "idle", NULL, NULL, NULL) BY DEF FdInsertLink
<1>4. /\ \A b \in Bucket : Chain(b)' = IF b = Hash[e] THEN Chain(b) \cup {y} ELSE Chain(b)
      /\ \A x \in Node : node'[x].key = node[x].key
      /\ y \notin Chain(Hash[e]) /\ node[y].key = e
  BY <1>1, InsertLinkSound
<1>5. y \in Node BY <1>1, <1>2 DEF UsedInv, Linking, Walked, Used
<1>6. \A b : \A x \in Chain(b) : x \in Node BY DEF Chain
<1>7. misclosed' = misclosed /\ connected' = connected /\ snic' = snic BY DEF FdInsertLink
<1>8. ASSUME NEW d \in Fd, d # e
      PROVE  (Enough(d) => Enough(d)') /\ (NoSpare(d) => NoSpare(d)')
  <2>1. NodesFor(d)' = NodesFor(d)
    <3>1. PICK b : b = Hash[d] OBVIOUS
    <3>2. b \in Bucket BY <3>1, HashInBucket
    <3>3. NodesFor(d)' = {x \in Chain(b)' : node'[x].key = d}
          /\ NodesFor(d) = {x \in Chain(b) : node[x].key = d}
      BY <3>1 DEF NodesFor
    <3>4. Chain(b)' = Chain(b) \/ Chain(b)' = Chain(b) \cup {y} BY <1>4, <3>2
    <3>5. node'[y].key # d BY <1>4, <1>5, <1>8
    <3>. QED BY <1>4, <1>5, <1>6, <3>3, <3>4, <3>5
  <2>2. t \notin Inserting(d) /\ t \notin Deleting(d) BY <1>1, <1>8 DEF Inserting, Deleting
  <2>3. ~("idle" \in {"insert", "link"}) /\ ~("idle" \in {"delete", "unlink"}) OBVIOUS
  <2>4. Inserting(d)' = Inserting(d) /\ Deleting(d)' = Deleting(d)
    BY <1>3, <2>2, <2>3, PendingSets
  <2>5. (Held(d)' => Held(d)) /\ (d \in snic => d \in snic')
    BY <1>1, <1>8 DEF Held, FdInsertLink
  <2>. QED BY <2>1, <2>4, <2>5, SameCounts
<1>9. PICK a \in Nat, i \in Nat, k \in Nat :
        a = Cardinality(NodesFor(e)) /\ i = Cardinality(Inserting(e))
        /\ k = Cardinality(Deleting(e))
  BY Counts
<1>10. Cardinality(NodesFor(e)') = a + 1
  <2>1. NodesFor(e)' = NodesFor(e) \cup {y}
    <3>1. PICK b : b = Hash[e] OBVIOUS
    <3>2. NodesFor(e)' = {x \in Chain(b)' : node'[x].key = e}
          /\ NodesFor(e) = {x \in Chain(b) : node[x].key = e}
      BY <3>1 DEF NodesFor
    <3>3. Chain(b)' = Chain(b) \cup {y} BY <1>2, <1>4, <3>1
    <3>. QED BY <1>4, <1>5, <1>6, <3>2, <3>3
  <2>2. y \notin NodesFor(e) BY <1>4 DEF NodesFor
  <2>. QED BY <1>9, <2>1, <2>2, Counts, OneMore
<1>11. Deleting(e)' = Deleting(e)
  <2>1. t \notin Deleting(e) BY <1>2 DEF Deleting, Linking
  <2>2. ~("idle" \in {"delete", "unlink"}) OBVIOUS
  <2>. QED BY <1>3, <2>1, <2>2, PendingSets
<1>12. Enough(e) => Enough(e)'
  <2>1. Cardinality(NodesFor(e))' = a + 1 /\ Cardinality(Deleting(e))' = k
    BY <1>9, <1>10, <1>11
  <2>. QED BY <1>9, <2>1 DEF Enough
<1>13. ASSUME e \notin connected, NoSpare(e), AgainConnected PROVE NoSpare(e)'
  <2>1. pc[t] = "link" BY <1>1, <1>2, <1>13 DEF AgainConnected, Linking
  <2>2. t \in Inserting(e) BY <1>1, <2>1 DEF Inserting
  <2>3. ~("idle" \in {"insert", "link"}) OBVIOUS
  <2>4. Inserting(e)' = Inserting(e) \ {t} BY <1>3, <2>3, PendingSets
  <2>5. Cardinality(Inserting(e)') = i - 1 /\ i >= 1 BY <1>9, <2>2, <2>4, Counts, OneLess
  <2>6. Cardinality(NodesFor(e))' = a + 1 /\ Cardinality(Deleting(e))' = k
        /\ Cardinality(Inserting(e))' = i - 1
    BY <1>9, <1>10, <1>11, <2>5
  <2>. QED BY <1>7, <1>9, <1>13, <2>5, <2>6 DEF NoSpare
<1>14. AgainConnected'
  <2>1. /\ \A u \in Thread : u # t => pc'[u] = pc[u] /\ fd'[u] = fd[u]
        /\ pc'[t] = "idle"
    BY <1>3 DEF TypeOK, Goto
  <2>2. AgainConnected BY CountParts
  <2>. QED BY <1>7, <2>1, <2>2 DEF AgainConnected
<1>. QED BY <1>7, <1>8, <1>12, <1>13, <1>14, CountParts, CountPartsPrimed

(* Balance: a delete finds nothing only after a close of the wrong descriptor. *)
LEMMA DeleteWalkCount ==
  ASSUME TypeOK, UsedInv, EnoughNodes, NoSpareNodes, NEW t \in Thread, FdDeleteWalk(t)
  PROVE  EnoughNodes' /\ NoSpareNodes'
<1>1. PICK e : e = fd[t] OBVIOUS
<1>2. /\ UNCHANGED table /\ pc[t] = "delete" /\ e \in Fd /\ Hash[e] \in Bucket
      /\ misclosed' = misclosed /\ connected' = connected /\ snic' = snic /\ app' = app
  BY <1>1, HashInBucket DEF FdDeleteWalk, UsedInv, history
<1>3. ASSUME NEW d PROVE NodesFor(d)' = NodesFor(d)
  <2>1. PICK b : b = Hash[d] OBVIOUS
  <2>2. Chain(b)' = Chain(b) /\ node' = node BY <1>2, ChainsStay DEF table
  <2>. QED BY <2>1, <2>2 DEF NodesFor
<1>4. \A d : (Held(d)' => Held(d)) /\ (d \in snic => d \in snic') BY <1>2 DEF Held
<1>5. AgainConnected /\ t \in Deleting(e) /\ \A d : t \notin Inserting(d)
  BY <1>1, <1>2, CountParts DEF Deleting, Inserting
<1>6. \A d : d # e => t \notin Deleting(d) BY <1>1 DEF Deleting
<1>7. ASSUME NEW n, NEW p, Goto(t, "unlink", e, n, p) PROVE EnoughNodes' /\ NoSpareNodes'
  <2>1. ASSUME NEW d PROVE Inserting(d)' = Inserting(d) /\ Deleting(d)' = Deleting(d)
    <3>1. ~("unlink" \in {"insert", "link"}) /\ "unlink" \in {"delete", "unlink"} OBVIOUS
    <3>2. Inserting(d)' = Inserting(d) \ {t} BY <1>7, <3>1, PendingSets
    <3>3. Deleting(d)' = IF e = d THEN Deleting(d) \cup {t} ELSE Deleting(d) \ {t}
      BY <1>7, <3>1, PendingSets
    <3>4. Inserting(d)' = Inserting(d) BY <1>5, <3>2, Zenon
    <3>. QED BY <1>5, <1>6, <3>3, <3>4
  <2>2. \A d : (Enough(d) => Enough(d)') /\ (NoSpare(d) => NoSpare(d)')
    BY <1>3, <1>4, <2>1, SameCounts
  <2>3. AgainConnected'
    <3>1. /\ \A u \in Thread : u # t => pc'[u] = pc[u] /\ fd'[u] = fd[u]
          /\ pc'[t] = "unlink"
      BY <1>7 DEF TypeOK, Goto
    <3>. QED BY <1>2, <1>5, <3>1 DEF AgainConnected
  <2>. QED BY <1>2, <2>2, <2>3, CountParts, CountPartsPrimed
<1>8. ASSUME Goto(t, "idle", NULL, NULL, NULL), Find(Hash[e], e) = {}
      PROVE  EnoughNodes' /\ NoSpareNodes'
  <2>1. ASSUME NEW d
        PROVE  Inserting(d)' = Inserting(d) /\ Deleting(d)' = Deleting(d) \ {t}
    <3>1. ~("idle" \in {"insert", "link"}) /\ ~("idle" \in {"delete", "unlink"}) OBVIOUS
    <3>2. Inserting(d)' = Inserting(d) \ {t} /\ Deleting(d)' = Deleting(d) \ {t}
      BY <1>8, <3>1, PendingSets
    <3>. QED BY <1>5, <3>2, Zenon
  <2>2. \A d : d # e => (Enough(d) => Enough(d)') /\ (NoSpare(d) => NoSpare(d)')
    BY <1>3, <1>4, <1>6, <2>1, SameCounts
  <2>3. ~Enough(e)
    <3>1. NodesFor(e) = {} BY <1>8, NothingFound DEF NodesFor
    <3>2. Cardinality(NodesFor(e)) = 0 BY <3>1, FS_EmptySet
    <3>3. Cardinality(Deleting(e)) >= 1 /\ Cardinality(Deleting(e)) \in Nat
      BY <1>5, Counts, OneLess
    <3>. QED BY <3>2, <3>3 DEF Enough
  <2>4. e \in misclosed BY <1>2, <2>3, CountParts
  <2>5. AgainConnected'
    <3>1. /\ \A u \in Thread : u # t => pc'[u] = pc[u] /\ fd'[u] = fd[u]
          /\ pc'[t] = "idle"
      BY <1>8 DEF TypeOK, Goto
    <3>. QED BY <1>2, <1>5, <3>1 DEF AgainConnected
  <2>. QED BY <1>2, <2>2, <2>4, <2>5, CountParts, CountPartsPrimed
<1>. QED BY <1>1, <1>7, <1>8 DEF FdDeleteWalk

(* Balance: a pending delete and a node cancel out. *)
LEMMA DeleteUnlinkCount ==
  ASSUME TypeOK, UsedInv, ChainInv, LinkInv, UnlinkInv, EnoughNodes, NoSpareNodes,
         NEW t \in Thread, FdDeleteUnlink(t), ~raced'
  PROVE  EnoughNodes' /\ NoSpareNodes'
<1>1. PICK e, y : e = fd[t] /\ y = new[t] OBVIOUS
<1>2. e \in Fd /\ Hash[e] \in Bucket /\ pc[t] = "unlink"
  BY <1>1, HashInBucket DEF FdDeleteUnlink, UsedInv
<1>3. Goto(t, "idle", NULL, NULL, NULL) BY DEF FdDeleteUnlink
<1>4. /\ \A b \in Bucket : Chain(b)' = IF b = Hash[e] THEN Chain(b) \ {y} ELSE Chain(b)
      /\ \A x \in Node : x # y => node'[x].key = node[x].key
      /\ y \in Chain(Hash[e]) /\ node[y].key = e
  BY <1>1, DeleteUnlinkSound
<1>5. \A b : \A x \in Chain(b) : x \in Node BY DEF Chain
<1>6. misclosed' = misclosed /\ connected' = connected /\ snic' = snic /\ app' = app
  BY DEF FdDeleteUnlink
<1>7. ~("idle" \in {"insert", "link"}) /\ ~("idle" \in {"delete", "unlink"}) OBVIOUS
<1>8. \A d : t \notin Inserting(d) BY <1>2 DEF Inserting
<1>9. \A d : Inserting(d)' = Inserting(d) /\ Deleting(d)' = Deleting(d) \ {t}
  BY <1>3, <1>7, <1>8, PendingSets
<1>10. ASSUME NEW d \in Fd, d # e
       PROVE  (Enough(d) => Enough(d)') /\ (NoSpare(d) => NoSpare(d)')
  <2>1. NodesFor(d)' = NodesFor(d)
    <3>1. PICK b : b = Hash[d] OBVIOUS
    <3>2. b \in Bucket BY <3>1, HashInBucket
    <3>3. NodesFor(d)' = {x \in Chain(b)' : node'[x].key = d}
          /\ NodesFor(d) = {x \in Chain(b) : node[x].key = d}
      BY <3>1 DEF NodesFor
    <3>4. CASE b = Hash[e]
      <4>1. Chain(b)' = Chain(b) \ {y} BY <1>4, <3>2, <3>4
      <4>. QED BY <1>4, <1>5, <1>10, <3>3, <4>1
    <3>5. CASE b # Hash[e]
      <4>1. Chain(b)' = Chain(b) BY <1>4, <3>2, <3>5
      <4>2. y \notin Chain(b) BY <1>2, <1>4, <3>2, <3>5, Disjoint
      <4>. QED BY <1>4, <1>5, <3>3, <4>1, <4>2
    <3>. QED BY <3>4, <3>5
  <2>2. t \notin Deleting(d) BY <1>1, <1>10 DEF Deleting
  <2>3. Inserting(d)' = Inserting(d) /\ Deleting(d)' = Deleting(d) BY <1>9, <2>2
  <2>4. (Held(d)' => Held(d)) /\ (d \in snic => d \in snic') BY <1>6 DEF Held
  <2>. QED BY <2>1, <2>3, <2>4, SameCounts
<1>11. PICK a \in Nat, i \in Nat, k \in Nat :
         a = Cardinality(NodesFor(e)) /\ i = Cardinality(Inserting(e))
         /\ k = Cardinality(Deleting(e))
  BY Counts
<1>12. Cardinality(NodesFor(e)') = a - 1 /\ a >= 1
  <2>1. NodesFor(e)' = NodesFor(e) \ {y}
    <3>1. PICK b : b = Hash[e] OBVIOUS
    <3>2. NodesFor(e)' = {x \in Chain(b)' : node'[x].key = e}
          /\ NodesFor(e) = {x \in Chain(b) : node[x].key = e}
      BY <3>1 DEF NodesFor
    <3>3. Chain(b)' = Chain(b) \ {y} BY <1>2, <1>4, <3>1
    <3>. QED BY <1>4, <1>5, <3>2, <3>3
  <2>2. y \in NodesFor(e) BY <1>4 DEF NodesFor
  <2>. QED BY <1>11, <2>1, <2>2, Counts, OneLess
<1>13. Cardinality(Deleting(e)') = k - 1 /\ k >= 1
  <2>1. t \in Deleting(e) BY <1>1, <1>2 DEF Deleting
  <2>. QED BY <1>9, <1>11, <2>1, Counts, OneLess
<1>14. Cardinality(NodesFor(e))' = a - 1 /\ Cardinality(Deleting(e))' = k - 1
       /\ Cardinality(Inserting(e))' = i
  BY <1>9, <1>11, <1>12, <1>13
<1>15. Enough(e) => Enough(e)'
  <2>1. Held(e)' <=> Held(e) BY <1>6 DEF Held
  <2>. QED BY <1>11, <1>14, <2>1 DEF Enough
<1>16. NoSpare(e) => NoSpare(e)' BY <1>6, <1>11, <1>14 DEF NoSpare
<1>17. AgainConnected'
  <2>1. /\ \A u \in Thread : u # t => pc'[u] = pc[u] /\ fd'[u] = fd[u]
        /\ pc'[t] = "idle"
    BY <1>3 DEF TypeOK, Goto
  <2>2. AgainConnected BY CountParts
  <2>. QED BY <1>6, <2>1, <2>2 DEF AgainConnected
<1>. QED BY <1>6, <1>10, <1>15, <1>16, <1>17, CountParts, CountPartsPrimed

(* A step of an idle thread changes no node; its descriptor is counted by     *)
(* the caller of this lemma, the others are not concerned.                    *)
LEMMA BeginsCount ==
  ASSUME TypeOK, UNCHANGED table, EnoughNodes, NoSpareNodes, NEW t \in Thread, pc[t] = "idle",
         NEW l \in {"insert", "insert_again", "delete"}, NEW e \in Fd,
         Goto(t, l, e, NULL, NULL),
         \A d \in Fd : d # e => (Held(d)' => Held(d)) /\ (d \in snic => d \in snic'),
         misclosed \subseteq misclosed', connected \subseteq connected',
         l = "insert_again" => e \in connected',
         e \notin misclosed' => Enough(e)',
         e \notin misclosed' /\ e \notin connected' => NoSpare(e)'
  PROVE  EnoughNodes' /\ NoSpareNodes'
<1>1. ASSUME NEW d \in Fd, d # e
      PROVE  (Enough(d) => Enough(d)') /\ (NoSpare(d) => NoSpare(d)')
  <2>1. NodesFor(d)' = NodesFor(d)
    <3>1. PICK b : b = Hash[d] OBVIOUS
    <3>2. Chain(b)' = Chain(b) /\ node' = node BY ChainsStay DEF table
    <3>. QED BY <3>1, <3>2 DEF NodesFor
  <2>2. t \notin Inserting(d) /\ t \notin Deleting(d) BY DEF Inserting, Deleting
  <2>3. Inserting(d)' = Inserting(d) /\ Deleting(d)' = Deleting(d)
    BY <1>1, <2>2, PendingSets
  <2>. QED BY <1>1, <2>1, <2>3, SameCounts
<1>2. AgainConnected'
  <2>1. /\ \A u \in Thread : u # t => pc'[u] = pc[u] /\ fd'[u] = fd[u]
        /\ pc'[t] = l /\ fd'[t] = e
    BY DEF TypeOK, Goto
  <2>2. AgainConnected BY CountParts
  <2>. QED BY <2>1, <2>2 DEF AgainConnected
<1>3. /\ \A d \in Fd : d \notin misclosed' => Enough(d)'
      /\ \A d \in Fd : d \notin misclosed' /\ d \notin connected' => NoSpare(d)'
  BY <1>1, CountParts
<1>. QED BY <1>2, <1>3, CountPartsPrimed

(* Balance: no thread moves and the table stays as it is. *)
LEMMA StaysCount ==
  ASSUME UNCHANGED <<locals, table>>, EnoughNodes, NoSpareNodes,
         \A d \in Fd : (Held(d)' => Held(d)) /\ (d \in snic => d \in snic'),
         misclosed' = misclosed, connected' = connected
  PROVE  EnoughNodes' /\ NoSpareNodes'
<1>1. ASSUME NEW d \in Fd
      PROVE  (Enough(d) => Enough(d)') /\ (NoSpare(d) => NoSpare(d)')
  <2>1. NodesFor(d)' = NodesFor(d)
    <3>1. PICK b : b = Hash[d] OBVIOUS
    <3>2. Chain(b)' = Chain(b) /\ node' = node BY ChainsStay DEF table
    <3>. QED BY <3>1, <3>2 DEF NodesFor
  <2>2. Inserting(d)' = Inserting(d) /\ Deleting(d)' = Deleting(d)
    BY DEF Inserting, Deleting, locals
  <2>. QED BY <2>1, <2>2, SameCounts
<1>2. AgainConnected' BY CountParts DEF AgainConnected, locals
<1>. QED BY <1>1, <1>2, CountParts, CountPartsPrimed

(* What a thread that begins a call counts for its own descriptor *)
LEMMA BeginnerCounts ==
  ASSUME TypeOK, UNCHANGED table, NEW t \in Thread, pc[t] = "idle", NEW l, NEW e,
         Goto(t, l, e, NULL, NULL)
  PROVE  /\ Cardinality(NodesFor(e))' = Cardinality(NodesFor(e))
         /\ Cardinality(Inserting(e))' =
              Cardinality(Inserting(e)) + (IF l \in {"insert", "link"} THEN 1 ELSE 0)
         /\ Cardinality(Deleting(e))' =
              Cardinality(Deleting(e)) + (IF l \in {"delete", "unlink"} THEN 1 ELSE 0)
<1>1. NodesFor(e)' = NodesFor(e)
  <2>1. PICK b : b = Hash[e] OBVIOUS
  <2>2. Chain(b)' = Chain(b) /\ node' = node BY ChainsStay DEF table
  <2>. QED BY <2>1, <2>2 DEF NodesFor
<1>2. t \notin Inserting(e) /\ t \notin Deleting(e) BY DEF Inserting, Deleting
<1>3. /\ Inserting(e)' = IF l \in {"insert", "link"} THEN Inserting(e) \cup {t} ELSE Inserting(e)
      /\ Deleting(e)' = IF l \in {"delete", "unlink"} THEN Deleting(e) \cup {t} ELSE Deleting(e)
  BY <1>2, PendingSets
<1>4. /\ Cardinality(Inserting(e) \cup {t}) = Cardinality(Inserting(e)) + 1
      /\ Cardinality(Deleting(e) \cup {t}) = Cardinality(Deleting(e)) + 1
  BY <1>2, Counts, OneMore
<1>. QED BY <1>1, <1>3, <1>4, Counts

(* Balance: a descriptor that is opened is owed the node that is about to    *)
(* be inserted.                                                              *)
LEMMA NewRemoteCount ==
  ASSUME TypeOK, EnoughNodes, NoSpareNodes, NEW t \in Thread, pc[t] = "idle", NEW limit,
         NewRemote(t, limit)
  PROVE  EnoughNodes' /\ NoSpareNodes'
<1>1. PICK e \in Fd \ snic :
        snic' = snic \cup {e} /\ (Goto(t, "insert", e, NULL, NULL) \/ UNCHANGED locals)
  BY DEF NewRemote
<1>2. UNCHANGED table /\ app' = app /\ misclosed' = misclosed /\ connected' = connected
  BY DEF NewRemote, history
<1>3. \A d : (Held(d)' => Held(d)) /\ (d \in snic => d \in snic') BY <1>1, <1>2 DEF Held
<1>4. CASE UNCHANGED locals
  <2>1. UNCHANGED <<locals, table>> BY <1>2, <1>4
  <2>. QED BY <1>2, <1>3, <2>1, StaysCount
<1>5. CASE Goto(t, "insert", e, NULL, NULL)
  <2>1. PICK a \in Nat, i \in Nat, k \in Nat :
          a = Cardinality(NodesFor(e)) /\ i = Cardinality(Inserting(e))
          /\ k = Cardinality(Deleting(e))
    BY Counts
  <2>2. Cardinality(NodesFor(e))' = a /\ Cardinality(Inserting(e))' = i + 1
        /\ Cardinality(Deleting(e))' = k
    BY <1>2, <1>5, <2>1, BeginnerCounts
  <2>3. Enough(e) => Enough(e)' BY <1>3, <2>1, <2>2 DEF Enough
  <2>4. NoSpare(e) => NoSpare(e)' BY <1>1, <2>1, <2>2 DEF NoSpare
  <2>5. /\ e \notin misclosed' => Enough(e)'
        /\ e \notin misclosed' /\ e \notin connected' => NoSpare(e)'
    BY <1>1, <1>2, <2>3, <2>4, CountParts
  <2>6. "insert" \in {"insert", "insert_again", "delete"} /\ "insert" # "insert_again" OBVIOUS
  <2>. QED BY <1>1, <1>2, <1>3, <1>5, <2>5, <2>6, BeginsCount
<1>. QED BY <1>1, <1>4, <1>5

(* Balance: connect inserts a second node. *)
LEMMA ConnectCount ==
  ASSUME TypeOK, EnoughNodes, NoSpareNodes, NEW t \in Thread, NEW h \in app, ReqConnect(t, h)
  PROVE  EnoughNodes' /\ NoSpareNodes'
<1>1. PICK e : e = h.fd OBVIOUS
<1>2. /\ e \in Fd /\ pc[t] = "idle" /\ UNCHANGED table /\ app' = app /\ snic' = snic
      /\ misclosed' = misclosed /\ connected' = connected \cup {e}
      /\ Goto(t, "insert_again", e, NULL, NULL)
  BY <1>1 DEF ReqConnect, Idle, TypeOK, Handle
<1>3. \A d : (Held(d)' => Held(d)) /\ (d \in snic => d \in snic') BY <1>2 DEF Held
<1>4. PICK a \in Nat, k \in Nat :
        a = Cardinality(NodesFor(e)) /\ k = Cardinality(Deleting(e))
  BY Counts
<1>5. Cardinality(NodesFor(e))' = a /\ Cardinality(Deleting(e))' = k
  BY <1>2, <1>4, BeginnerCounts
<1>6. Enough(e) => Enough(e)' BY <1>3, <1>4, <1>5 DEF Enough
<1>7. e \notin misclosed' => Enough(e)' BY <1>2, <1>6, CountParts
<1>8. "insert_again" \in {"insert", "insert_again", "delete"} OBVIOUS
<1>. QED BY <1>2, <1>3, <1>7, <1>8, BeginsCount

(* Balance: close takes back a descriptor and owes a delete. *)
LEMMA CloseCount ==
  ASSUME TypeOK, EnoughNodes, NoSpareNodes, NEW t \in Thread, NEW h \in app, ReqClose(t, h)
  PROVE  EnoughNodes' /\ NoSpareNodes'
<1>1. PICK e : e = h.fd OBVIOUS
<1>2. /\ e \in Fd /\ pc[t] = "idle" /\ UNCHANGED table /\ app' = app \ {h}
      /\ connected' = connected /\ h \in Handle
  BY <1>1 DEF ReqClose, Idle, TypeOK, Handle
<1>3. \A d : Held(d)' => Held(d) BY <1>2 DEF Held
<1>4. CASE Routed("close", h.fd)
  <2>1. /\ snic' \in {snic, snic \ {e}} /\ Goto(t, "delete", e, NULL, NULL)
        /\ misclosed' = IF h.at = "host" THEN misclosed \cup {e} ELSE misclosed
    BY <1>1, <1>4 DEF ReqClose
  <2>2. \A d \in Fd : d # e => (Held(d)' => Held(d)) /\ (d \in snic => d \in snic')
    BY <1>3, <2>1
  <2>3. PICK a \in Nat, i \in Nat, k \in Nat :
          a = Cardinality(NodesFor(e)) /\ i = Cardinality(Inserting(e))
          /\ k = Cardinality(Deleting(e))
    BY Counts
  <2>4. Cardinality(NodesFor(e))' = a /\ Cardinality(Inserting(e))' = i
        /\ Cardinality(Deleting(e))' = k + 1
    BY <1>2, <2>1, <2>3, BeginnerCounts
  <2>5. ASSUME e \notin misclosed' PROVE e \notin misclosed /\ Held(e) /\ ~Held(e)'
    <3>1. h.at = "snic" /\ e \notin misclosed BY <1>2, <2>1, <2>5 DEF Handle
    <3>2. h = [fd |-> e, at |-> "snic"] BY <1>1, <1>2, <3>1 DEF Handle
    <3>3. Held(e) BY <3>2 DEF Held
    <3>4. ~Held(e)' BY <1>2, <3>2 DEF Held
    <3>. QED BY <3>1, <3>3, <3>4
  <2>6. e \notin misclosed' => Enough(e)'
    <3>1. SUFFICES ASSUME e \notin misclosed' PROVE Enough(e)' OBVIOUS
    <3>2. Enough(e) BY <1>2, <2>5, <3>1, CountParts
    <3>3. a >= k + 1 BY <2>3, <2>5, <3>1, <3>2 DEF Enough
    <3>. QED BY <2>4, <2>5, <3>1, <3>3 DEF Enough
  <2>7. e \notin misclosed' /\ e \notin connected' => NoSpare(e)'
    <3>1. SUFFICES ASSUME e \notin misclosed', e \notin connected' PROVE NoSpare(e)' OBVIOUS
    <3>2. NoSpare(e) BY <1>2, <2>5, <3>1, CountParts
    <3>3. a + i <= k + 1 BY <2>3, <3>2 DEF NoSpare
    <3>. QED BY <2>3, <2>4, <3>3 DEF NoSpare
  <2>8. "delete" \in {"insert", "insert_again", "delete"} /\ "delete" # "insert_again"
        /\ misclosed \subseteq misclosed' /\ connected \subseteq connected'
    BY <1>2, <2>1
  <2>. QED BY <1>2, <2>1, <2>2, <2>6, <2>7, <2>8, BeginsCount
<1>5. CASE ~Routed("close", h.fd)
  <2>1. UNCHANGED <<locals, table>> /\ snic' = snic /\ misclosed' = misclosed
    BY <1>2, <1>5 DEF ReqClose
  <2>. QED BY <1>2, <1>3, <2>1, StaysCount
<1>. QED BY <1>4, <1>5

(* Balance: a local descriptor has no node of its own. *)
LEMMA OpenLocalCount ==
  ASSUME TypeOK, EnoughNodes, NoSpareNodes, NEW t \in Thread, OpenLocal(t)
  PROVE  EnoughNodes' /\ NoSpareNodes'
<1>1. PICK d \in LocalFd : app' = app \cup {[fd |-> d, at |-> "host"]} BY DEF OpenLocal
<1>2. UNCHANGED <<locals, table>> /\ snic' = snic /\ misclosed' = misclosed
      /\ connected' = connected
  BY DEF OpenLocal, history
<1>3. ASSUME NEW e, Held(e)' PROVE Held(e)
  <2>1. [fd |-> e, at |-> "snic"] # [fd |-> d, at |-> "host"]
    <3>1. [fd |-> e, at |-> "snic"].at # [fd |-> d, at |-> "host"].at OBVIOUS
    <3>. QED BY <3>1
  <2>. QED BY <1>1, <1>3, <2>1 DEF Held
<1>. QED BY <1>2, <1>3, StaysCount

---------------------------------------------------------------------------
(* The invariant and what follows from it *)

(* The invariant holds initially. *)
LEMMA TableInit == Init => TableInv
<1>. SUFFICES ASSUME Init PROVE TableInv OBVIOUS
<1>1. TypeOK /\ UsedInv BY TypeInit
<1>2. ASSUME NEW b \in Bucket PROVE Listed(head[b], node, Chain(b)) /\ Chain(b) = {}
  <2>1. head[b] = NULL BY DEF Init
  <2>. DEFINE s == [i \in 1 .. 0 |-> NULL]
  <2>2. s \in [1 .. 0 -> Node] /\ DOMAIN s = {} OBVIOUS
  <2>3. Range(s) = {} /\ IsInjective(s) BY <2>2 DEF Range, IsInjective
  <2>4. Row(NULL, node, 0, s) BY <2>2, <2>3 DEF Row
  <2>. HIDE DEF s
  <2>5. Listed(head[b], node, {}) BY <2>1, <2>3, <2>4, ListedOfRow
  <2>6. Chain(b) = {} BY <2>5, ListedWalk, ChainIs
  <2>. QED BY <2>5, <2>6
<1>3. ChainInv BY <1>2 DEF ChainInv
<1>4. \A t \in Thread : pc[t] = "idle" BY DEF Init
<1>5. LinkInv /\ UnlinkInv BY <1>4 DEF LinkInv, UnlinkInv
<1>6. ASSUME NEW d \in Fd
      PROVE  Cardinality(NodesFor(d)) = 0 /\ Cardinality(Inserting(d)) = 0
             /\ Cardinality(Deleting(d)) = 0 /\ ~Held(d)
  <2>1. NodesFor(d) = {} BY <1>2, HashInBucket DEF NodesFor
  <2>2. Inserting(d) = {} /\ Deleting(d) = {} BY <1>4 DEF Inserting, Deleting
  <2>3. ~Held(d) BY DEF Init, Held
  <2>. QED BY <2>1, <2>2, <2>3, FS_EmptySet
<1>7. EnoughNodes BY <1>6 DEF EnoughNodes
<1>8. NoSpareNodes BY <1>4, <1>6 DEF NoSpareNodes
<1>. QED BY <1>1, <1>3, <1>5, <1>7, <1>8 DEF TableInv

(* Every step keeps the invariant. *)
LEMMA TableStep == TableInv /\ [Next]_vars => TableInv'
<1>. SUFFICES ASSUME TableInv, [Next]_vars PROVE TableInv' OBVIOUS
<1>. DEFINE Good == ChainInv /\ LinkInv /\ UnlinkInv /\ EnoughNodes /\ NoSpareNodes
<1>1. TypeOK /\ UsedInv /\ TypeOK' /\ UsedInv' BY TypeStep DEF TableInv
<1>2. SUFFICES ASSUME ~raced' PROVE Good' BY <1>1 DEF TableInv
<1>3. ~raced
  BY <1>2 DEF Next, vars, history, FdInsertWalk, FdInsertLink, FdDeleteWalk, FdDeleteUnlink,
    ReqSock, ReqEpollCreate1, ReqAccept, OpenLocal, NewRemote, ReqConnect, ReqClose, NoteRace
<1>4. ChainInv /\ LinkInv /\ UnlinkInv /\ EnoughNodes /\ NoSpareNodes BY <1>3 DEF TableInv
<1>5. CASE UNCHANGED vars
  <2>1. UNCHANGED <<locals, table>> /\ snic' = snic /\ app' = app /\ misclosed' = misclosed
        /\ connected' = connected
    BY <1>5 DEF vars, history
  <2>2. \A d \in Fd : (Held(d)' => Held(d)) /\ (d \in snic => d \in snic')
    BY <2>1 DEF Held
  <2>. QED BY <1>4, <2>1, <2>2, NothingMoves, StaysCount
<1>6. ASSUME NEW t \in Thread, FdInsertWalk(t) PROVE Good'
  BY <1>1, <1>4, <1>6, InsertWalkSound, InsertWalkCount
<1>7. ASSUME NEW t \in Thread, FdInsertLink(t) PROVE Good'
  BY <1>1, <1>2, <1>4, <1>7, InsertLinkSound, InsertLinkCount
<1>8. ASSUME NEW t \in Thread, FdDeleteWalk(t) PROVE Good'
  BY <1>1, <1>4, <1>8, DeleteWalkSound, DeleteWalkCount
<1>9. ASSUME NEW t \in Thread, FdDeleteUnlink(t) PROVE Good'
  BY <1>1, <1>2, <1>4, <1>9, DeleteUnlinkSound, DeleteUnlinkCount
<1>10. \A l \in {"insert", "insert_again", "delete"} : l \notin Linking /\ l # "unlink"
  BY DEF Linking
<1>11. ASSUME NEW t \in Thread, ReqSock(t) \/ ReqEpollCreate1(t) \/ ReqAccept(t) PROVE Good'
  <2>1. PICK limit : NewRemote(t, limit) /\ pc[t] = "idle"
    BY <1>11 DEF ReqSock, ReqEpollCreate1, ReqAccept, Idle
  <2>2. EnoughNodes' /\ NoSpareNodes' BY <1>1, <1>4, <2>1, NewRemoteCount
  <2>3. UNCHANGED table /\ \E d : Goto(t, "insert", d, NULL, NULL) \/ UNCHANGED locals
    BY <2>1 DEF NewRemote
  <2>4. ChainInv' /\ LinkInv' /\ UnlinkInv'
    BY <1>1, <1>4, <1>10, <2>3, OthersStay, NothingMoves
  <2>. QED BY <2>2, <2>4
<1>12. ASSUME NEW t \in Thread, NEW h \in app, ReqConnect(t, h) PROVE Good'
  <2>1. EnoughNodes' /\ NoSpareNodes' BY <1>1, <1>4, <1>12, ConnectCount
  <2>2. UNCHANGED table /\ Goto(t, "insert_again", h.fd, NULL, NULL)
    BY <1>12 DEF ReqConnect
  <2>3. ChainInv' /\ LinkInv' /\ UnlinkInv' BY <1>1, <1>4, <1>10, <2>2, OthersStay
  <2>. QED BY <2>1, <2>3
<1>13. ASSUME NEW t \in Thread, NEW h \in app, ReqClose(t, h) PROVE Good'
  <2>1. EnoughNodes' /\ NoSpareNodes' BY <1>1, <1>4, <1>13, CloseCount
  <2>2. UNCHANGED table /\ (Goto(t, "delete", h.fd, NULL, NULL) \/ UNCHANGED locals)
    BY <1>13 DEF ReqClose
  <2>3. ChainInv' /\ LinkInv' /\ UnlinkInv'
    BY <1>1, <1>4, <1>10, <2>2, OthersStay, NothingMoves
  <2>. QED BY <2>1, <2>3
<1>14. ASSUME NEW t \in Thread, OpenLocal(t) PROVE Good'
  <2>1. EnoughNodes' /\ NoSpareNodes' BY <1>1, <1>4, <1>14, OpenLocalCount
  <2>2. UNCHANGED <<locals, table>> BY <1>14 DEF OpenLocal
  <2>3. ChainInv' /\ LinkInv' /\ UnlinkInv' BY <1>4, <2>2, NothingMoves
  <2>. QED BY <2>1, <2>3
<1>. HIDE DEF Good
<1>. QED BY <1>5, <1>6, <1>7, <1>8, <1>9, <1>11, <1>12, <1>13, <1>14 DEF Next

(* Whatever threads do with the unlocked table, links and pointers lead to    *)
(* nodes; and until two updates of a chain overlap, chains are sound and each *)
(* descriptor has as many nodes as there are reasons for one.                 *)
THEOREM TableInvariant == Spec => []TableInv
BY TableInit, TableStep, PTL DEF Spec

(* Type correctness, also after overlapping updates: no link is ever taken    *)
(* from a node that malloc returned and nobody filled in.                     *)
THEOREM TableTypeCorrect == Spec => []TypeOK
<1>1. TableInv => TypeOK BY DEF TableInv
<1>. QED BY <1>1, TableInvariant, PTL

(* For any number of threads, descriptors and nodes and any hash function,    *)
(* chains end and have allocated nodes of their own bucket, until two updates *)
(* of one overlap.                                                            *)
THEOREM ChainsStaySound == Spec => []ChainsAreSound
<1>1. TableInv => ChainsAreSound
  <2>. SUFFICES ASSUME TableInv, ~raced, NEW b \in Bucket
       PROVE  Ends(b) /\ \A n \in Chain(b) :
                           n \in alloc /\ node[n].key \in Fd /\ Hash[node[n].key] = b
    BY DEF ChainsAreSound
  <2>1. ChainInv BY DEF TableInv
  <2>2. Listed(head[b], node, Chain(b)) BY <2>1 DEF ChainInv
  <2>3. Ends(b) BY <2>2, ListedWalk DEF Ends, PlacesOf
  <2>. QED BY <2>1, <2>3 DEF ChainInv, NodeOf
<1>. QED BY <1>1, TableInvariant, PTL

(* A descriptor of the SmartNIC that the application holds is found by every  *)
(* hooked call, but for the causes that the property names.                   *)
THEOREM HeldIsRouted == Spec => []HeldFdIsRouted
<1>1. TableInv => HeldFdIsRouted
  <2>. SUFFICES ASSUME TableInv, ~raced, NEW d \in Fd, Held(d), d \notin misclosed,
                       Hash[d] # 0, \A n \in Chain(Hash[d]) : node[n].key = d,
                       NEW op \in HookedOps
       PROVE  Routed(op, d)
    BY DEF HeldFdIsRouted
  <2>1. PICK b : b = Hash[d] OBVIOUS
  <2>2. b \in Bucket /\ b \in Nat /\ b # 0 BY <2>1, HashInBucket
  <2>3. ChainInv /\ Enough(d) BY CountParts DEF TableInv
  <2>4. NodesFor(d) # {}
    <3>1. SUFFICES ASSUME NodesFor(d) = {} PROVE FALSE OBVIOUS
    <3>2. Cardinality(NodesFor(d)) = 0 BY <3>1, FS_EmptySet
    <3>. QED BY <2>3, <3>2, Counts DEF Enough
  <2>5. Listed(head[b], node, Chain(b)) /\ \A n \in Chain(b) : NodeOf(b, n)
    BY <2>2, <2>3 DEF ChainInv
  <2>6. Chain(b) # {} BY <2>1, <2>4 DEF NodesFor
  <2>7. head[b] # NULL /\ head[b] \in Chain(b) BY <2>5, <2>6, ListedShape
  <2>8. node[head[b]].key = d /\ node[head[b]].value \in Thread \cup {b}
    BY <2>1, <2>5, <2>7 DEF NodeOf
  <2>9. node[head[b]].value # 0 BY <2>2, <2>8, HookAssumption
  <2>. QED BY <2>1, <2>2, <2>7, <2>8, <2>9 DEF Routed
<1>. QED BY <1>1, TableInvariant, PTL

(* What the hooks send to the SmartNIC is open there, but for the causes that *)
(* the property names.                                                        *)
THEOREM RoutedIsOpen == Spec => []RoutedFdIsOpen
<1>1. TableInv => RoutedFdIsOpen
  <2>. SUFFICES ASSUME TableInv, NEW d \in Fd, NEW op \in HookedOps, Routed(op, d),
                       d \notin snic, d \notin connected, d \notin misclosed, ~raced
       PROVE  Busy(d)
    BY DEF RoutedFdIsOpen
  <2>1. PICK b : b = Hash[d] OBVIOUS
  <2>2. b \in Bucket BY <2>1, HashInBucket
  <2>3. ChainInv /\ NoSpare(d) BY CountParts DEF TableInv
  <2>4. head[b] # NULL /\ node[head[b]].key = d BY <2>1 DEF Routed
  <2>5. head[b] \in Chain(b) BY <2>2, <2>3, <2>4, ListedShape DEF ChainInv
  <2>6. head[b] \in NodesFor(d) BY <2>1, <2>4, <2>5 DEF NodesFor
  <2>7. Cardinality(NodesFor(d)) >= 1 BY <2>6, Counts, OneLess
  <2>8. Cardinality(Deleting(d)) >= 1 BY <2>3, <2>7, Counts DEF NoSpare
  <2>9. Deleting(d) # {}
    <3>1. SUFFICES ASSUME Deleting(d) = {} PROVE FALSE OBVIOUS
    <3>2. Cardinality(Deleting(d)) = 0 BY <3>1, FS_EmptySet
    <3>. QED BY <2>8, <3>2
  <2>. QED BY <2>9 DEF Busy, Deleting
<1>. QED BY <1>1, TableInvariant, PTL
=============================================================================
