---------------------------- MODULE FdTableProofs ---------------------------
(* HostHook implements FdTable, for any finite sets of threads and nodes and *)
(* any hash function: the two steps in which fd_insertByValue and            *)
(* fd_deleteByKey change a chain without a lock have the effect of one, until *)
(* two updates of one chain are under way at once.                           *)
EXTENDS HostHookProofs, Sequences

(* The entries along any links, and along a row *)
EntriesOf(first, nodes) ==
  [i \in 1 .. Cardinality(Members(first, nodes)) |->
     [key |-> nodes[Walk(first, nodes)[i - 1]].key,
      value |-> nodes[Walk(first, nodes)[i - 1]].value]]
RowEntries(nodes, m, s) ==
  [i \in 1 .. m |-> [key |-> nodes[s[i]].key, value |-> nodes[s[i]].value]]

(* The refinement mapping reads the chains as they are linked. *)
LEMMA EntriesAre ==
  ASSUME NEW b
  PROVE  /\ Entries(b) = EntriesOf(head[b], node)
         /\ Entries(b)' = EntriesOf(head'[b], node')
         /\ PlacesOf(b) = Walk(head[b], node)
         /\ PlacesOf(b)' = Walk(head'[b], node')
<1>1. PlacesOf(b) = Walk(head[b], node) /\ PlacesOf(b)' = Walk(head'[b], node')
  BY DEF PlacesOf
<1>2. Chain(b) = Members(head[b], node) /\ Chain(b)' = Members(head'[b], node')
  BY DEF Chain, Members, PlacesOf
<1>. QED BY <1>1, <1>2, Zenon DEF Entries, EntriesOf

(* A row has as many members as places. *)
LEMMA RowCount ==
  ASSUME NEW first, NEW nodes, NEW m \in Nat, NEW s, Row(first, nodes, m, s)
  PROVE  Cardinality(Range(s)) = m /\ m <= Cardinality(Node)
<1>1. s \in [1 .. m -> Node] /\ IsInjective(s) BY DEF Row
<1>2. IsFiniteSet(1 .. m) /\ Cardinality(1 .. m) = m
  <2>1. 1 \in Int /\ m \in Int /\ (IF 1 > m THEN 0 ELSE m - 1 + 1) = m OBVIOUS
  <2>. QED BY <2>1, FS_Interval
<1>3. s \in Bijection(1 .. m, Range(s))
  BY <1>1 DEF Bijection, Injection, Surjection, IsInjective, Range
<1>4. Cardinality(Range(s)) = m
  <2>1. ExistsBijection(1 .. m, Range(s)) BY <1>3 DEF ExistsBijection
  <2>. QED BY <1>2, <2>1, FS_Bijection
<1>5. s \in Injection(1 .. m, Node) BY <1>1 DEF Injection
<1>6. m <= Cardinality(Node) BY <1>2, <1>5, HookAssumption, FS_Injection
<1>. QED BY <1>4, <1>6

(* The entries of a chain are those of its row. *)
LEMMA EntriesOfRow ==
  ASSUME NEW first, NEW nodes, NEW m \in Nat, NEW s, Row(first, nodes, m, s)
  PROVE  /\ EntriesOf(first, nodes) = RowEntries(nodes, m, s)
         /\ Members(first, nodes) = Range(s)
<1>1. Cardinality(Range(s)) = m /\ m <= Cardinality(Node) BY RowCount
<1>2. Members(first, nodes) = Range(s) BY ListedOfRow, ListedWalk
<1>3. ASSUME NEW i \in 1 .. m PROVE Walk(first, nodes)[i - 1] = s[i]
  <2>1. i - 1 \in 0 .. Cardinality(Node) /\ i - 1 < m /\ (i - 1) + 1 = i
    BY <1>1, NodeCount
  <2>. QED BY <1>1, <2>1, RowWalk
<1>4. EntriesOf(first, nodes) =
        [i \in 1 .. m |-> [key |-> nodes[Walk(first, nodes)[i - 1]].key,
                           value |-> nodes[Walk(first, nodes)[i - 1]].value]]
  BY <1>1, <1>2, Zenon DEF EntriesOf
<1>. QED BY <1>2, <1>3, <1>4, Zenon DEF RowEntries

(* A chain has a row. *)
LEMMA ChainRow ==
  ASSUME ChainInv, NEW b \in Bucket
  PROVE  \E m \in Nat : \E s :
           /\ Row(head[b], node, m, s) /\ Chain(b) = Range(s)
           /\ Entries(b) = RowEntries(node, m, s)
<1>1. Listed(head[b], node, Chain(b)) BY DEF ChainInv
<1>2. PICK m \in Nat : \E s : Row(head[b], node, m, s) /\ Chain(b) = Range(s)
  BY <1>1, RowOfListed
<1>3. PICK s : Row(head[b], node, m, s) /\ Chain(b) = Range(s) BY <1>2
<1>4. Entries(b) = RowEntries(node, m, s) BY <1>3, EntriesOfRow, EntriesAre
<1>. QED BY <1>3, <1>4

(* A step that writes to no node of a chain leaves its entries alone, and    *)
(* where they are found.                                                     *)
Untouched(b) ==
  /\ head'[b] = head[b]
  /\ \A x \in Chain(b) : /\ node'[x].next = node[x].next
                         /\ node'[x].key = node[x].key /\ node'[x].value = node[x].value

(* Its row is as before, and so is each place on it. *)
LEMMA EntriesStay ==
  ASSUME ChainInv, NEW b \in Bucket, Untouched(b)
  PROVE  /\ Entries(b)' = Entries(b)
         /\ \A k \in 0 .. Cardinality(Node) : PlacesOf(b)'[k] = PlacesOf(b)[k]
<1>1. PICK m \in Nat : \E s : /\ Row(head[b], node, m, s) /\ Chain(b) = Range(s)
                             /\ Entries(b) = RowEntries(node, m, s)
  BY ChainRow
<1>2. PICK s : /\ Row(head[b], node, m, s) /\ Chain(b) = Range(s)
               /\ Entries(b) = RowEntries(node, m, s)
  BY <1>1
<1>3. \A i \in 1 .. m : s[i] \in Chain(b) BY <1>2 DEF Row, Range
<1>4. Row(head'[b], node', m, s) BY <1>2, <1>3 DEF Row, Untouched
<1>5. RowEntries(node', m, s) = RowEntries(node, m, s) BY <1>3 DEF RowEntries, Untouched
<1>6. Entries(b)' = RowEntries(node', m, s) BY <1>4, EntriesOfRow, EntriesAre
<1>7. m <= Cardinality(Node) BY <1>2, RowCount
<1>8. \A k \in 0 .. Cardinality(Node) : Walk(head'[b], node')[k] = Walk(head[b], node)[k]
  BY <1>2, <1>4, <1>7, RowWalk
<1>. QED BY <1>2, <1>5, <1>6, <1>8, EntriesAre

---------------------------------------------------------------------------
(* What the second steps of the updates do to the entries *)

OneEntryMore(f, g, m, e) ==
  /\ f = [i \in 1 .. m |-> f[i]] /\ g = [i \in 1 .. (m + 1) |-> g[i]]
  /\ g[m + 1] = e /\ \A i \in 1 .. m : g[i] = f[i]

(* A row with one entry more has it appended. *)
LEMMA AppendRow ==
  ASSUME NEW m \in Nat, NEW f, NEW g, NEW e, OneEntryMore(f, g, m, e)
  PROVE  g = Append(f, e)
<1>. USE DEF OneEntryMore
<1>1. PICK S : S = {f[i] : i \in 1 .. m} \cup {e} OBVIOUS
<1>2. f \in Seq(S) /\ Len(f) = m /\ e \in S
  <2>1. f \in [1 .. m -> S] BY <1>1
  <2>. QED BY <1>1, <2>1
<1>3. DOMAIN Append(f, e) = 1 .. (m + 1) /\ Append(f, e)[m + 1] = e
      /\ \A i \in 1 .. m : Append(f, e)[i] = f[i]
  BY <1>2
<1>4. Append(f, e) \in Seq(S) /\ Len(Append(f, e)) = m + 1 BY <1>2
<1>5. Append(f, e) = [i \in 1 .. (m + 1) |-> Append(f, e)[i]] BY <1>3, <1>4
<1>6. ASSUME NEW i \in 1 .. (m + 1) PROVE g[i] = Append(f, e)[i]
  <2>1. i = m + 1 \/ i \in 1 .. m OBVIOUS
  <2>. QED BY <1>3, <2>1
<1>. QED BY <1>5, <1>6

(* An insert puts its entry at the end of its row and changes no other row. *)
LEMMA EntriesInsert ==
  ASSUME TypeOK, UsedInv, ChainInv, LinkInv, NEW t \in Thread, FdInsertLink(t),
         NEW b, NEW n, NEW p, b = Hash[fd[t]] /\ n = new[t] /\ p = prev[t]
  PROVE  /\ Entries(b)' = Append(Entries(b), [key |-> fd[t], value |-> node[n].value])
         /\ \A c \in Bucket : c # b => Untouched(c)
<1>1. /\ b \in Bucket
      /\ node[n].key = fd[t] /\ node[n].next = NULL /\ n \in Node
      /\ \A c \in Bucket : n \notin Chain(c)
      /\ IF p = NULL THEN head[b] = NULL ELSE p \in Chain(b) /\ node[p].next = NULL /\ p \in Node
  BY LinkWrites
<1>2. /\ \A x \in Node : node'[x].key = node[x].key /\ node'[x].value = node[x].value
      /\ \A x \in Node : x # p => node'[x].next = node[x].next
      /\ IF p = NULL THEN head'[b] = n ELSE head'[b] = head[b] /\ node'[p].next = n
      /\ \A c \in Bucket : c # b => head'[c] = head[c]
  BY LinkWrites
<1>3. \A c \in Bucket : \A x \in Chain(c) : x \in Node BY DEF Chain
<1>4. ASSUME NEW c \in Bucket, c # b PROVE Untouched(c)
  <2>1. \A x \in Chain(c) : x # p
    BY <1>1, <1>3, <1>4, Disjoint, HookAssumption
  <2>. QED BY <1>2, <1>3, <1>4, <2>1 DEF Untouched
<1>5. PICK m \in Nat : \E s : /\ Row(head[b], node, m, s) /\ Chain(b) = Range(s)
                             /\ Entries(b) = RowEntries(node, m, s)
  BY <1>1, ChainRow
<1>6. PICK s : /\ Row(head[b], node, m, s) /\ Chain(b) = Range(s)
               /\ Entries(b) = RowEntries(node, m, s)
  BY <1>5
<1>7. LongerRow(head'[b], node', m, s, n)
  <2>1. CASE p = NULL
    <3>1. node'[n].next = NULL /\ head'[b] = n BY <1>1, <1>2, <2>1, HookAssumption
    <3>2. m = 0
      <4>1. head[b] = NULL /\ s \in [1 .. m -> Node]
            /\ head[b] = IF m = 0 THEN NULL ELSE s[1]
        BY <1>1, <1>6, <2>1 DEF Row
      <4>2. m # 0 => s[1] \in Node BY <4>1
      <4>. QED BY <4>1, <4>2, HookAssumption
    <3>3. PICK r : r = [i \in 1 .. 1 |-> n] OBVIOUS
    <3>4. r \in [1 .. 1 -> Node] /\ r[1] = n /\ Range(r) = {n} /\ IsInjective(r)
      BY <1>1, <3>3 DEF Range, IsInjective
    <3>5. Row(n, node', 1, r) BY <3>1, <3>4 DEF Row
    <3>6. Range(s) = {} BY <1>6, <3>2 DEF Row, Range
    <3>7. m + 1 = 1 /\ 1 .. m = {} BY <3>2
    <3>. QED BY <3>1, <3>4, <3>5, <3>6, <3>7, Zenon DEF LongerRow
  <2>2. CASE p # NULL
    <3>1. p \in Chain(b) /\ node[p].next = NULL /\ n \notin Chain(b) /\ n # p
      BY <1>1, <2>2
    <3>2. node'[p].next = n /\ node'[n].next = NULL /\ head'[b] = head[b]
      BY <1>1, <1>2, <2>2, <3>1
    <3>3. Appends(node, node', Range(s), p, n)
      BY <1>1, <1>2, <1>3, <1>6, <3>1, <3>2 DEF Appends
    <3>. QED BY <1>6, <3>2, <3>3, RowAppend
  <2>. QED BY <2>1, <2>2
<1>8. PICK r : /\ Row(head'[b], node', m + 1, r) /\ r[m + 1] = n
               /\ \A i \in 1 .. m : r[i] = s[i]
  BY <1>7 DEF LongerRow
<1>9. m + 1 \in Nat OBVIOUS
<1>10. Entries(b)' = RowEntries(node', m + 1, r) BY <1>8, <1>9, EntriesOfRow, EntriesAre
<1>11. PICK f, g : f = RowEntries(node, m, s) /\ g = RowEntries(node', m + 1, r) OBVIOUS
<1>12. PICK e : e = [key |-> fd[t], value |-> node[n].value] OBVIOUS
<1>13. f = [i \in 1 .. m |-> f[i]] /\ g = [i \in 1 .. (m + 1) |-> g[i]]
  BY <1>11 DEF RowEntries
<1>14. g[m + 1] = e
  <2>1. m + 1 \in 1 .. (m + 1) OBVIOUS
  <2>. QED BY <1>1, <1>2, <1>8, <1>11, <1>12, <2>1 DEF RowEntries
<1>15. ASSUME NEW i \in 1 .. m PROVE g[i] = f[i]
  <2>1. i \in 1 .. (m + 1) /\ s[i] \in Node BY <1>6 DEF Row
  <2>. QED BY <1>2, <1>8, <1>11, <2>1 DEF RowEntries
<1>16. g = Append(f, e)
  <2>1. OneEntryMore(f, g, m, e) BY <1>13, <1>14, <1>15 DEF OneEntryMore
  <2>. QED BY <2>1, AppendRow
<1>. QED BY <1>4, <1>6, <1>10, <1>11, <1>12, <1>16

(* A node of a chain and the first of its key there *)
FirstIn(b, n, d) ==
  \E i \in DOMAIN Entries(b) :
    PlacesOf(b)[i - 1] = n /\ \A j \in 1 .. i - 1 : Entries(b)[j].key # d

FirstAt(row, l, d) ==
  /\ l \in 1 .. Len(row) /\ row[l].key = d
  /\ \A j \in 1 .. l - 1 : row[j].key # d

(* A delete takes the first entry of its descriptor out of its row and       *)
(* changes no other row.                                                     *)
LEMMA EntriesDelete ==
  ASSUME TypeOK, UsedInv, ChainInv, UnlinkInv, NEW t \in Thread, FdDeleteUnlink(t),
         NEW b, NEW n, NEW p, b = Hash[fd[t]] /\ n = new[t] /\ p = prev[t],
         FirstIn(b, n, fd[t])
  PROVE  /\ \E l \in Nat : FirstAt(Entries(b), l, fd[t])
                           /\ Entries(b)' = Table!Without(Entries(b), l)
         /\ \A c \in Bucket : c # b => Untouched(c)
<1>1. /\ b \in Bucket /\ n \in Chain(b) /\ n \in Node /\ node[n].key = fd[t]
      /\ IF p = NULL THEN head[b] = n ELSE p \in Chain(b) /\ node[p].next = n /\ p \in Node
  BY UnlinkWrites
<1>2. /\ \A x \in Node : x # n => node'[x].key = node[x].key /\ node'[x].value = node[x].value
      /\ \A x \in Node : x # p => node'[x].next = node[x].next
      /\ IF p = NULL THEN head'[b] = node[n].next
         ELSE head'[b] = head[b] /\ node'[p].next = node[n].next
      /\ \A c \in Bucket : c # b => head'[c] = head[c]
  BY UnlinkWrites
<1>3. \A c \in Bucket : \A x \in Chain(c) : x \in Node BY DEF Chain
<1>4. ASSUME NEW c \in Bucket, c # b PROVE Untouched(c)
  <2>1. \A x \in Chain(c) : x # p /\ x # n
    BY <1>1, <1>3, <1>4, Disjoint, HookAssumption
  <2>. QED BY <1>2, <1>3, <1>4, <2>1 DEF Untouched
<1>5. PICK m \in Nat : \E s : /\ Row(head[b], node, m, s) /\ Chain(b) = Range(s)
                             /\ Entries(b) = RowEntries(node, m, s)
  BY <1>1, ChainRow
<1>6. PICK s : /\ Row(head[b], node, m, s) /\ Chain(b) = Range(s)
               /\ Entries(b) = RowEntries(node, m, s)
  BY <1>5
<1>7. PICK row : row = Entries(b) OBVIOUS
<1>8. DOMAIN row = 1 .. m /\ Len(row) = m
      /\ \A i \in 1 .. m : row[i] = [key |-> node[s[i]].key, value |-> node[s[i]].value]
  BY <1>6, <1>7 DEF RowEntries
<1>9. PICK l \in 1 .. m : PlacesOf(b)[l - 1] = n /\ \A j \in 1 .. l - 1 : row[j].key # fd[t]
  BY <1>7, <1>8 DEF FirstIn
<1>10. s[l] = n
  <2>1. m <= Cardinality(Node) BY <1>6, RowCount
  <2>2. l - 1 \in 0 .. Cardinality(Node) /\ l - 1 < m /\ (l - 1) + 1 = l
    BY <2>1, NodeCount
  <2>3. Walk(head[b], node)[l - 1] = s[l] BY <1>6, <2>1, <2>2, RowWalk
  <2>. QED BY <1>9, <2>3, EntriesAre
<1>11. FirstAt(row, l, fd[t]) BY <1>1, <1>8, <1>9, <1>10 DEF FirstAt
<1>12. Removes(head[b], node, head'[b], node', Range(s), p, n)
  BY <1>1, <1>2, <1>3, <1>6 DEF Removes
<1>13. ShorterRow(head'[b], node', m, s, l) BY <1>6, <1>10, <1>12, RowRemove
<1>14. PICK r : /\ Row(head'[b], node', m - 1, r)
                /\ \A i \in 1 .. (m - 1) : r[i] = IF i < l THEN s[i] ELSE s[i + 1]
  BY <1>13 DEF ShorterRow
<1>15. m - 1 \in Nat BY <1>9
<1>16. Entries(b)' = RowEntries(node', m - 1, r) BY <1>14, <1>15, EntriesOfRow, EntriesAre
<1>17. \A i, j \in 1 .. m : s[i] = s[j] => i = j BY <1>6 DEF Row, IsInjective
<1>18. ASSUME NEW i \in 1 .. (m - 1)
       PROVE  [key |-> node'[r[i]].key, value |-> node'[r[i]].value] =
              IF i < l THEN row[i] ELSE row[i + 1]
  <2>1. i \in 1 .. m /\ i + 1 \in 1 .. m /\ s[i] \in Node /\ s[i + 1] \in Node
    BY <1>6 DEF Row
  <2>2. CASE i < l
    <3>1. r[i] = s[i] /\ s[i] # n BY <1>10, <1>14, <1>17, <2>1, <2>2
    <3>. QED BY <1>2, <1>8, <2>1, <2>2, <3>1
  <2>3. CASE ~(i < l)
    <3>1. i + 1 # l BY <2>3
    <3>2. r[i] = s[i + 1] /\ s[i + 1] # n BY <1>10, <1>14, <1>17, <2>1, <2>3, <3>1
    <3>. QED BY <1>2, <1>8, <2>1, <2>3, <3>2
  <2>. QED BY <2>2, <2>3
<1>19. RowEntries(node', m - 1, r) = Table!Without(row, l)
  BY <1>8, <1>18 DEF RowEntries, Table!Without
<1>20. l \in Nat OBVIOUS
<1>. QED BY <1>4, <1>7, <1>11, <1>16, <1>19, <1>20

---------------------------------------------------------------------------
(* What a walk found is what the call was for *)

(* As long as no two updates of a chain overlap, the new node has the value   *)
(* of its call, and the node to be freed is the first of its descriptor.      *)
FoundInv ==
  ~raced =>
    \A t \in Thread :
      LET b == Hash[fd[t]]
      IN  /\ pc[t] = "link" => node[new[t]].value = t
          /\ pc[t] = "link_again" => node[new[t]].value = b
          /\ pc[t] = "unlink" =>
               \E i \in DOMAIN Entries(b) :
                 /\ PlacesOf(b)[i - 1] = new[t]
                 /\ \A j \in 1 .. i - 1 : Entries(b)[j].key # fd[t]

ThreadFound(t) ==
  /\ pc[t] = "link" => node[new[t]].value = t
  /\ pc[t] = "link_again" => node[new[t]].value = Hash[fd[t]]
  /\ pc[t] = "unlink" => FirstIn(Hash[fd[t]], new[t], fd[t])

(* FoundInv, thread by thread *)
LEMMA FoundParts == FoundInv <=> (~raced => \A t \in Thread : ThreadFound(t))
BY DEF FoundInv, ThreadFound, FirstIn

(* The same in the next state. *)
LEMMA FoundPartsPrimed ==
  ASSUME \A t \in Thread : ThreadFound(t)'
  PROVE  FoundInv'
BY DEF FoundInv, ThreadFound, FirstIn

(* The first node of a key stays the first in a chain that nobody writes to. *)
LEMMA FirstStays ==
  ASSUME ChainInv, NEW b \in Bucket, Untouched(b), NEW n, NEW d, FirstIn(b, n, d)
  PROVE  FirstIn(b, n, d)'
<1>1. PICK m \in Nat : \E s : /\ Row(head[b], node, m, s) /\ Chain(b) = Range(s)
                             /\ Entries(b) = RowEntries(node, m, s)
  BY ChainRow
<1>2. PICK s : /\ Row(head[b], node, m, s) /\ Chain(b) = Range(s)
               /\ Entries(b) = RowEntries(node, m, s)
  BY <1>1
<1>3. DOMAIN Entries(b) = 1 .. m BY <1>2 DEF RowEntries
<1>4. PICK i \in 1 .. m :
        PlacesOf(b)[i - 1] = n /\ \A j \in 1 .. i - 1 : Entries(b)[j].key # d
  BY <1>3 DEF FirstIn
<1>5. i - 1 \in 0 .. Cardinality(Node) BY <1>2, RowCount, NodeCount
<1>6. Entries(b)' = Entries(b) /\ PlacesOf(b)'[i - 1] = PlacesOf(b)[i - 1]
  BY <1>5, EntriesStay
<1>. QED BY <1>3, <1>4, <1>6 DEF FirstIn

(* What fd_deleteByKey's walk finds is the first node of the key. *)
LEMMA FirstFound ==
  ASSUME ChainInv, NEW b \in Bucket, NEW key, NEW f \in Find(b, key)
  PROVE  FirstIn(b, f[2], key)
<1>1. PICK m \in Nat : \E s : /\ Row(head[b], node, m, s) /\ Chain(b) = Range(s)
                             /\ Entries(b) = RowEntries(node, m, s)
  BY ChainRow
<1>2. PICK s : /\ Row(head[b], node, m, s) /\ Chain(b) = Range(s)
               /\ Entries(b) = RowEntries(node, m, s)
  BY <1>1
<1>3. PICK k \in 0 .. Cardinality(Node) :
        /\ f[2] = PlacesOf(b)[k] /\ f[2] \in Node
        /\ \A j \in 0 .. k - 1 : node[PlacesOf(b)[j]].key # key
  BY DEF Find
<1>4. m <= Cardinality(Node) BY <1>2, RowCount
<1>5. \A j \in 0 .. Cardinality(Node) : PlacesOf(b)[j] = IF j < m THEN s[j + 1] ELSE NULL
  <2>1. PlacesOf(b) = Walk(head[b], node) BY EntriesAre
  <2>2. \A j \in 0 .. Cardinality(Node) :
          Walk(head[b], node)[j] = IF j < m THEN s[j + 1] ELSE NULL
    BY <1>2, <1>4, RowWalk
  <2>. QED BY <2>1, <2>2
<1>6. k < m /\ k \in Nat BY <1>3, <1>5, HookAssumption, NodeCount
<1>7. k + 1 \in 1 .. m /\ (k + 1) - 1 = k BY <1>6
<1>8. ASSUME NEW j \in 1 .. (k + 1) - 1 PROVE Entries(b)[j].key # key
  <2>1. j - 1 \in 0 .. k - 1 /\ j - 1 \in 0 .. Cardinality(Node) /\ (j - 1) + 1 = j
        /\ j - 1 < m /\ j \in 1 .. m
    BY <1>4, <1>6, NodeCount
  <2>2. PlacesOf(b)[j - 1] = s[j] BY <1>5, <2>1
  <2>3. Entries(b)[j].key = node[s[j]].key BY <1>2, <2>1 DEF RowEntries
  <2>. QED BY <1>3, <2>1, <2>2, <2>3
<1>9. k + 1 \in DOMAIN Entries(b) BY <1>2, <1>7 DEF RowEntries
<1>. QED BY <1>3, <1>7, <1>8, <1>9 DEF FirstIn

StaysPut(u) == pc'[u] = pc[u] /\ fd'[u] = fd[u] /\ new'[u] = new[u] /\ prev'[u] = prev[u]

(* A thread that stays where it is, with a chain nobody writes to *)
LEMMA FoundStays ==
  ASSUME ChainInv, UsedInv, NEW u \in Thread, ThreadFound(u), StaysPut(u),
         pc[u] \in Linking => node'[new[u]].value = node[new[u]].value,
         pc[u] = "unlink" => Untouched(Hash[fd[u]])
  PROVE  ThreadFound(u)'
<1>1. pc'[u] = pc[u] /\ fd'[u] = fd[u] /\ new'[u] = new[u] BY DEF StaysPut
<1>2. CASE pc[u] = "unlink"
  <2>1. PICK b, n, d : b = Hash[fd[u]] /\ n = new[u] /\ d = fd[u] OBVIOUS
  <2>2. b \in Bucket BY <1>2, <2>1, HashInBucket DEF UsedInv
  <2>3. Untouched(b) /\ FirstIn(b, n, d) BY <1>2, <2>1 DEF ThreadFound
  <2>4. FirstIn(b, n, d)' BY <2>2, <2>3, FirstStays
  <2>. QED BY <1>1, <1>2, <2>1, <2>4 DEF ThreadFound, FirstIn
<1>3. CASE pc[u] # "unlink" BY <1>1, <1>3 DEF ThreadFound, Linking
<1>. QED BY <1>2, <1>3

(* A step of one thread leaves the variables of the others alone. *)
LEMMA GotoMoves ==
  ASSUME TypeOK, NEW t \in Thread, NEW l, NEW d, NEW n, NEW p, Goto(t, l, d, n, p)
  PROVE  /\ \A u \in Thread : u # t => StaysPut(u)
         /\ pc'[t] = l /\ fd'[t] = d /\ new'[t] = n /\ prev'[t] = p
BY DEF TypeOK, Goto, StaysPut

(* A thread that has not walked has found nothing yet. *)
LEMMA NothingYet ==
  ASSUME NEW u, pc'[u] \notin Walked
  PROVE  ThreadFound(u)'
BY DEF ThreadFound, Walked

(* Steps that leave the table alone *)
LEMMA TableUntouched ==
  ASSUME UNCHANGED table
  PROVE  (\A b : Untouched(b)) /\ node' = node
BY DEF table, Untouched

(* A thread begins, ends or looks for a node: the others' findings hold. *)
LEMMA MovesFound ==
  ASSUME TypeOK, UsedInv, ChainInv, \A u \in Thread : ThreadFound(u), UNCHANGED table,
         NEW t \in Thread, NEW l, NEW d, NEW n, NEW p, Goto(t, l, d, n, p), ThreadFound(t)'
  PROVE  FoundInv'
<1>1. \A u \in Thread : u # t => StaysPut(u) BY GotoMoves
<1>2. (\A b : Untouched(b)) /\ node' = node BY TableUntouched
<1>3. \A u \in Thread : u # t => ThreadFound(u)' BY <1>1, <1>2, FoundStays
<1>. QED BY <1>3, FoundPartsPrimed

(* No thread moves and the table stays as it is. *)
LEMMA NothingMovesFound ==
  ASSUME UsedInv, ChainInv, \A u \in Thread : ThreadFound(u), UNCHANGED <<locals, table>>
  PROVE  FoundInv'
<1>1. \A u \in Thread : StaysPut(u) BY DEF locals, StaysPut
<1>2. (\A b : Untouched(b)) /\ node' = node BY TableUntouched
<1>3. \A u \in Thread : ThreadFound(u)' BY <1>1, <1>2, FoundStays
<1>. QED BY <1>3, FoundPartsPrimed

(* The walk of a delete *)
LEMMA DeleteWalkFound ==
  ASSUME TypeOK, UsedInv, ChainInv, \A u \in Thread : ThreadFound(u), NEW t \in Thread,
         FdDeleteWalk(t)
  PROVE  FoundInv'
<1>1. UNCHANGED table /\ fd[t] \in Fd /\ Hash[fd[t]] \in Bucket
  BY HashInBucket DEF FdDeleteWalk, UsedInv
<1>2. CASE Goto(t, "idle", NULL, NULL, NULL)
  <2>1. pc'[t] \notin Walked BY <1>2, GotoMoves DEF Walked
  <2>2. ThreadFound(t)' BY <2>1, NothingYet
  <2>. QED BY <1>1, <1>2, <2>2, MovesFound
<1>3. ASSUME NEW f \in Find(Hash[fd[t]], fd[t]), Goto(t, "unlink", fd[t], f[2], f[1])
      PROVE  FoundInv'
  <2>1. PICK b, d, n : b = Hash[fd[t]] /\ d = fd[t] /\ n = f[2] OBVIOUS
  <2>2. FirstIn(b, n, d) /\ b \in Bucket BY <1>1, <1>3, <2>1, FirstFound
  <2>3. Untouched(b) BY <1>1, TableUntouched
  <2>4. FirstIn(b, n, d)' BY <2>2, <2>3, FirstStays
  <2>5. pc'[t] = "unlink" /\ fd'[t] = d /\ new'[t] = n BY <1>3, <2>1, GotoMoves
  <2>6. ThreadFound(t)' BY <2>1, <2>4, <2>5 DEF ThreadFound, FirstIn
  <2>. QED BY <1>1, <1>3, <2>6, MovesFound
<1>. QED BY <1>2, <1>3 DEF FdDeleteWalk

(* The walk of an insert fills in a node that is in no chain. *)
LEMMA InsertWalkFound ==
  ASSUME TypeOK, UsedInv, ChainInv, LinkInv, \A u \in Thread : ThreadFound(u),
         NEW t \in Thread, FdInsertWalk(t)
  PROVE  FoundInv' /\ \A c \in Bucket : Untouched(c)
<1>1. PICK n \in Node \ alloc :
        /\ node' = [node EXCEPT ![n] =
                      [key |-> fd[t], next |-> NULL,
                       value |-> IF pc[t] = "insert" THEN t ELSE Hash[fd[t]]]]
        /\ Goto(t, IF pc[t] = "insert" THEN "link" ELSE "link_again", fd[t], n,
                LastOf(Hash[fd[t]]))
  BY DEF FdInsertWalk
<1>2. PICK v : v = IF pc[t] = "insert" THEN t ELSE Hash[fd[t]] OBVIOUS
<1>3. head' = head /\ node'[n].value = v /\ \A x \in Node : x # n => node'[x] = node[x]
  BY <1>1, <1>2 DEF TypeOK, FdInsertWalk
<1>4. \A c \in Bucket : Untouched(c)
  <2>1. \A c \in Bucket : \A x \in Chain(c) : x \in Node /\ x # n
    BY <1>1 DEF ChainInv, NodeOf, Chain
  <2>. QED BY <1>3, <2>1 DEF Untouched
<1>5. PICK l, p : /\ l = IF pc[t] = "insert" THEN "link" ELSE "link_again"
                  /\ p = LastOf(Hash[fd[t]])
  OBVIOUS
<1>6. (\A u \in Thread : u # t => StaysPut(u)) /\ pc'[t] = l /\ fd'[t] = fd[t] /\ new'[t] = n
  <2>1. Goto(t, l, fd[t], n, p) BY <1>1, <1>5
  <2>. QED BY <2>1, GotoMoves
<1>7. ThreadFound(t)' BY <1>2, <1>3, <1>5, <1>6 DEF ThreadFound
<1>8. ASSUME NEW u \in Thread, u # t PROVE ThreadFound(u)'
  <2>1. pc[u] \in Linking => node'[new[u]].value = node[new[u]].value
    <3>1. SUFFICES ASSUME pc[u] \in Linking PROVE node'[new[u]].value = node[new[u]].value
      OBVIOUS
    <3>2. LinkSound(u) BY <3>1, SoundParts
    <3>3. new[u] \in Node /\ new[u] # n BY <1>1, <3>2 DEF LinkSound, NodeOf, TypeOK
    <3>. QED BY <1>3, <3>3
  <2>2. pc[u] = "unlink" => Untouched(Hash[fd[u]])
    BY <1>4, HashInBucket DEF UsedInv
  <2>. QED BY <1>6, <1>8, <2>1, <2>2, FoundStays
<1>. QED BY <1>4, <1>7, <1>8, FoundPartsPrimed

(* The other threads have found what they look for in other chains. *)
LEMMA InsertLinkFound ==
  ASSUME TypeOK, UsedInv, ChainInv, LinkInv, \A u \in Thread : ThreadFound(u),
         NEW t \in Thread, FdInsertLink(t), ~raced'
  PROVE  FoundInv'
<1>1. PICK b, n, p : b = Hash[fd[t]] /\ n = new[t] /\ p = prev[t] OBVIOUS
<1>2. \A x \in Node : node'[x].value = node[x].value BY <1>1, LinkWrites
<1>3. \A c \in Bucket : c # b => Untouched(c) BY <1>1, EntriesInsert
<1>4. (\A u \in Thread : u # t => StaysPut(u)) /\ pc'[t] = "idle"
  BY GotoMoves DEF FdInsertLink
<1>5. ThreadFound(t)' BY <1>4, NothingYet DEF Walked
<1>6. ASSUME NEW u \in Thread, u # t PROVE ThreadFound(u)'
  <2>1. pc[u] \in Linking => node'[new[u]].value = node[new[u]].value
    BY <1>2, SoundParts DEF LinkSound, NodeOf, TypeOK
  <2>2. pc[u] = "unlink" => Untouched(Hash[fd[u]])
    BY <1>1, <1>3, <1>6, Alone DEF FdInsertLink, Walked
  <2>. QED BY <1>4, <1>6, <2>1, <2>2, FoundStays
<1>. QED BY <1>5, <1>6, FoundPartsPrimed

(* The node that is freed is in the thread's own chain. *)
LEMMA DeleteUnlinkFound ==
  ASSUME TypeOK, UsedInv, ChainInv, LinkInv, UnlinkInv, \A u \in Thread : ThreadFound(u),
         NEW t \in Thread, FdDeleteUnlink(t), ~raced'
  PROVE  FoundInv'
<1>1. PICK b, n, p : b = Hash[fd[t]] /\ n = new[t] /\ p = prev[t] OBVIOUS
<1>2. /\ b \in Bucket /\ n \in Chain(b) /\ pc[t] = "unlink"
      /\ \A x \in Node : x # n => node'[x].value = node[x].value
  BY <1>1, UnlinkWrites
<1>3. \A c \in Bucket : c # b => Untouched(c)
  <2>1. FirstIn(b, n, fd[t]) BY <1>1, <1>2 DEF ThreadFound
  <2>. QED BY <1>1, <2>1, EntriesDelete
<1>4. (\A u \in Thread : u # t => StaysPut(u)) /\ pc'[t] = "idle"
  BY GotoMoves DEF FdDeleteUnlink
<1>5. ThreadFound(t)' BY <1>4, NothingYet DEF Walked
<1>6. ASSUME NEW u \in Thread, u # t PROVE ThreadFound(u)'
  <2>1. pc[u] \in Linking => node'[new[u]].value = node[new[u]].value
    <3>1. SUFFICES ASSUME pc[u] \in Linking PROVE node'[new[u]].value = node[new[u]].value
      OBVIOUS
    <3>2. LinkSound(u) BY <3>1, SoundParts
    <3>3. new[u] \in Node /\ new[u] # n BY <1>2, <3>2 DEF LinkSound, NodeOf, TypeOK
    <3>. QED BY <1>2, <3>3
  <2>2. pc[u] = "unlink" => Untouched(Hash[fd[u]])
    BY <1>1, <1>3, <1>6, Alone DEF FdDeleteUnlink, Walked
  <2>. QED BY <1>4, <1>6, <2>1, <2>2, FoundStays
<1>. QED BY <1>5, <1>6, FoundPartsPrimed

(* Initially no thread has found anything. *)
LEMMA FoundInit == Init => FoundInv
BY DEF Init, FoundInv

(* A race is not forgotten. *)
LEMMA RaceStays == [Next]_vars /\ ~raced' => ~raced
BY DEF Next, vars, history, FdInsertWalk, FdInsertLink, FdDeleteWalk, FdDeleteUnlink,
  ReqSock, ReqEpollCreate1, ReqAccept, OpenLocal, NewRemote, ReqConnect, ReqClose, NoteRace

(* Every step keeps what the walks found. *)
LEMMA FoundStep == TableInv /\ FoundInv /\ [Next]_vars => FoundInv'
<1>. SUFFICES ASSUME TableInv, FoundInv, [Next]_vars PROVE FoundInv' OBVIOUS
<1>1. CASE raced' BY <1>1 DEF FoundInv
<1>2. CASE ~raced'
  <2>1. ~raced BY <1>2, RaceStays
  <2>2. TypeOK /\ UsedInv /\ ChainInv /\ LinkInv /\ UnlinkInv BY <2>1 DEF TableInv
  <2>3. \A u \in Thread : ThreadFound(u) BY <2>1, FoundParts
  <2>4. CASE UNCHANGED vars
    <3>1. UNCHANGED <<locals, table>> BY <2>4 DEF vars
    <3>. QED BY <2>2, <2>3, <3>1, NothingMovesFound
  <2>5. ASSUME NEW t \in Thread, FdInsertWalk(t) PROVE FoundInv'
    BY <2>2, <2>3, <2>5, InsertWalkFound
  <2>6. ASSUME NEW t \in Thread, FdInsertLink(t) PROVE FoundInv'
    BY <1>2, <2>2, <2>3, <2>6, InsertLinkFound
  <2>7. ASSUME NEW t \in Thread, FdDeleteWalk(t) PROVE FoundInv'
    BY <2>2, <2>3, <2>7, DeleteWalkFound
  <2>8. ASSUME NEW t \in Thread, FdDeleteUnlink(t) PROVE FoundInv'
    BY <1>2, <2>2, <2>3, <2>8, DeleteUnlinkFound
  <2>9. ASSUME NEW t \in Thread, NEW l \in {"insert", "insert_again", "delete"}, NEW d,
               Goto(t, l, d, NULL, NULL), UNCHANGED table
        PROVE  FoundInv'
    <3>1. pc'[t] \notin Walked BY <2>2, <2>9, GotoMoves DEF Walked
    <3>2. ThreadFound(t)' BY <3>1, NothingYet
    <3>. QED BY <2>2, <2>3, <2>9, <3>2, MovesFound
  <2>10. ASSUME NEW t \in Thread, ReqSock(t) \/ ReqEpollCreate1(t) \/ ReqAccept(t)
         PROVE  FoundInv'
    <3>1. UNCHANGED table /\ ((\E d : Goto(t, "insert", d, NULL, NULL)) \/ UNCHANGED locals)
      BY <2>10 DEF ReqSock, ReqEpollCreate1, ReqAccept, NewRemote
    <3>. QED BY <2>2, <2>3, <2>9, <3>1, NothingMovesFound
  <2>11. ASSUME NEW t \in Thread, NEW h \in app, ReqConnect(t, h) PROVE FoundInv'
    BY <2>9, <2>11 DEF ReqConnect
  <2>12. ASSUME NEW t \in Thread, NEW h \in app, ReqClose(t, h) PROVE FoundInv'
    <3>1. UNCHANGED table /\ (Goto(t, "delete", h.fd, NULL, NULL) \/ UNCHANGED locals)
      BY <2>12 DEF ReqClose
    <3>. QED BY <2>2, <2>3, <2>9, <3>1, NothingMovesFound
  <2>13. ASSUME NEW t \in Thread, OpenLocal(t) PROVE FoundInv'
    <3>1. UNCHANGED <<locals, table>> BY <2>13 DEF OpenLocal
    <3>. QED BY <2>2, <2>3, <3>1, NothingMovesFound
  <2>. QED BY <2>4, <2>5, <2>6, <2>7, <2>8, <2>10, <2>11, <2>12, <2>13 DEF Next
<1>. QED BY <1>1, <1>2

---------------------------------------------------------------------------
(* The refinement *)

(* The hooks search the table as FdTable says: the oldest entry decides. *)
LEMMA SearchIsFound ==
  ASSUME ChainInv, NEW d \in Fd, NEW call
  PROVE  Routed(call, d) <=> Table!Found(call, d)
<1>1. PICK b : b = Hash[d] OBVIOUS
<1>2. b \in Bucket BY <1>1, HashInBucket
<1>3. PICK m \in Nat : \E s : /\ Row(head[b], node, m, s) /\ Chain(b) = Range(s)
                             /\ Entries(b) = RowEntries(node, m, s)
  BY <1>2, ChainRow
<1>4. PICK s : Row(head[b], node, m, s) /\ Entries(b) = RowEntries(node, m, s) BY <1>3
<1>5. PICK row : row = Rows[b] OBVIOUS
<1>6. row = RowEntries(node, m, s) BY <1>2, <1>4, <1>5 DEF Rows
<1>7. CASE m = 0
  <2>1. head[b] = NULL BY <1>4, <1>7 DEF Row
  <2>2. row = <<>> BY <1>6, <1>7 DEF RowEntries
  <2>. QED BY <1>1, <1>5, <2>1, <2>2 DEF Routed, Table!Found
<1>8. CASE m # 0
  <2>1. 1 \in 1 .. m BY <1>8
  <2>2. head[b] = s[1] /\ s[1] \in Node BY <1>4, <1>8, <2>1 DEF Row
  <2>3. row[1].key = node[head[b]].key /\ row[1].value = node[head[b]].value
    BY <1>6, <2>1, <2>2 DEF RowEntries
  <2>4. DOMAIN row = 1 .. m BY <1>6 DEF RowEntries
  <2>5. row # <<>> BY <2>1, <2>4
  <2>. QED BY <1>1, <1>5, <2>2, <2>3, <2>5, HookAssumption DEF Routed, Table!Found
<1>. QED BY <1>7, <1>8

(* The table of FdTable begins empty. *)
LEMMA RefinementInit == Init => Table!Init
<1>. SUFFICES ASSUME Init PROVE Table!Init OBVIOUS
<1>1. Table!Bucket = Bucket BY HookAssumption DEF Table!Bucket, Bucket, Range
<1>2. TableInv BY TableInit
<1>3. ChainInv BY <1>2 DEF Init, TableInv
<1>4. ASSUME NEW b \in Bucket PROVE Entries(b) = <<>>
  <2>1. PICK m \in Nat : \E s : /\ Row(head[b], node, m, s) /\ Chain(b) = Range(s)
                               /\ Entries(b) = RowEntries(node, m, s)
    BY <1>3, ChainRow
  <2>2. PICK s : Row(head[b], node, m, s) /\ Entries(b) = RowEntries(node, m, s) BY <2>1
  <2>3. head[b] = NULL BY DEF Init
  <2>4. m = 0
    <3>1. s \in [1 .. m -> Node] /\ NULL = IF m = 0 THEN NULL ELSE s[1] BY <2>2, <2>3 DEF Row
    <3>2. m # 0 => s[1] \in Node BY <3>1
    <3>. QED BY <3>1, <3>2, HookAssumption
  <2>. QED BY <2>2, <2>4 DEF RowEntries
<1>5. Rows = [b \in Bucket |-> <<>>] BY <1>4 DEF Rows
<1>6. Updates = [t \in Thread |-> "none"] BY DEF Init, Updates, Update
<1>7. fd = [t \in Thread |-> NULL] /\ raced = FALSE BY DEF Init
<1>. QED BY <1>1, <1>5, <1>6, <1>7 DEF Table!Init

(* The rows after a step *)
LEMMA RowsStay ==
  ASSUME ChainInv, \A c \in Bucket : Untouched(c)
  PROVE  Rows' = Rows
<1>1. \A c \in Bucket : Entries(c)' = Entries(c) BY EntriesStay
<1>. QED BY <1>1 DEF Rows

(* A step that writes to the chain of one bucket *)
LEMMA OneRowChanges ==
  ASSUME ChainInv, NEW b \in Bucket, NEW row, Entries(b)' = row,
         \A c \in Bucket : c # b => Untouched(c)
  PROVE  Rows' = [Rows EXCEPT ![b] = row]
<1>1. \A c \in Bucket : c # b => Entries(c)' = Entries(c) BY EntriesStay
<1>2. Rows = [c \in Bucket |-> Entries(c)] /\ Rows' = [c \in Bucket |-> Entries(c)'] BY DEF Rows
<1>3. ASSUME NEW c \in Bucket PROVE Entries(c)' = [Rows EXCEPT ![b] = row][c]
  BY <1>1, <1>2
<1>. QED BY <1>2, <1>3

(* The updates under way after a step of one thread *)
LEMMA UpdatesAfter ==
  ASSUME TypeOK, NEW t \in Thread, NEW l, NEW d, NEW n, NEW p, Goto(t, l, d, n, p)
  PROVE  /\ Updates' = [Updates EXCEPT ![t] = Update(l)]
         /\ Updates[t] = Update(pc[t])
         /\ fd' = [fd EXCEPT ![t] = d]
<1>1. pc' = [pc EXCEPT ![t] = l] /\ pc \in [Thread -> PcType] BY DEF Goto, TypeOK, PcType
<1>2. Updates = [u \in Thread |-> Update(pc[u])] /\ Updates' = [u \in Thread |-> Update(pc'[u])]
  BY DEF Updates, Update
<1>3. ASSUME NEW u \in Thread PROVE Update(pc'[u]) = [Updates EXCEPT ![t] = Update(l)][u]
  BY <1>1, <1>2
<1>. QED BY <1>2, <1>3 DEF Goto

(* Which update a thread has under way *)
LEMMA UpdateIs ==
  /\ Update("idle") = "none"
  /\ Update("insert") = "open" /\ Update("link") = "open"
  /\ Update("insert_again") = "connect" /\ Update("link_again") = "connect"
  /\ Update("delete") = "close" /\ Update("unlink") = "close"
BY DEF Update

(* A call whose descriptor has been opened, found for connect or for close *)
LEMMA RefinesBegin ==
  ASSUME TypeOK, ChainInv, NEW t \in Thread, pc[t] = "idle", NEW l, NEW d \in Fd,
         Goto(t, l, d, NULL, NULL), UNCHANGED table, raced' = raced,
         \/ l = "insert"
         \/ l = "insert_again" /\ Routed("connect", d)
         \/ l = "delete" /\ Routed("close", d)
  PROVE  Table!Next
<1>1. Rows' = Rows BY TableUntouched, RowsStay
<1>2. Updates' = [Updates EXCEPT ![t] = Update(l)] /\ Updates[t] = "none"
      /\ fd' = [fd EXCEPT ![t] = d]
  BY UpdatesAfter, UpdateIs
<1>3. Table!Begin(t, Update(l), d) BY <1>1, <1>2 DEF Table!Begin
<1>4. Table!Open(t) \/ Table!Connect(t) \/ Table!Close(t)
  BY <1>3, UpdateIs, SearchIsFound DEF Table!Open, Table!Connect, Table!Close
<1>. QED BY <1>4 DEF Table!Next

(* An update returns. *)
LEMMA RefinesEnds ==
  ASSUME TypeOK, NEW t \in Thread, Goto(t, "idle", NULL, NULL, NULL), raced' = raced
  PROVE  Table!Ends(t)
BY UpdatesAfter, UpdateIs DEF Table!Ends

(* The link that fd_insertByValue writes is where the insert takes effect. *)
LEMMA RefinesInsert ==
  ASSUME TypeOK, UsedInv, ChainInv, LinkInv, NEW t \in Thread, ThreadFound(t),
         FdInsertLink(t), raced' = raced
  PROVE  Table!Next
<1>1. PICK b, n, p : b = Hash[fd[t]] /\ n = new[t] /\ p = prev[t] OBVIOUS
<1>2. b \in Bucket /\ pc[t] \in Linking BY <1>1, LinkWrites
<1>3. PICK e : e = [key |-> fd[t], value |-> IF Updates[t] = "open" THEN t ELSE b] OBVIOUS
<1>4. Updates[t] \in {"open", "connect"} /\ e = [key |-> fd[t], value |-> node[n].value]
  <2>1. Updates[t] = Update(pc[t]) BY DEF Updates
  <2>2. CASE pc[t] = "link" BY <1>1, <1>3, <2>1, <2>2, UpdateIs DEF ThreadFound
  <2>3. CASE pc[t] = "link_again" BY <1>1, <1>3, <2>1, <2>3, UpdateIs DEF ThreadFound
  <2>. QED BY <1>2, <2>2, <2>3 DEF Linking
<1>5. Entries(b)' = Append(Entries(b), e) /\ \A c \in Bucket : c # b => Untouched(c)
  BY <1>1, <1>4, EntriesInsert
<1>6. Rows' = [Rows EXCEPT ![b] = Append(Rows[b], e)]
  <2>1. Rows' = [Rows EXCEPT ![b] = Append(Entries(b), e)] BY <1>2, <1>5, OneRowChanges
  <2>2. Rows[b] = Entries(b) BY <1>2 DEF Rows
  <2>. QED BY <2>1, <2>2
<1>7. Table!Ends(t) BY RefinesEnds DEF FdInsertLink
<1>8. Table!Insert(t) BY <1>1, <1>3, <1>4, <1>6, <1>7 DEF Table!Insert
<1>. QED BY <1>8 DEF Table!Next

(* The link that fd_deleteByKey writes is where the delete takes effect. *)
LEMMA RefinesDelete ==
  ASSUME TypeOK, UsedInv, ChainInv, UnlinkInv, NEW t \in Thread, ThreadFound(t),
         FdDeleteUnlink(t), raced' = raced
  PROVE  Table!Next
<1>1. PICK b, n, p : b = Hash[fd[t]] /\ n = new[t] /\ p = prev[t] OBVIOUS
<1>2. b \in Bucket /\ pc[t] = "unlink" BY <1>1, UnlinkWrites
<1>3. Updates[t] = "close" BY <1>2, UpdateIs DEF Updates
<1>4. FirstIn(b, n, fd[t]) BY <1>1, <1>2 DEF ThreadFound
<1>5. PICK l \in Nat : /\ FirstAt(Entries(b), l, fd[t])
                       /\ Entries(b)' = Table!Without(Entries(b), l)
  BY <1>1, <1>4, EntriesDelete
<1>6. \A c \in Bucket : c # b => Untouched(c) BY <1>1, <1>4, EntriesDelete
<1>7. Rows' = [Rows EXCEPT ![b] = Table!Without(Rows[b], l)] /\ FirstAt(Rows[b], l, fd[t])
  <2>1. Rows' = [Rows EXCEPT ![b] = Table!Without(Entries(b), l)]
    BY <1>2, <1>5, <1>6, OneRowChanges
  <2>2. Rows[b] = Entries(b) BY <1>2 DEF Rows
  <2>. QED BY <1>5, <2>1, <2>2
<1>8. Table!Ends(t) BY RefinesEnds DEF FdDeleteUnlink
<1>9. Table!Delete(t) BY <1>1, <1>3, <1>7, <1>8 DEF Table!Delete, FirstAt
<1>. QED BY <1>9 DEF Table!Next

(* A delete that finds no node has no entry to remove. *)
LEMMA RefinesNothing ==
  ASSUME TypeOK, UsedInv, ChainInv, NEW t \in Thread, pc[t] = "delete",
         Find(Hash[fd[t]], fd[t]) = {}, Goto(t, "idle", NULL, NULL, NULL), UNCHANGED table,
         raced' = raced
  PROVE  Table!Next
<1>1. PICK b : b = Hash[fd[t]] OBVIOUS
<1>2. b \in Bucket BY <1>1, HashInBucket DEF UsedInv
<1>3. PICK m \in Nat : \E s : /\ Row(head[b], node, m, s) /\ Chain(b) = Range(s)
                             /\ Entries(b) = RowEntries(node, m, s)
  BY <1>2, ChainRow
<1>4. PICK s : /\ Row(head[b], node, m, s) /\ Chain(b) = Range(s)
               /\ Entries(b) = RowEntries(node, m, s)
  BY <1>3
<1>5. PICK row : row = Rows[b] OBVIOUS
<1>6. row = RowEntries(node, m, s) BY <1>2, <1>4, <1>5 DEF Rows
<1>7. Len(row) = m /\ \A i \in 1 .. m : row[i].key = node[s[i]].key
  BY <1>6 DEF RowEntries
<1>8. \A i \in 1 .. m : s[i] \in Chain(b) BY <1>4 DEF Row, Range
<1>9. \A n \in Chain(b) : node[n].key # fd[t] BY <1>1, NothingFound
<1>10. \A i \in 1 .. Len(row) : row[i].key # fd[t] BY <1>7, <1>8, <1>9
<1>11. Rows' = Rows BY TableUntouched, RowsStay
<1>12. Updates[t] = "close" BY UpdateIs DEF Updates
<1>13. Table!Ends(t) BY RefinesEnds
<1>14. Table!Delete(t) BY <1>1, <1>5, <1>10, <1>11, <1>12, <1>13 DEF Table!Delete
<1>. QED BY <1>14 DEF Table!Next

(* Walks and calls on other descriptors are not seen. *)
LEMMA RefinesStutter ==
  ASSUME ChainInv, \A c \in Bucket : Untouched(c), Updates' = Updates, fd' = fd, raced' = raced
  PROVE  UNCHANGED Table!vars
BY RowsStay DEF Table!vars

(* Two threads that have walked one chain have updates of it under way. *)
LEMMA RefinesOverlap ==
  ASSUME TypeOK, TypeOK', [Next]_vars, raced'
  PROVE  Table!Overlap
<1>1. raced' = TRUE BY ZenonT(30) DEF TypeOK
<1>2. CASE raced BY <1>1, <1>2 DEF Table!Overlap
<1>3. CASE ~raced
  <2>1. PICK t \in Thread : (FdInsertLink(t) \/ FdDeleteUnlink(t)) /\ NoteRace(t)
    BY <1>1, <1>3, ZenonT(40) DEF Next, vars, history, FdInsertWalk, FdInsertLink, FdDeleteWalk,
      FdDeleteUnlink, ReqSock, ReqEpollCreate1, ReqAccept, OpenLocal, NewRemote, ReqConnect,
      ReqClose
  <2>2. PICK u \in Thread \ {t} :
          pc[u] \in {"link", "link_again", "unlink"} /\ Hash[fd[u]] = Hash[fd[t]]
    BY <1>1, <1>3, <2>1 DEF NoteRace, Races
  <2>3. pc[t] \in {"link", "link_again", "unlink"} BY <2>1 DEF FdInsertLink, FdDeleteUnlink
  <2>4. Updates[t] # "none" /\ Updates[u] # "none" BY <2>2, <2>3, UpdateIs DEF Updates
  <2>. QED BY <1>1, <2>2, <2>4 DEF Table!Overlap
<1>. QED BY <1>2, <1>3

(* Every step is one of FdTable or is not seen there. *)
LEMMA RefinementStep ==
  TableInv /\ TableInv' /\ FoundInv /\ [Next]_vars => [Table!Next]_Table!vars
<1>. SUFFICES ASSUME TableInv, TableInv', FoundInv, [Next]_vars
     PROVE  Table!Next \/ UNCHANGED Table!vars
  OBVIOUS
<1>1. TypeOK /\ UsedInv /\ TypeOK' BY DEF TableInv
<1>2. CASE raced' BY <1>1, <1>2, RefinesOverlap DEF Table!Next
<1>3. CASE ~raced'
  <2>1. ~raced BY <1>3, RaceStays
  <2>2. raced' = raced BY <1>1, <1>3, <2>1, ZenonT(30) DEF TypeOK
  <2>3. ChainInv /\ LinkInv /\ UnlinkInv /\ \A u \in Thread : ThreadFound(u)
    BY <2>1, FoundParts DEF TableInv
  <2>4. ASSUME UNCHANGED <<locals, table>> PROVE UNCHANGED Table!vars
    <3>1. (\A c \in Bucket : Untouched(c)) /\ Updates' = Updates /\ fd' = fd
      BY <2>4, TableUntouched DEF locals, Updates
    <3>. QED BY <2>2, <2>3, <3>1, RefinesStutter
  <2>5. CASE UNCHANGED vars BY <2>4, <2>5 DEF vars
  <2>6. ASSUME NEW t \in Thread, FdInsertWalk(t) PROVE UNCHANGED Table!vars
    <3>1. \A c \in Bucket : Untouched(c) BY <1>1, <2>3, <2>6, InsertWalkFound
    <3>2. PICK l, n, p : Goto(t, l, fd[t], n, p)
                         /\ l = IF pc[t] = "insert" THEN "link" ELSE "link_again"
      BY <2>6 DEF FdInsertWalk
    <3>3. /\ Updates' = [Updates EXCEPT ![t] = Update(l)] /\ Updates[t] = Update(pc[t])
          /\ fd' = [fd EXCEPT ![t] = fd[t]]
      BY <1>1, <3>2, UpdatesAfter
    <3>4. Update(l) = Update(pc[t]) BY <2>6, <3>2, UpdateIs DEF FdInsertWalk
    <3>5. Updates' = Updates /\ fd' = fd
      BY <1>1, <3>3, <3>4 DEF Updates, TypeOK
    <3>. QED BY <2>2, <2>3, <3>1, <3>5, RefinesStutter
  <2>7. ASSUME NEW t \in Thread, FdInsertLink(t) PROVE Table!Next
    BY <1>1, <2>2, <2>3, <2>7, RefinesInsert
  <2>8. ASSUME NEW t \in Thread, FdDeleteWalk(t) PROVE Table!Next \/ UNCHANGED Table!vars
    <3>1. pc[t] = "delete" /\ UNCHANGED table BY <2>8 DEF FdDeleteWalk
    <3>2. CASE Find(Hash[fd[t]], fd[t]) = {} /\ Goto(t, "idle", NULL, NULL, NULL)
      BY <1>1, <2>2, <2>3, <3>1, <3>2, RefinesNothing
    <3>3. ASSUME NEW f \in Find(Hash[fd[t]], fd[t]), Goto(t, "unlink", fd[t], f[2], f[1])
          PROVE  UNCHANGED Table!vars
      <4>1. /\ Updates' = [Updates EXCEPT ![t] = Update("unlink")] /\ Updates[t] = Update(pc[t])
            /\ fd' = [fd EXCEPT ![t] = fd[t]]
        BY <1>1, <3>3, UpdatesAfter
      <4>2. Updates' = Updates /\ fd' = fd
        <5>1. Update("unlink") = Updates[t] BY <3>1, <4>1, UpdateIs
        <5>. QED BY <1>1, <4>1, <5>1 DEF Updates, TypeOK
      <4>3. \A c \in Bucket : Untouched(c) BY <3>1, TableUntouched
      <4>. QED BY <2>2, <2>3, <4>2, <4>3, RefinesStutter
    <3>. QED BY <2>8, <3>2, <3>3 DEF FdDeleteWalk
  <2>9. ASSUME NEW t \in Thread, FdDeleteUnlink(t) PROVE Table!Next
    BY <1>1, <2>2, <2>3, <2>9, RefinesDelete
  <2>10. ASSUME NEW t \in Thread, ReqSock(t) \/ ReqEpollCreate1(t) \/ ReqAccept(t)
         PROVE  Table!Next \/ UNCHANGED Table!vars
    <3>1. pc[t] = "idle" /\ UNCHANGED table
          /\ ((\E d \in Fd : Goto(t, "insert", d, NULL, NULL)) \/ UNCHANGED locals)
      BY <2>10 DEF ReqSock, ReqEpollCreate1, ReqAccept, NewRemote, Idle
    <3>2. CASE UNCHANGED locals BY <2>4, <3>1, <3>2
    <3>3. ASSUME NEW d \in Fd, Goto(t, "insert", d, NULL, NULL) PROVE Table!Next
      BY <1>1, <2>2, <2>3, <3>1, <3>3, RefinesBegin
    <3>. QED BY <3>1, <3>2, <3>3
  <2>11. ASSUME NEW t \in Thread, NEW h \in app, ReqConnect(t, h) PROVE Table!Next
    <3>1. h.fd \in Fd BY <1>1 DEF TypeOK, Handle
    <3>2. /\ pc[t] = "idle" /\ UNCHANGED table /\ Routed("connect", h.fd)
          /\ Goto(t, "insert_again", h.fd, NULL, NULL)
      BY <2>11 DEF ReqConnect, Idle
    <3>. QED BY <1>1, <2>2, <2>3, <3>1, <3>2, RefinesBegin
  <2>12. ASSUME NEW t \in Thread, NEW h \in app, ReqClose(t, h)
         PROVE  Table!Next \/ UNCHANGED Table!vars
    <3>1. h.fd \in Fd BY <1>1 DEF TypeOK, Handle
    <3>2. pc[t] = "idle" /\ UNCHANGED table BY <2>12 DEF ReqClose, Idle
    <3>3. CASE UNCHANGED locals BY <2>4, <3>2, <3>3
    <3>4. CASE Routed("close", h.fd) /\ Goto(t, "delete", h.fd, NULL, NULL)
      BY <1>1, <2>2, <2>3, <3>1, <3>2, <3>4, RefinesBegin
    <3>. QED BY <2>12, <3>3, <3>4 DEF ReqClose
  <2>13. ASSUME NEW t \in Thread, OpenLocal(t) PROVE UNCHANGED Table!vars
    <3>1. UNCHANGED <<locals, table>> BY <2>13 DEF OpenLocal
    <3>. QED BY <2>4, <3>1
  <2>. QED BY <2>5, <2>6, <2>7, <2>8, <2>9, <2>10, <2>11, <2>12, <2>13 DEF Next
<1>. QED BY <1>2, <1>3

(* For any number of threads, descriptors and nodes and any hash function,   *)
(* the unlocked chains behave as a table whose updates are single steps,     *)
(* until two updates of one chain are under way at once.                     *)
THEOREM TableRefinement == Spec => ImplementsFdTable
<1>1. Init => TableInv /\ FoundInv /\ Table!Init BY TableInit, FoundInit, RefinementInit
<1>2. TableInv /\ FoundInv /\ [Next]_vars =>
        TableInv' /\ FoundInv' /\ [Table!Next]_Table!vars
  BY TableStep, FoundStep, RefinementStep
<1>. QED BY <1>1, <1>2, PTL DEF Spec, ImplementsFdTable, Table!Spec

(* A hooked call finds its descriptor exactly when the oldest entry of the   *)
(* bucket is the descriptor's, whichever threads are between their walks and *)
(* their writes: a search never sees an update half done, unless two updates *)
(* of one chain overlapped.                                                  *)
THEOREM SearchesSeeRows ==
  Spec => [](~raced => \A call \in HookedOps, d \in Fd : Routed(call, d) <=> Table!Found(call, d))
<1>1. TableInv =>
        (~raced => \A call \in HookedOps, d \in Fd : Routed(call, d) <=> Table!Found(call, d))
  BY SearchIsFound DEF TableInv
<1>. QED BY <1>1, TableInvariant, PTL

=============================================================================
