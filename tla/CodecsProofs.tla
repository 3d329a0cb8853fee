---------------------------- MODULE CodecsProofs ----------------------------
(***************************************************************************)
(* Theorems about the codecs, for every size of the data array.  Steps     *)
(* with large numbers name their prover, for Zenon counts in unary.        *)
(***************************************************************************)
EXTENDS Codecs, SequenceTheorems, TLAPS

(* The last byte of an integer and what is left of it *)
LEMMA DivMod ==
  ASSUME NEW v \in Int
  PROVE  v \div 256 \in Int /\ v % 256 \in 0 .. 255 /\ v = 256 * (v \div 256) + (v % 256)
BY SMT

(* Dividing by 256 again and again *)
LEMMA Nested ==
  ASSUME NEW v \in Int
  PROVE  v \div 65536 = (v \div 256) \div 256 
         /\ v \div 16777216 = ((v \div 256) \div 256) \div 256
BY SMT

(* An int that one end stores is read by the other as the same int,          *)
(* negative ones included.                                                   *)
THEOREM WordRoundTrip ==
  ASSUME NEW v \in Int32
  PROVE  AsInt(Word(v)) = v
<1>. DEFINE q == v \div 256
            r == (v \div 256) \div 256
            t == ((v \div 256) \div 256) \div 256
<1>off. v \in Int BY SMT DEF Int32
<1>1. v = 256 * q + (v % 256) /\ q \in Int BY SMT, <1>off, DivMod
<1>2. q = 256 * r + (q % 256) /\ r \in Int BY SMT, <1>1, DivMod
<1>3. r = 256 * t + (r % 256) /\ t \in Int BY SMT, <1>2, DivMod
<1>4. v % 256 \in 0 .. 255 /\ q % 256 \in 0 .. 255 /\ r % 256 \in 0 .. 255
  BY SMT, <1>off, <1>1, <1>2
<1>5. Word(v) = <<v % 256, q % 256, r % 256, t % 256>> BY SMT, <1>off, Nested DEF Word
<1>. HIDE DEF q, r, t
<1>6. -128 <= t /\ t <= 127
  BY SMT, <1>off, <1>1, <1>2, <1>3, <1>4 DEF Int32
<1>7. t % 256 = IF t < 0 THEN t + 256 ELSE t
  BY SMT, <1>3, <1>6
<1>8. AsInt(Word(v)) = (v % 256) + 256 * (q % 256) + 65536 * (r % 256) + 16777216 * t
  <2>1. AsInt(Word(v)) = (v % 256) + 256 * (q % 256) + 65536 * (r % 256)
                         + 16777216 * (IF t % 256 < 128 THEN t % 256 ELSE (t % 256) - 256)
    BY SMT, <1>5 DEF AsInt
  <2>. QED BY SMT, <1>3, <1>6, <1>7, <2>1
<1>. QED BY SMT, <1>off, <1>1, <1>2, <1>3, <1>4, <1>6, <1>8

---------------------------------------------------------------------------
IsData(data) == DOMAIN data = 0 .. DataBytes - 1

(* memcpy into a data array changes no bytes beyond it. *)
LEMMA PutDomain ==
  ASSUME NEW data, NEW off, NEW field
  PROVE  DOMAIN Put(data, off, field) = DOMAIN data
BY DEF Put

(* A field of n bytes *)
IsField(field, n) == Len(field) = n /\ field = [i \in 1 .. n |-> field[i]]

(* Reading back what was copied *)
LEMMA GetPut ==
  ASSUME NEW data, IsData(data), NEW off \in Nat, NEW n \in Nat, off + n <= DataBytes,
         NEW field, IsField(field, n)
  PROVE  Get(Put(data, off, field), off, n) = field
<1>1. DataBytes \in Nat BY SMT, CodecAssumption
<1>2. ASSUME NEW i \in 1 .. n PROVE Put(data, off, field)[off + i - 1] = field[i]
  <2>1. off + i - 1 \in DOMAIN data /\ off + i - 1 \in off .. off + Len(field) - 1
        /\ (off + i - 1) - off + 1 = i
    BY <1>1 DEF IsData, IsField
  <2>. QED BY <2>1 DEF Put
<1>3. Get(Put(data, off, field), off, n) = [i \in 1 .. n |-> field[i]]
  BY <1>2 DEF Get
<1>. QED BY <1>3 DEF IsField

(* An int is four bytes. *)
LEMMA WordIsFour ==
  ASSUME NEW v
  PROVE  Len(Word(v)) = 4 /\ Word(v) = [i \in 1 .. 4 |-> Word(v)[i]]
BY SMT DEF Word

(* An int read from where it was stored, and one stored elsewhere *)
LEMMA IntAtPut ==
  ASSUME NEW data, IsData(data), NEW off \in Nat, off + 4 <= DataBytes, NEW v \in Int32
  PROVE  IntAt(Put(data, off, Word(v)), off) = v
<1>1. Get(Put(data, off, Word(v)), off, 4) = [i \in 1 .. 4 |-> Word(v)[i]]
  <2>1. DataBytes \in Nat BY SMT, CodecAssumption
  <2>2. Len(Word(v)) = 4 BY WordIsFour
  <2>3. \A i \in 1 .. 4 : Put(data, off, Word(v))[off + i - 1] = Word(v)[i]
    BY SMT, <2>1, <2>2 DEF Put, IsData
  <2>. QED BY SMT, <2>3 DEF Get
<1>. QED BY SMT, <1>1, WordIsFour, WordRoundTrip DEF IntAt

(* A field leaves the ints before it alone. *)
LEMMA IntAtElsewhere ==
  ASSUME NEW data, IsData(data), NEW off \in Nat, off <= DataBytes, NEW field,
         NEW at \in Nat, at + 4 <= off
  PROVE  IntAt(Put(data, off, field), at) = IntAt(data, at)
<1>1. DataBytes \in Nat BY SMT, CodecAssumption
<1>2. \A i \in 1 .. 4 : Put(data, off, field)[at + i - 1] = data[at + i - 1]
  <2>. TAKE i \in 1 .. 4
  <2>1. at + i - 1 \in DOMAIN data /\ at + i - 1 \notin off .. off + Len(field) - 1
    BY SMT, <1>1 DEF IsData
  <2>. QED BY <2>1 DEF Put
<1>3. Get(Put(data, off, field), at, 4) = Get(data, at, 4)
  BY SMT, <1>2 DEF Get
<1>. QED BY <1>3 DEF IntAt

(* The sizes of the elements of an array *)
Width == {4, 8, 12}

(* Where byte j of element i is in an array of n elements of w bytes *)
LEMMA Place ==
  ASSUME NEW w \in Width, NEW n \in Nat, NEW i \in 1 .. n, NEW j \in 1 .. w
  PROVE  /\ (i - 1) * w + j \in 1 .. n * w
         /\ (((i - 1) * w + j) - 1) \div w = i - 1
         /\ (((i - 1) * w + j) - 1) % w = j - 1
<1>1. CASE w = 4 BY <1>1
<1>2. CASE w = 8 BY <1>2
<1>3. CASE w = 12 BY <1>3
<1>. QED BY <1>1, <1>2, <1>3 DEF Width

(* The bytes of an array *)
LEMMA FlatBytes ==
  ASSUME NEW w \in Width, NEW n \in Nat, NEW rows, Len(rows) = n
  PROVE  /\ n * w \in Nat
         /\ Len(Flat(rows, w)) = n * w
         /\ \A i \in 1 .. n, j \in 1 .. w : Flat(rows, w)[(i - 1) * w + j] = rows[i][j]
<1>1. n * w \in Nat BY DEF Width
<1>2. Flat(rows, w) = [k \in 1 .. n * w |-> rows[1 + ((k - 1) \div w)][1 + ((k - 1) % w)]]
  BY DEF Flat
<1>3. Len(Flat(rows, w)) = n * w
  BY <1>1, <1>2
<1>4. ASSUME NEW i \in 1 .. n, NEW j \in 1 .. w
      PROVE  Flat(rows, w)[(i - 1) * w + j] = rows[i][j]
  <2>1. /\ (i - 1) * w + j \in 1 .. n * w
        /\ (((i - 1) * w + j) - 1) \div w = i - 1
        /\ (((i - 1) * w + j) - 1) % w = j - 1
    BY Place, ZenonT(60)
  <2>2. 1 + (i - 1) = i /\ 1 + (j - 1) = j BY DEF Width
  <2>. QED BY <1>2, <2>1, <2>2, Zenon
<1>. QED BY <1>1, <1>3, <1>4

(* An element is read from where its array was copied to. *)
LEMMA RowPut ==
  ASSUME NEW data, IsData(data), NEW off \in Nat, NEW w \in Width, NEW n \in Nat,
         NEW rows, Len(rows) = n, off + n * w <= DataBytes,
         NEW i \in 1 .. n, IsField(rows[i], w), NEW at \in Nat, at = off + (i - 1) * w
  PROVE  Get(Put(data, off, Flat(rows, w)), at, w) = rows[i]
<1>. DEFINE d == Put(data, off, Flat(rows, w))
<1>1. DataBytes \in Nat /\ n * w \in Nat /\ w \in Nat BY SMT, CodecAssumption DEF Width
<1>2. Len(Flat(rows, w)) = n * w BY FlatBytes
<1>3. ASSUME NEW j \in 1 .. w PROVE d[off + (i - 1) * w + j - 1] = rows[i][j]
  <2>1. PICK p : p = (i - 1) * w + j OBVIOUS
  <2>2. p \in 1 .. n * w BY <2>1, Place
  <2>3. Flat(rows, w)[p] = rows[i][j] BY <2>1, FlatBytes
  <2>4. off + (i - 1) * w + j - 1 = off + p - 1 BY <1>1, <2>1 DEF Width
  <2>5. off + p - 1 \in DOMAIN data /\ off + p - 1 \in off .. off + n * w - 1
        /\ (off + p - 1) - off + 1 = p
    BY <1>1, <2>2 DEF IsData
  <2>6. d[off + p - 1] = Flat(rows, w)[p] BY <1>2, <2>5, Zenon DEF Put
  <2>. QED BY <2>3, <2>4, <2>6, Zenon
<1>. HIDE DEF d
<1>4. Get(d, off + (i - 1) * w, w) = [j \in 1 .. w |-> rows[i][j]] BY <1>3, Zenon DEF Get
<1>. QED BY <1>4 DEF d, IsField

(* A field is untouched by a copy that ends before it or begins after it. *)
LEMMA GetElsewhere ==
  ASSUME NEW data, IsData(data), NEW off \in Nat, NEW field, Len(field) \in Nat,
         NEW at \in Nat, NEW n \in Nat, at + n <= DataBytes,
         at + n <= off \/ off + Len(field) <= at
  PROVE  Get(Put(data, off, field), at, n) = Get(data, at, n)
<1>1. DataBytes \in Nat BY SMT, CodecAssumption
<1>2. ASSUME NEW i \in 1 .. n
      PROVE  Put(data, off, field)[at + i - 1] = data[at + i - 1]
  <2>1. at + i - 1 \in DOMAIN data /\ at + i - 1 \notin off .. off + Len(field) - 1
    BY SMT, <1>1 DEF IsData
  <2>. QED BY <2>1, Zenon DEF Put
<1>. QED BY <1>2, Zenon DEF Get

(* Each int of several that are stored next to each other *)
LEMMA IntsPut ==
  ASSUME NEW data, IsData(data), NEW off \in Nat, NEW v, NEW n \in Nat,
         DOMAIN v = 1 .. n, off + n * 4 <= DataBytes,
         NEW i \in 1 .. n, v[i] \in Int32, NEW at \in Nat, at = off + (i - 1) * 4
  PROVE  IntAt(Put(data, off, Ints(v)), at) = v[i]
<1>. DEFINE rows == [k \in DOMAIN v |-> Word(v[k])]
<1>1. Len(rows) = n OBVIOUS
<1>2. rows[i] = Word(v[i]) OBVIOUS
<1>3. 4 \in Width BY DEF Width
<1>4. Ints(v) = Flat(rows, 4) BY DEF Ints
<1>5. IsField(rows[i], 4) BY <1>2, WordIsFour, Zenon DEF IsField
<1>. HIDE DEF rows
<1>6. ASSUME NEW w \in Width, w = 4
      PROVE  Get(Put(data, off, Flat(rows, w)), at, w) = rows[i]
  <2>1. off + n * w <= DataBytes /\ IsField(rows[i], w) /\ at = off + (i - 1) * w BY <1>5, <1>6
  <2>. QED BY <1>1, <2>1, RowPut, SMT
<1>7. Get(Put(data, off, Flat(rows, 4)), at, 4) = rows[i] BY <1>3, <1>6
<1>. QED BY <1>2, <1>4, <1>7, WordRoundTrip, Zenon DEF IntAt

(* An array is read from where it was copied to. *)
LEMMA RowsPut ==
  ASSUME NEW data, IsData(data), NEW off \in Nat, NEW w \in Width, NEW n \in Nat,
         NEW rows, IsField(rows, n), off + n * w <= DataBytes,
         \A i \in 1 .. n : IsField(rows[i], w)
  PROVE  Rows(Put(data, off, Flat(rows, w)), off, n, w) = rows
<1>1. Len(rows) = n /\ rows = [i \in 1 .. n |-> rows[i]] BY DEF IsField
<1>2. ASSUME NEW i \in 1 .. n
      PROVE  Get(Put(data, off, Flat(rows, w)), off + (i - 1) * w, w) = rows[i]
  <2>1. off + (i - 1) * w \in Nat BY DEF Width
  <2>2. IsField(rows[i], w) OBVIOUS
  <2>. QED BY <1>1, <2>1, <2>2, RowPut, SMT
<1>3. Rows(Put(data, off, Flat(rows, w)), off, n, w) = [i \in 1 .. n |-> rows[i]]
  BY <1>2, Zenon DEF Rows
<1>. QED BY <1>1, <1>3

(* The ints at the start of an array, three of them or four *)
LEMMA ThreeInts ==
  ASSUME NEW data, IsData(data), NEW a \in Int32, NEW b \in Int32, NEW c \in Int32
  PROVE  LET d == Put(data, 0, Ints(<<a, b, c>>))
         IN  /\ IsData(d) /\ Len(Ints(<<a, b, c>>)) = 12
             /\ IntAt(d, 0) = a /\ IntAt(d, 4) = b /\ IntAt(d, 8) = c
<1>. DEFINE v == <<a, b, c>>
            d == Put(data, 0, Ints(v))
<1>1. DOMAIN v = 1 .. 3 /\ v[1] = a /\ v[2] = b /\ v[3] = c
      /\ 1 \in 1 .. 3 /\ 2 \in 1 .. 3 /\ 3 \in 1 .. 3
  OBVIOUS
<1>2. 0 + 3 * 4 <= DataBytes /\ 0 \in Nat /\ 3 \in Nat BY SMT, CodecAssumption DEF Header
<1>3. IsData(d) BY PutDomain DEF IsData
<1>4. Len(Ints(v)) = 12
  <2>1. Len([i \in DOMAIN v |-> Word(v[i])]) = 3 BY <1>1
  <2>2. 4 \in Width BY DEF Width
  <2>3. Len(Ints(v)) = 3 * 4 BY <1>2, <2>1, <2>2, FlatBytes, ZenonT(60) DEF Ints
  <2>. QED BY <2>3
<1>. HIDE DEF v
<1>5. ASSUME NEW off \in Nat, off = 0, NEW n \in Nat, n = 3, NEW k \in 1 .. n,
             NEW at \in Nat, at = off + (k - 1) * 4
      PROVE  IntAt(Put(data, off, Ints(v)), at) = v[k]
  <2>1. v[k] \in Int32 /\ DOMAIN v = 1 .. n /\ off + n * 4 <= DataBytes
        /\ at = off + (k - 1) * 4
    BY <1>1, <1>2, <1>5
  <2>. QED BY <2>1, IntsPut, SMT
<1>6. IntAt(d, 0) = v[1] /\ IntAt(d, 4) = v[2] /\ IntAt(d, 8) = v[3]
  BY <1>5
<1>. QED BY <1>1, <1>3, <1>4, <1>6, Zenon DEF v

(* Four ints at the start of the array *)
LEMMA FourInts ==
  ASSUME NEW data, IsData(data), NEW a \in Int32, NEW b \in Int32, NEW c \in Int32,
         NEW e \in Int32
  PROVE  LET d == Put(data, 0, Ints(<<a, b, c, e>>))
         IN  /\ IsData(d)
             /\ IntAt(d, 0) = a /\ IntAt(d, 4) = b /\ IntAt(d, 8) = c /\ IntAt(d, 12) = e
<1>. DEFINE v == <<a, b, c, e>>
            d == Put(data, 0, Ints(v))
<1>1. DOMAIN v = 1 .. 4 /\ v[1] = a /\ v[2] = b /\ v[3] = c /\ v[4] = e
      /\ 1 \in 1 .. 4 /\ 2 \in 1 .. 4 /\ 3 \in 1 .. 4 /\ 4 \in 1 .. 4
  OBVIOUS
<1>2. 0 + 4 * 4 <= DataBytes /\ 0 \in Nat /\ 4 \in Nat BY SMT, CodecAssumption DEF Header
<1>3. IsData(d) BY PutDomain DEF IsData
<1>. HIDE DEF v
<1>5. ASSUME NEW off \in Nat, off = 0, NEW n \in Nat, n = 4, NEW k \in 1 .. n,
             NEW at \in Nat, at = off + (k - 1) * 4
      PROVE  IntAt(Put(data, off, Ints(v)), at) = v[k]
  <2>1. v[k] \in Int32 /\ DOMAIN v = 1 .. n /\ off + n * 4 <= DataBytes
        /\ at = off + (k - 1) * 4
    BY <1>1, <1>2, <1>5
  <2>. QED BY <2>1, IntsPut, SMT
<1>6. IntAt(d, 0) = v[1] /\ IntAt(d, 4) = v[2] /\ IntAt(d, 8) = v[3] /\ IntAt(d, 12) = v[4]
  BY <1>5
<1>. QED BY <1>1, <1>3, <1>6, Zenon DEF v

(* The flags of epoll_create1 arrive. *)
LEMMA EpollCreateRoundTrip ==
  ASSUME NEW data, IsData(data), NEW flag \in Int32
  PROVE  deserialize_epoll_create_dt(serialize_epoll_create_dt(data, flag)) = [flags |-> flag]
<1>1. 0 \in Nat /\ 0 + 4 <= DataBytes BY SMT, CodecAssumption DEF Header
<1>2. IntAt(Put(data, 0, Word(flag)), 0) = flag BY <1>1, IntAtPut, Zenon
<1>. QED BY <1>2, Zenon DEF deserialize_epoll_create_dt, serialize_epoll_create_dt

(* An event that is passed arrives whole, and whether or not one is passed   *)
(* the descriptors and the operation arrive.                                 *)
THEOREM EpollCtlRoundTrip ==
  ASSUME NEW data, IsData(data), NEW epfd \in Int32, NEW op \in Int32, NEW fd \in Int32,
         NEW event \in {NULL} \cup EpollEvent
  PROVE  LET a == deserialize_epoll_ctl_dt(serialize_epoll_ctl_dt(data, epfd, op, fd, event))
         IN  /\ a = [epfd |-> epfd, op |-> op, fd |-> fd, event |-> a.event]
             /\ event # NULL => a.event = event
<1>1. PICK b : b = IF event = NULL THEN data ELSE Put(data, 12, event) OBVIOUS
<1>2. IsData(b) BY <1>1, PutDomain, Zenon DEF IsData
<1>3. PICK d : d = Put(b, 0, Ints(<<epfd, op, fd>>)) OBVIOUS
<1>4. IntAt(d, 0) = epfd /\ IntAt(d, 4) = op /\ IntAt(d, 8) = fd
      /\ Len(Ints(<<epfd, op, fd>>)) = 12
  BY <1>2, <1>3, ThreeInts
<1>5. serialize_epoll_ctl_dt(data, epfd, op, fd, event) = d
  BY <1>1, <1>3, Zenon DEF serialize_epoll_ctl_dt
<1>6. deserialize_epoll_ctl_dt(d) =
        [epfd |-> epfd, op |-> op, fd |-> fd, event |-> Get(d, 12, EventBytes)]
  BY <1>4, Zenon DEF deserialize_epoll_ctl_dt
<1>7. ASSUME event # NULL PROVE Get(d, 12, EventBytes) = event
  <2>1. /\ 0 \in Nat /\ 12 \in Nat /\ 12 + 12 <= DataBytes /\ 0 + 12 <= 12 /\ EventBytes = 12
    BY SMT, CodecAssumption DEF Header, EventBytes
  <2>2. b = Put(data, 12, event) BY <1>1, <1>7, Zenon
  <2>3. IsField(event, 12) BY <1>7, <2>1 DEF IsField, EpollEvent
  <2>4. Get(b, 12, 12) = event BY <2>1, <2>2, <2>3, GetPut
  <2>5. Get(d, 12, 12) = Get(b, 12, 12)
    BY <1>2, <1>3, <1>4, <2>1, GetElsewhere, ZenonT(60)
  <2>. QED BY <2>1, <2>4, <2>5, Zenon
<1>. QED BY <1>5, <1>6, <1>7

(* Of any sequence of events as many arrive as fit, in their order, and the  *)
(* four numbers of the call arrive in any case.                              *)
THEOREM EpollWaitRoundTrip ==
  ASSUME NEW data, IsData(data), NEW epfd \in Int32, NEW maxevents \in Int32,
         NEW timeout \in Int32, NEW events \in Seq(EpollEvent),
         NEW nfds \in Int32, nfds = Len(events),
         NEW k, k = deserialize_epoll_wait_dt(
                      serialize_epoll_wait_dt(data, nfds, epfd, maxevents, timeout, events))
  PROVE  /\ k.nfds = nfds /\ k.epfd = epfd /\ k.maxevents = maxevents /\ k.timeout = timeout
         /\ k.events = SubSeq(events, 1, Least(nfds, EventsThatFit))
<1>. DEFINE n == Least(Len(events), EventsThatFit)
            sent == SubSeq(events, 1, n)
<1>1. n \in Nat /\ n <= Len(events) /\ 16 + n * 12 <= DataBytes /\ EventBytes = 12
  BY SMT, CodecAssumption DEF Least, EventsThatFit, EventBytes
<1>. HIDE DEF n
<1>2. Len(sent) = n /\ sent = [i \in 1 .. n |-> sent[i]]
      /\ \A i \in 1 .. n : sent[i] \in [1 .. 12 -> Byte]
  <2>1. sent \in Seq(EpollEvent) /\ Len(sent) = n /\ EpollEvent = [1 .. 12 -> Byte]
    BY <1>1 DEF EpollEvent
  <2>. QED BY <2>1
<1>. HIDE DEF sent
<1>3. \A i \in 1 .. n : IsField(sent[i], 12) BY <1>2 DEF IsField
<1>4. PICK b : b = Put(data, 0, Ints(<<Len(events), epfd, maxevents, timeout>>)) OBVIOUS
<1>5. IsData(b) /\ IntAt(b, 0) = Len(events) /\ IntAt(b, 4) = epfd /\ IntAt(b, 8) = maxevents
      /\ IntAt(b, 12) = timeout
  BY <1>4, FourInts
<1>6. PICK d : d = Put(b, 16, Flat(sent, 12)) OBVIOUS
<1>7. IntAt(d, 0) = Len(events) /\ IntAt(d, 4) = epfd /\ IntAt(d, 8) = maxevents
      /\ IntAt(d, 12) = timeout
  <2>1. /\ 0 \in Nat /\ 4 \in Nat /\ 8 \in Nat /\ 12 \in Nat /\ 16 \in Nat /\ 16 <= DataBytes
        /\ 0 + 4 <= 16 /\ 4 + 4 <= 16 /\ 8 + 4 <= 16 /\ 12 + 4 <= 16
    BY SMT, CodecAssumption DEF Header
  <2>2. IntAt(d, 0) = Len(events) BY <1>5, <1>6, <2>1, IntAtElsewhere
  <2>3. IntAt(d, 4) = epfd BY <1>5, <1>6, <2>1, IntAtElsewhere
  <2>4. IntAt(d, 8) = maxevents BY <1>5, <1>6, <2>1, IntAtElsewhere
  <2>5. IntAt(d, 12) = timeout BY <1>5, <1>6, <2>1, IntAtElsewhere
  <2>. QED BY <2>2, <2>3, <2>4, <2>5
<1>8. Rows(d, 16, n, 12) = sent
  <2>1. ASSUME NEW w \in Width, w = 12, NEW off \in Nat, off = 16
        PROVE  Rows(Put(b, off, Flat(sent, w)), off, n, w) = sent
    <3>1. off + n * w <= DataBytes /\ \A i \in 1 .. n : IsField(sent[i], w)
      BY <1>1, <1>3, <2>1
    <3>2. n \in Nat /\ IsField(sent, n) BY <1>1, <1>2 DEF IsField
    <3>3. IsData(b) BY <1>5
    <3>. QED BY <3>1, <3>2, <3>3, RowsPut, SMT
  <2>2. 12 \in Width /\ 16 \in Nat BY DEF Width
  <2>. QED BY <1>6, <2>1, <2>2, Zenon
<1>9. serialize_epoll_wait_dt(data, Len(events), epfd, maxevents, timeout, events) = d
  BY <1>1, <1>4, <1>6, Zenon DEF serialize_epoll_wait_dt, sent, n
<1>10. deserialize_epoll_wait_dt(d) =
         [nfds |-> Len(events), epfd |-> epfd, maxevents |-> maxevents,
          timeout |-> timeout, events |-> sent]
  BY <1>1, <1>7, <1>8, Zenon DEF deserialize_epoll_wait_dt, n
<1>11. k = [nfds |-> Len(events), epfd |-> epfd, maxevents |-> maxevents,
            timeout |-> timeout, events |-> sent]
  BY <1>9, <1>10, Zenon
<1>12. /\ k.nfds = Len(events) /\ k.epfd = epfd /\ k.maxevents = maxevents
       /\ k.timeout = timeout /\ k.events = sent
  BY <1>11
<1>. QED BY <1>12, Zenon DEF sent, n

(* A short is two bytes. *)
LEMMA ShortRoundTrip ==
  ASSUME NEW v \in Int16
  PROVE  /\ Short(v) \in Seq(Byte) /\ Len(Short(v)) = 2
         /\ AsShort(Short(v)[1], Short(v)[2]) = v
<1>. DEFINE q == v \div 256
<1>1. v \in Int /\ -32768 <= v /\ v <= 32767 BY SMT DEF Int16
<1>2. v = 256 * q + (v % 256) /\ q \in Int /\ v % 256 \in 0 .. 255 BY SMT, <1>1, DivMod
<1>3. Short(v) = <<v % 256, q % 256>> BY SMT DEF Short
<1>. HIDE DEF q
<1>4. -128 <= q /\ q <= 127 BY SMT, <1>1, <1>2
<1>5. q % 256 = IF q < 0 THEN q + 256 ELSE q BY SMT, <1>2, <1>4
<1>6. q % 256 \in 0 .. 255 BY SMT, <1>2, <1>4, <1>5
<1>7. AsShort(v % 256, q % 256) = (v % 256) + 256 * q
  BY SMT, <1>2, <1>4, <1>5 DEF AsShort
<1>8. AsShort(v % 256, q % 256) = v BY SMT, <1>2, <1>7
<1>9. Short(v)[1] = v % 256 /\ Short(v)[2] = q % 256 /\ Len(Short(v)) = 2 BY SMT, <1>3
<1>10. Short(v) \in Seq(Byte) BY SMT, <1>2, <1>3, <1>6 DEF Byte
<1>. QED BY <1>8, <1>9, <1>10, Zenon

(* The bytes of an int *)
LEMMA WordBytes ==
  ASSUME NEW v \in Int32
  PROVE  Word(v) \in Seq(Byte) /\ Len(Word(v)) = 4
<1>1. v \in Int BY SMT DEF Int32
<1>2. v % 256 \in Byte /\ (v \div 256) % 256 \in Byte /\ (v \div 65536) % 256 \in Byte
      /\ (v \div 16777216) % 256 \in Byte
  BY SMT, <1>1 DEF Byte
<1>. QED BY SMT, <1>2 DEF Word

(* An entry of poll is eight bytes and is read as it was stored. *)
LEMMA PollFdRoundTrip ==
  ASSUME NEW p \in PollEntry
  PROVE  IsField(PollFd(p), 8) /\ AsPollFd(PollFd(p)) = p
<1>1. p.fd \in Int32 /\ p.events \in Int16 /\ p.revents \in Int16
      /\ p = [fd |-> p.fd, events |-> p.events, revents |-> p.revents]
  BY SMT DEF PollEntry
<1>2. PICK w : w = Word(p.fd) OBVIOUS
<1>3. PICK s : s = Short(p.events) OBVIOUS
<1>4. PICK t : t = Short(p.revents) OBVIOUS
<1>5. w \in Seq(Byte) /\ s \in Seq(Byte) /\ t \in Seq(Byte) /\ Len(w) = 4 /\ Len(s) = 2
      /\ Len(t) = 2
  BY <1>1, <1>2, <1>3, <1>4, WordBytes, ShortRoundTrip, Zenon
<1>6. PICK x : x = w \o s OBVIOUS
<1>7. x \in Seq(Byte) /\ Len(x) = Len(w) + Len(s)
      /\ \A i \in 1 .. Len(w) + Len(s) : x[i] = IF i <= Len(w) THEN w[i] ELSE s[i - Len(w)]
  BY <1>5, <1>6, ConcatProperties, Zenon
<1>8. Len(x) = 6 /\ (\A i \in 1 .. 4 : x[i] = w[i]) /\ x[5] = s[1] /\ x[6] = s[2]
  BY SMT, <1>5, <1>7
<1>9. PICK y : y = x \o t OBVIOUS
<1>10. y \in Seq(Byte) /\ Len(y) = Len(x) + Len(t)
       /\ \A i \in 1 .. Len(x) + Len(t) : y[i] = IF i <= Len(x) THEN x[i] ELSE t[i - Len(x)]
  <2>1. x \in Seq(Byte) /\ t \in Seq(Byte) BY <1>5, <1>7
  <2>. QED BY <1>9, <2>1, ConcatProperties, Zenon
<1>11. Len(y) = 8 /\ (\A i \in 1 .. 6 : y[i] = x[i]) /\ y[7] = t[1] /\ y[8] = t[2]
  BY SMT, <1>5, <1>8, <1>10
<1>12. PollFd(p) = y BY <1>2, <1>3, <1>4, <1>6, <1>9, Zenon DEF PollFd
<1>13. IsField(y, 8)
  <2>1. y \in Seq(Byte) /\ Len(y) = 8 BY <1>10, <1>11
  <2>. QED BY SMT, <2>1 DEF IsField
<1>14. AsInt(y) = p.fd
  <2>1. y[1] = w[1] /\ y[2] = w[2] /\ y[3] = w[3] /\ y[4] = w[4] BY <1>8, <1>11
  <2>2. AsInt(y) = AsInt(w) BY SMT, <2>1 DEF AsInt
  <2>. QED BY <1>1, <1>2, <2>2, WordRoundTrip, Zenon
<1>15. y[5] = s[1] /\ y[6] = s[2] BY <1>8, <1>11
<1>16. AsShort(y[5], y[6]) = p.events /\ AsShort(y[7], y[8]) = p.revents
  BY <1>1, <1>3, <1>4, <1>11, <1>15, ShortRoundTrip, Zenon
<1>17. AsPollFd(y) = p BY <1>1, <1>14, <1>16, Zenon DEF AsPollFd
<1>. QED BY <1>12, <1>13, <1>17, Zenon

(* The length of an array, in eight bytes *)
LEMMA WideBytes ==
  ASSUME NEW v \in Int32
  PROVE  Len(Wide(v)) = 8 /\ \A i \in 1 .. 4 : Wide(v)[i] = Word(v)[i]
<1>1. PICK t : t = IF v < 0 THEN <<255, 255, 255, 255>> ELSE Zeros(4) OBVIOUS
<1>2. t \in Seq(Byte) /\ Len(t) = 4
  <2>1. <<255, 255, 255, 255>> \in Seq(Byte) /\ Len(<<255, 255, 255, 255>>) = 4 BY SMT DEF Byte
  <2>2. Zeros(4) \in Seq(Byte) /\ Len(Zeros(4)) = 4 BY SMT DEF Zeros, Byte
  <2>3. t = <<255, 255, 255, 255>> \/ t = Zeros(4) BY <1>1, Zenon
  <2>. QED BY <2>1, <2>2, <2>3, Zenon
<1>3. PICK w : w = Word(v) OBVIOUS
<1>4. w \in Seq(Byte) /\ Len(w) = 4 BY <1>3, WordBytes
<1>5. PICK x : x = w \o t OBVIOUS
<1>6. Len(x) = Len(w) + Len(t)
      /\ \A i \in 1 .. Len(w) + Len(t) : x[i] = IF i <= Len(w) THEN w[i] ELSE t[i - Len(w)]
  BY <1>2, <1>4, <1>5, ConcatProperties, Zenon
<1>7. Len(x) = 8 /\ \A i \in 1 .. 4 : x[i] = w[i] BY SMT, <1>2, <1>4, <1>6
<1>8. Wide(v) = x BY <1>1, <1>3, <1>5, Zenon DEF Wide
<1>. QED BY <1>3, <1>7, <1>8, Zenon

(* Every entry of a poll array that fits, and the timeout, arrive whatever the  *)
(* data array held before (serialize_poll_pollfd, deserialize_poll_pollfd).     *)
THEOREM PollRoundTrip ==
  ASSUME NEW data, IsData(data), NEW timeout \in Int32, NEW fds \in Seq(PollEntry),
         12 + 8 * Len(fds) <= DataBytes
  PROVE  deserialize_poll_pollfd(serialize_poll_pollfd(data, fds, timeout)) =
           [timeout |-> timeout, fds |-> fds]
<1>1. PICK n : n = Len(fds) OBVIOUS
<1>2. n \in Nat /\ n \in Int32 /\ 12 + n * 8 <= DataBytes /\ DOMAIN fds = 1 .. n
  BY SMT, <1>1, CodecAssumption DEF Int32
<1>3. PICK rows : rows = [i \in DOMAIN fds |-> PollFd(fds[i])] OBVIOUS
<1>4. IsField(rows, n) BY <1>2, <1>3 DEF IsField
<1>5. ASSUME NEW i \in 1 .. n
      PROVE  rows[i] = PollFd(fds[i]) /\ IsField(rows[i], 8) /\ AsPollFd(rows[i]) = fds[i]
  <2>1. fds[i] \in PollEntry BY <1>1, <1>2
  <2>2. rows[i] = PollFd(fds[i]) BY <1>2, <1>3
  <2>. QED BY <2>1, <2>2, PollFdRoundTrip, Zenon
<1>6. PICK a : a = Put(data, 0, Word(timeout)) OBVIOUS
<1>7. PICK b : b = Put(a, 4, Wide(n)) OBVIOUS
<1>8. PICK d : d = Put(b, 12, Flat(rows, 8)) OBVIOUS
<1>9. IsData(a) /\ IsData(b) /\ IsData(d) BY <1>6, <1>7, <1>8, PutDomain DEF IsData
<1>10. /\ 0 \in Nat /\ 4 \in Nat /\ 12 \in Nat /\ 0 + 4 <= DataBytes /\ 4 <= DataBytes
       /\ 12 <= DataBytes /\ 0 + 4 <= 4 /\ 0 + 4 <= 12 /\ 4 + 4 <= 12
  BY SMT, CodecAssumption DEF Header
<1>11. IntAt(a, 0) = timeout BY <1>6, <1>10, IntAtPut, Zenon
<1>12. IntAt(b, 0) = timeout BY <1>7, <1>9, <1>10, <1>11, IntAtElsewhere, Zenon
<1>13. IntAt(d, 0) = timeout BY <1>8, <1>9, <1>10, <1>12, IntAtElsewhere, Zenon
<1>14. IntAt(b, 4) = n
  <2>1. \A i \in 1 .. 4 : b[4 + i - 1] = Word(n)[i]
    <3>1. Len(Wide(n)) = 8 /\ \A i \in 1 .. 4 : Wide(n)[i] = Word(n)[i]
      BY <1>2, WideBytes, Zenon
    <3>2. DOMAIN a = 0 .. DataBytes - 1 /\ DataBytes \in Nat /\ 24 < DataBytes
      BY SMT, <1>9, CodecAssumption DEF IsData, Header
    <3>. QED BY SMT, <1>7, <3>1, <3>2 DEF Put
  <2>2. Get(b, 4, 4) = [i \in 1 .. 4 |-> Word(n)[i]] BY SMT, <2>1 DEF Get
  <2>3. Get(b, 4, 4) = Word(n) BY <2>2, WordIsFour, Zenon
  <2>. QED BY <1>2, <2>3, WordRoundTrip, Zenon DEF IntAt
<1>15. IntAt(d, 4) = n BY <1>8, <1>9, <1>10, <1>14, IntAtElsewhere, Zenon
<1>16. Rows(d, 12, n, 8) = rows
  <2>1. ASSUME NEW w \in Width, w = 8, NEW off \in Nat, off = 12
        PROVE  Rows(Put(b, off, Flat(rows, w)), off, n, w) = rows
    <3>1. off + n * w <= DataBytes /\ \A i \in 1 .. n : IsField(rows[i], w)
      BY <1>2, <1>5, <2>1
    <3>2. n \in Nat BY <1>2
    <3>. QED BY <1>4, <1>9, <3>1, <3>2, RowsPut, SMT
  <2>2. 8 \in Width /\ 12 \in Nat BY DEF Width
  <2>. QED BY <1>8, <2>1, <2>2, Zenon
<1>17. [i \in DOMAIN rows |-> AsPollFd(rows[i])] = fds
  <2>1. DOMAIN rows = 1 .. n BY <1>2, <1>3
  <2>2. fds = [i \in 1 .. n |-> fds[i]] BY <1>1, <1>2
  <2>3. [i \in DOMAIN rows |-> AsPollFd(rows[i])] = [i \in 1 .. n |-> fds[i]]
    BY <1>5, <2>1, Zenon
  <2>. QED BY <2>2, <2>3, Zenon
<1>18. serialize_poll_pollfd(data, fds, timeout) = d
  BY <1>1, <1>3, <1>6, <1>7, <1>8, Zenon DEF serialize_poll_pollfd, PollFdBytes
<1>19. deserialize_poll_pollfd(d) = [timeout |-> timeout, fds |-> fds]
  BY <1>13, <1>15, <1>16, <1>17, Zenon DEF deserialize_poll_pollfd, PollFdBytes
<1>. QED BY <1>18, <1>19, Zenon

(* Whatever its argument, fcntl's command arrives. *)
LEMMA FcntlCommand ==
  ASSUME NEW data, IsData(data), NEW cmd \in Int32, NEW arg
  PROVE  deserialize_fcntl_dt(serialize_fcntl_dt(data, cmd, arg)).cmd = cmd
<1>1. PICK flag : flag = FcntlFlag(cmd) OBVIOUS
<1>2. flag \in Int32
  BY SMT, <1>1 DEF FcntlFlag, Int32
<1>3. PICK v : v = <<cmd, flag>> OBVIOUS
<1>4. DOMAIN v = 1 .. 2 /\ v[1] = cmd BY <1>3
<1>5. PICK b : b = Put(data, 0, Ints(v)) OBVIOUS
<1>6. IsData(b) BY <1>5, PutDomain, Zenon DEF IsData
<1>7. IntAt(b, 0) = cmd
  <2>1. ASSUME NEW off \in Nat, off = 0, NEW n \in Nat, n = 2, NEW k \in 1 .. n, k = 1,
               NEW at \in Nat, at = 0
        PROVE  IntAt(Put(data, off, Ints(v)), at) = v[k]
    <3>1. v[k] \in Int32 /\ DOMAIN v = 1 .. n BY <1>4, <2>1
    <3>2. off + n * 4 <= DataBytes /\ at = off + (k - 1) * 4
      BY SMT, <2>1, CodecAssumption DEF Header
    <3>. QED BY <3>1, <3>2, IntsPut, SMT
  <2>. QED BY <1>4, <1>5, <2>1
<1>8. PICK d : d = Put(b, 8, SubSeq(arg, 1, ArgBytes(flag))) OBVIOUS
<1>9. 0 \in Nat /\ 8 \in Nat /\ 8 <= DataBytes /\ 0 + 4 <= 8 BY SMT, CodecAssumption DEF Header
<1>10. IntAt(d, 0) = cmd BY <1>6, <1>7, <1>8, <1>9, IntAtElsewhere, Zenon
<1>11. serialize_fcntl_dt(data, cmd, arg) = d
  BY <1>1, <1>3, <1>5, <1>8, Zenon DEF serialize_fcntl_dt
<1>. QED BY <1>10, <1>11, Zenon DEF deserialize_fcntl_dt

(* Whatever the array held before, the reader of a socket option finds the   *)
(* level, the option, the length and the bytes that the writer stored, and   *)
(* the length is one that it may trust.                                      *)
THEOREM SockoptRoundTrip ==
  ASSUME NEW data, IsData(data), NEW level \in Int32, NEW optname \in Int32,
         NEW optval, Len(optval) \in 0 .. DataBytes - 12,
         optval = [i \in 1 .. Len(optval) |-> optval[i]]
  PROVE  LET d == serialize_sockopt_dt(data, level, optname, optval)
         IN  /\ OptlenFits(d)
             /\ deserialize_sockopt_dt(d) =
                  [level |-> level, optname |-> optname, optlen |-> Len(optval),
                   optval |-> optval]
<1>1. PICK n : n = Len(optval) OBVIOUS
<1>2. n \in Int32 /\ n \in Nat /\ 12 + n <= DataBytes /\ IsField(optval, n)
  <2>1. n \in 0 .. DataBytes - 12 BY <1>1, Zenon
  <2>2. IsField(optval, n) BY <1>1, Zenon DEF IsField
  <2>. QED BY SMTT(60), <2>1, <2>2, CodecAssumption DEF Int32
<1>3. PICK b : b = Put(data, 0, Ints(<<level, optname, n>>)) OBVIOUS
<1>4. IsData(b) /\ IntAt(b, 0) = level /\ IntAt(b, 4) = optname /\ IntAt(b, 8) = n
  BY <1>2, <1>3, ThreeInts
<1>5. PICK d : d = Put(b, 12, optval) OBVIOUS
<1>6. /\ 0 \in Nat /\ 4 \in Nat /\ 8 \in Nat /\ 12 \in Nat /\ 12 <= DataBytes
      /\ 0 + 4 <= 12 /\ 4 + 4 <= 12 /\ 8 + 4 <= 12
  BY SMT, CodecAssumption DEF Header
<1>7. IntAt(d, 0) = level BY <1>4, <1>5, <1>6, IntAtElsewhere
<1>8. IntAt(d, 4) = optname BY <1>4, <1>5, <1>6, IntAtElsewhere
<1>9. IntAt(d, 8) = n BY <1>4, <1>5, <1>6, IntAtElsewhere
<1>10. Get(d, 12, n) = optval BY <1>2, <1>4, <1>5, <1>6, GetPut
<1>11. OptlenFits(d) BY SMTT(60), <1>2, <1>9, CodecAssumption DEF OptlenFits
<1>12. deserialize_sockopt_dt(d) =
         [level |-> level, optname |-> optname, optlen |-> n, optval |-> optval]
  BY <1>7, <1>8, <1>9, <1>10, <1>11, Zenon DEF deserialize_sockopt_dt
<1>13. d = serialize_sockopt_dt(data, level, optname, optval)
  BY <1>1, <1>3, <1>5, Zenon DEF serialize_sockopt_dt
<1>. QED BY <1>1, <1>11, <1>12, <1>13, Zenon

---------------------------------------------------------------------------
(* The bits of a byte *)

SumOfBits(s, a, b, c, d, e, f, g, h) ==
  /\ a \in {0, 1} /\ b \in {0, 1} /\ c \in {0, 1} /\ d \in {0, 1}
  /\ e \in {0, 1} /\ f \in {0, 1} /\ g \in {0, 1} /\ h \in {0, 1}
  /\ s = a + 2 * b + 4 * c + 8 * d + 16 * e + 32 * f + 64 * g + 128 * h
HasBits(s, a, b, c, d, e, f, g, h) ==
  /\ s \in 0 .. 255 /\ s % 2 = a
  /\ (s \div 2) % 2 = b /\ (s \div 4) % 2 = c /\ (s \div 8) % 2 = d
  /\ (s \div 16) % 2 = e /\ (s \div 32) % 2 = f /\ (s \div 64) % 2 = g
  /\ (s \div 128) % 2 = h

(* A sum of weighted bits has these bits. *)
LEMMA Bits ==
  ASSUME NEW a, NEW b, NEW c, NEW d, NEW e, NEW f, NEW g, NEW h, NEW s,
         SumOfBits(s, a, b, c, d, e, f, g, h)
  PROVE  HasBits(s, a, b, c, d, e, f, g, h)
<1>. /\ a \in {0, 1} /\ b \in {0, 1} /\ c \in {0, 1} /\ d \in {0, 1}
     /\ e \in {0, 1} /\ f \in {0, 1} /\ g \in {0, 1} /\ h \in {0, 1}
     /\ s = a + 2 * b + 4 * c + 8 * d + 16 * e + 32 * f + 64 * g + 128 * h
  BY SMT DEF SumOfBits
<1>1. s \div 2 = b + 2 * c + 4 * d + 8 * e + 16 * f + 32 * g + 64 * h /\ s % 2 = a BY SMT
<1>2. s \div 4 = c + 2 * d + 4 * e + 8 * f + 16 * g + 32 * h BY SMT
<1>3. s \div 8 = d + 2 * e + 4 * f + 8 * g + 16 * h BY SMT
<1>4. s \div 16 = e + 2 * f + 4 * g + 8 * h BY SMT
<1>5. s \div 32 = f + 2 * g + 4 * h BY SMT
<1>6. s \div 64 = g + 2 * h BY SMT
<1>7. s \div 128 = h BY SMT
<1>8. (s \div 2) % 2 = b BY SMT, <1>1
<1>9. (s \div 4) % 2 = c BY SMT, <1>2
<1>10. (s \div 8) % 2 = d BY SMT, <1>3
<1>11. (s \div 16) % 2 = e BY SMT, <1>4
<1>12. (s \div 32) % 2 = f BY SMT, <1>5
<1>13. (s \div 64) % 2 = g BY SMT, <1>6
<1>14. (s \div 128) % 2 = h BY SMT, <1>7
<1>15. s \in 0 .. 255 BY SMT
<1>. QED
  BY SMT, <1>1, <1>8, <1>9, <1>10, <1>11, <1>12, <1>13, <1>14, <1>15 DEF HasBits

(* Bit b of a byte of an fd_set *)
LEMMA FdSetBit ==
  ASSUME NEW fds, NEW i \in 1 .. FdSetBytes, NEW b \in 0 .. 7
  PROVE  /\ FdSet(fds)[i] \in Byte
         /\ (FdSet(fds)[i] \div Weight[1 + b]) % 2 = 1 <=> 8 * (i - 1) + b \in fds
<1>. DEFINE Has(k) == IF 8 * (i - 1) + k \in fds THEN 1 ELSE 0
<1>1. PICK s : s = FdSet(fds)[i] OBVIOUS
<1>2. s = Has(0) + 2 * Has(1) + 4 * Has(2) + 8 * Has(3) + 16 * Has(4) + 32 * Has(5)
          + 64 * Has(6) + 128 * Has(7)
  <2>1. s = (IF 8 * (i - 1) + 0 \in fds THEN Weight[0 + 1] ELSE 0)
            + (IF 8 * (i - 1) + 1 \in fds THEN Weight[1 + 1] ELSE 0)
            + (IF 8 * (i - 1) + 2 \in fds THEN Weight[2 + 1] ELSE 0)
            + (IF 8 * (i - 1) + 3 \in fds THEN Weight[3 + 1] ELSE 0)
            + (IF 8 * (i - 1) + 4 \in fds THEN Weight[4 + 1] ELSE 0)
            + (IF 8 * (i - 1) + 5 \in fds THEN Weight[5 + 1] ELSE 0)
            + (IF 8 * (i - 1) + 6 \in fds THEN Weight[6 + 1] ELSE 0)
            + (IF 8 * (i - 1) + 7 \in fds THEN Weight[7 + 1] ELSE 0)
    BY <1>1, Zenon DEF FdSet
  <2>2. /\ Weight[0 + 1] = 1 /\ Weight[1 + 1] = 2 /\ Weight[2 + 1] = 4 /\ Weight[3 + 1] = 8
        /\ Weight[4 + 1] = 16 /\ Weight[5 + 1] = 32 /\ Weight[6 + 1] = 64
        /\ Weight[7 + 1] = 128
    BY SMT DEF Weight
  <2>. QED BY SMT, <2>1, <2>2
<1>3. \A k \in 0 .. 7 : Has(k) \in {0, 1} /\ (Has(k) = 1 <=> 8 * (i - 1) + k \in fds)
  OBVIOUS
<1>. HIDE DEF Has
<1>4. /\ Has(0) \in {0, 1} /\ Has(1) \in {0, 1} /\ Has(2) \in {0, 1} /\ Has(3) \in {0, 1}
      /\ Has(4) \in {0, 1} /\ Has(5) \in {0, 1} /\ Has(6) \in {0, 1} /\ Has(7) \in {0, 1}
  BY <1>3
<1>5. /\ s \in 0 .. 255 /\ s % 2 = Has(0)
      /\ (s \div 2) % 2 = Has(1) /\ (s \div 4) % 2 = Has(2) /\ (s \div 8) % 2 = Has(3)
      /\ (s \div 16) % 2 = Has(4) /\ (s \div 32) % 2 = Has(5) /\ (s \div 64) % 2 = Has(6)
      /\ (s \div 128) % 2 = Has(7)
  <2>1. SumOfBits(s, Has(0), Has(1), Has(2), Has(3), Has(4), Has(5), Has(6), Has(7))
    BY SMT, <1>2, <1>4 DEF SumOfBits
  <2>2. HasBits(s, Has(0), Has(1), Has(2), Has(3), Has(4), Has(5), Has(6), Has(7))
    BY <2>1, Bits, Zenon
  <2>. QED BY SMT, <2>2 DEF HasBits
<1>6. (s \div Weight[1 + b]) % 2 = Has(b)
  <2>1. CASE b = 0 BY SMT, <1>5, <2>1 DEF Weight
  <2>2. CASE b = 1 BY SMT, <1>5, <2>2 DEF Weight
  <2>3. CASE b = 2 BY SMT, <1>5, <2>3 DEF Weight
  <2>4. CASE b = 3 BY SMT, <1>5, <2>4 DEF Weight
  <2>5. CASE b = 4 BY SMT, <1>5, <2>5 DEF Weight
  <2>6. CASE b = 5 BY SMT, <1>5, <2>6 DEF Weight
  <2>7. CASE b = 6 BY SMT, <1>5, <2>7 DEF Weight
  <2>8. CASE b = 7 BY SMT, <1>5, <2>8 DEF Weight
  <2>. QED BY <2>1, <2>2, <2>3, <2>4, <2>5, <2>6, <2>7, <2>8
<1>7. s \in Byte BY <1>5, Zenon DEF Byte
<1>. QED BY <1>1, <1>3, <1>6, <1>7, Zenon

(* The set that is read from bytes that agree with those of fds from byte m  *)
(* on has the descriptors of fds from 8 * m on.                              *)
LEMMA FdsFrom ==
  ASSUME NEW fds \in Fds, NEW b, Len(b) = FdSetBytes, NEW m \in Nat,
         \A i \in 1 .. FdSetBytes : m < i => b[i] = FdSet(fds)[i]
  PROVE  AsFds(b) \ (0 .. 8 * m - 1) = fds \ (0 .. 8 * m - 1)
<1>1. FdSetBytes \in Nat BY SMT, CodecAssumption
<1>2. ASSUME NEW f \in 0 .. 8 * FdSetBytes - 1, 8 * m <= f
      PROVE  f \in AsFds(b) <=> f \in fds
  <2>1. PICK i \in Int : i = 1 + (f \div 8) BY <1>1
  <2>2. PICK k \in Int : k = f % 8 BY <1>1
  <2>3. i \in 1 .. FdSetBytes /\ k \in 0 .. 7 /\ 8 * (i - 1) + k = f /\ m < i
    BY SMT, <1>1, <1>2, <2>1, <2>2
  <2>4. b[i] = FdSet(fds)[i] BY <2>3
  <2>5. (FdSet(fds)[i] \div Weight[1 + k]) % 2 = 1 <=> 8 * (i - 1) + k \in fds
    BY <2>3, FdSetBit, Zenon
  <2>6. (b[i] \div Weight[1 + k]) % 2 = 1 <=> f \in fds
    BY <2>3, <2>4, <2>5, Zenon
  <2>. QED BY <2>1, <2>2, <2>6, Zenon DEF AsFds
<1>3. AsFds(b) \subseteq 0 .. 8 * FdSetBytes - 1 BY Zenon DEF AsFds
<1>4. ASSUME NEW f
      PROVE  f \in AsFds(b) \ (0 .. 8 * m - 1) <=> f \in fds \ (0 .. 8 * m - 1)
  <2>1. CASE f \in 0 .. 8 * FdSetBytes - 1 BY SMT, <1>1, <1>2, <2>1
  <2>2. CASE f \notin 0 .. 8 * FdSetBytes - 1 BY <1>3, <2>2, Zenon DEF Fds
  <2>. QED BY <2>1, <2>2
<1>. QED BY <1>4, Zenon

(* An fd_set of the application is read as the same set. *)
LEMMA FdSetRoundTrip ==
  ASSUME NEW fds \in Fds
  PROVE  AsFds(FdSet(fds)) = fds /\ IsField(FdSet(fds), FdSetBytes)
<1>1. FdSetBytes \in Nat BY SMT, CodecAssumption
<1>2. IsField(FdSet(fds), FdSetBytes) BY <1>1 DEF FdSet, IsField
<1>3. AsFds(FdSet(fds)) \ (0 .. 8 * 0 - 1) = fds \ (0 .. 8 * 0 - 1)
  BY ZenonT(60), <1>2, FdsFrom DEF IsField
<1>. QED BY <1>2, <1>3

(* What the digits of the flag say *)
LEMMA FlagDigits ==
  ASSUME NEW s, NEW flag, flag = SelectFlag(s)
  PROVE  /\ flag \in Int32
         /\ flag \div 1000 = 1 <=> s.r # NULL
         /\ (flag - 1000) \div 100 = 1 <=> s.r # NULL /\ s.w # NULL
         /\ (flag - 1100) \div 10 = 1 <=> s.r # NULL /\ s.w # NULL /\ s.e # NULL
         /\ flag - 1110 = 1 <=> s.r # NULL /\ s.w # NULL /\ s.e # NULL /\ s.t # NULL
<1>1. PICK r : r = IF s.r = NULL THEN 0 ELSE 1 OBVIOUS
<1>2. PICK w : w = IF s.w = NULL THEN 0 ELSE 1 OBVIOUS
<1>3. PICK e : e = IF s.e = NULL THEN 0 ELSE 1 OBVIOUS
<1>4. PICK t : t = IF s.t = NULL THEN 0 ELSE 1 OBVIOUS
<1>5. flag = 1000 * r + 100 * w + 10 * e + t
  BY SMT, <1>1, <1>2, <1>3, <1>4 DEF SelectFlag
<1>6. r \in {0, 1} /\ w \in {0, 1} /\ e \in {0, 1} /\ t \in {0, 1}
      /\ (r = 1 <=> s.r # NULL) /\ (w = 1 <=> s.w # NULL) /\ (e = 1 <=> s.e # NULL)
      /\ (t = 1 <=> s.t # NULL)
  BY <1>1, <1>2, <1>3, <1>4
<1>7. /\ flag \in Int32
      /\ flag \div 1000 = 1 <=> r = 1
      /\ (flag - 1000) \div 100 = 1 <=> r = 1 /\ w = 1
      /\ (flag - 1100) \div 10 = 1 <=> r = 1 /\ w = 1 /\ e = 1
      /\ flag - 1110 = 1 <=> r = 1 /\ w = 1 /\ e = 1 /\ t = 1
  <2>1. r \in {0, 1} /\ w \in {0, 1} /\ e \in {0, 1} /\ t \in {0, 1} BY <1>6
  <2>2. flag \in Int32 BY SMT, <1>5, <2>1 DEF Int32
  <2>3. flag \div 1000 = 1 <=> r = 1 BY SMT, <1>5, <2>1
  <2>4. (flag - 1000) \div 100 = 1 <=> r = 1 /\ w = 1 BY SMT, <1>5, <2>1
  <2>5. (flag - 1100) \div 10 = 1 <=> r = 1 /\ w = 1 /\ e = 1 BY SMT, <1>5, <2>1
  <2>6. flag - 1110 = 1 <=> r = 1 /\ w = 1 /\ e = 1 /\ t = 1 BY SMT, <1>5, <2>1
  <2>. QED BY SMT, <2>2, <2>3, <2>4, <2>5, <2>6
<1>. QED BY SMT, <1>6, <1>7

(* Where the arguments of select are in the array, the flag over the first   *)
(* three bytes of readfds                                                    *)
LEMMA SelectLayout ==
  ASSUME NEW data, IsData(data), NEW s \in SelectArg,
         NEW d, d = serialize_select_fd_set(data, s)
  PROVE  IsData(d) /\ SelectStored(d, s)
<1>. DEFINE F == FdSetBytes
<1>s. /\ s.nfds \in Int32 /\ s.r \in {NULL} \cup Fds /\ s.w \in {NULL} \cup Fds
      /\ s.e \in {NULL} \cup Fds /\ s.t \in {NULL} \cup Timeval
  BY DEF SelectArg
<1>1. PICK rs : rs = IF s.r = NULL THEN Zeros(F) ELSE FdSet(s.r) OBVIOUS
<1>2. PICK ws : ws = IF s.w = NULL THEN Zeros(F) ELSE FdSet(s.w) OBVIOUS
<1>3. PICK es : es = IF s.e = NULL THEN Zeros(F) ELSE FdSet(s.e) OBVIOUS
<1>4. PICK ts : ts = IF s.t = NULL THEN Zeros(TimevalBytes) ELSE s.t OBVIOUS
<1>5. F \in Nat /\ 3 <= F /\ 21 + 3 * F <= DataBytes /\ DataBytes \in Nat /\ TimevalBytes = 16
  BY SMT, CodecAssumption DEF TimevalBytes
<1>6. IsField(rs, F) /\ IsField(ws, F) /\ IsField(es, F) /\ IsField(ts, 16)
  <2>1. IsField(Zeros(F), F) BY <1>5 DEF Zeros, IsField
  <2>2. IsField(Zeros(16), 16) BY DEF Zeros, IsField
  <2>3. IsField(rs, F) BY <1>1, <2>1, FdSetRoundTrip, <1>s, Zenon
  <2>4. IsField(ws, F) BY <1>2, <2>1, FdSetRoundTrip, <1>s, Zenon
  <2>5. IsField(es, F) BY <1>3, <2>1, FdSetRoundTrip, <1>s, Zenon
  <2>6. IsField(ts, 16)
    <3>1. CASE s.t = NULL BY <1>4, <1>5, <2>2, <3>1, Zenon
    <3>2. CASE s.t # NULL
      <4>1. ts = s.t /\ s.t \in [1 .. 16 -> Byte] BY <1>4, <1>5, <3>2, <1>s, Zenon DEF Timeval
      <4>. QED BY <4>1 DEF IsField
    <3>. QED BY <3>1, <3>2
  <2>. QED BY <2>3, <2>4, <2>5, <2>6
<1>7. Len(rs) = F /\ Len(ws) = F /\ Len(es) = F /\ Len(ts) = 16 BY <1>6, Zenon DEF IsField
<1>8. PICK a : a = Put(data, 0, Word(s.nfds)) OBVIOUS
<1>9. PICK r : r = Put(a, 5, rs) OBVIOUS
<1>10. PICK w : w = Put(r, 5 + F, ws) OBVIOUS
<1>11. PICK e : e = Put(w, 5 + 2 * F, es) OBVIOUS
<1>12. PICK t : t = Put(e, 5 + 3 * F, ts) OBVIOUS
<1>13. PICK flag : flag = SelectFlag(s) OBVIOUS
<1>14. d = Put(t, 4, Word(flag))
  BY <1>1, <1>2, <1>3, <1>4, <1>8, <1>9, <1>10, <1>11, <1>12, <1>13, Zenon
  DEF serialize_select_fd_set
<1>15. IsData(a) /\ IsData(r) /\ IsData(w) /\ IsData(e) /\ IsData(t) /\ IsData(d)
  <2>1. IsData(a) BY <1>8, PutDomain DEF IsData
  <2>2. IsData(r) BY <1>9, <2>1, PutDomain DEF IsData
  <2>3. IsData(w) BY <1>10, <2>2, PutDomain DEF IsData
  <2>4. IsData(e) BY <1>11, <2>3, PutDomain DEF IsData
  <2>5. IsData(t) BY <1>12, <2>4, PutDomain DEF IsData
  <2>6. IsData(d) BY <1>14, <2>5, PutDomain DEF IsData
  <2>. QED BY <2>1, <2>2, <2>3, <2>4, <2>5, <2>6
<1>16. flag \in Int32 BY <1>13, FlagDigits
<1>17. IntAt(d, 4) = flag
  <2>1. 4 \in Nat /\ 4 + 4 <= DataBytes BY <1>5
  <2>. QED BY <1>14, <1>15, <1>16, <2>1, IntAtPut
<1>18. IntAt(d, 0) = s.nfds
  <2>1. /\ 0 \in Nat /\ 4 \in Nat /\ 5 \in Nat /\ 5 + F \in Nat /\ 5 + 2 * F \in Nat
        /\ 5 + 3 * F \in Nat /\ 0 + 4 <= DataBytes /\ 4 <= DataBytes
        /\ 5 <= DataBytes /\ 5 + F <= DataBytes /\ 5 + 2 * F <= DataBytes
        /\ 5 + 3 * F <= DataBytes
        /\ 0 + 4 <= 4 /\ 0 + 4 <= 5 /\ 0 + 4 <= 5 + F /\ 0 + 4 <= 5 + 2 * F /\ 0 + 4 <= 5 + 3 * F
    BY <1>5
  <2>2. IntAt(a, 0) = s.nfds BY <1>s, <1>8, <2>1, IntAtPut
  <2>3. IntAt(r, 0) = s.nfds BY <1>9, <1>15, <2>1, <2>2, IntAtElsewhere
  <2>4. IntAt(w, 0) = s.nfds BY <1>10, <1>15, <2>1, <2>3, IntAtElsewhere
  <2>5. IntAt(e, 0) = s.nfds BY <1>11, <1>15, <2>1, <2>4, IntAtElsewhere
  <2>6. IntAt(t, 0) = s.nfds BY <1>12, <1>15, <2>1, <2>5, IntAtElsewhere
  <2>. QED BY <1>14, <1>15, <2>1, <2>6, IntAtElsewhere
<1>19. Len(Word(flag)) = 4 BY WordIsFour
<1>put. PICK f : f = Word(flag) OBVIOUS
<1>len. d = Put(t, 4, f) /\ Len(f) \in Nat /\ 4 \in Nat /\ 4 + Len(f) <= 5 + F
        /\ 4 + Len(f) <= 5 + 2 * F /\ 4 + Len(f) <= 5 + 3 * F
  <2>1. Len(f) = 4 BY <1>19, <1>put, Zenon
  <2>2. d = Put(t, 4, f) BY <1>14, <1>put, Zenon
  <2>. QED BY <1>5, <2>1, <2>2
<1>. HIDE DEF F
<1>20. Get(d, 5 + 3 * F, 16) = ts
  <2>1. Get(t, 5 + 3 * F, 16) = ts
    <3>1. 5 + 3 * F \in Nat /\ 16 \in Nat /\ (5 + 3 * F) + 16 <= DataBytes BY <1>5
    <3>. QED BY <1>6, <1>12, <1>15, <3>1, GetPut, Zenon
  <2>2. /\ 4 \in Nat /\ 4 + 4 <= 5 + 3 * F /\ 5 + 3 * F \in Nat /\ 16 \in Nat
        /\ (5 + 3 * F) + 16 <= DataBytes
    BY <1>5
  <2>. QED BY <1>15, <1>len, <2>1, <2>2, GetElsewhere
<1>21. Get(d, 5 + 2 * F, F) = es
  <2>0. /\ 4 \in Nat /\ 4 + 4 <= 5 + 2 * F /\ 5 + 2 * F \in Nat /\ 5 + 3 * F \in Nat
        /\ (5 + 2 * F) + F <= DataBytes /\ (5 + 2 * F) + F <= 5 + 3 * F /\ 16 \in Nat
    BY <1>5
  <2>1. Get(e, 5 + 2 * F, F) = es BY <1>5, <1>6, <1>11, <1>15, <2>0, GetPut, Zenon
  <2>2. Get(t, 5 + 2 * F, F) = es BY <1>5, <1>7, <1>12, <1>15, <2>0, <2>1, GetElsewhere
  <2>. QED BY <1>5, <1>15, <1>len, <2>0, <2>2, GetElsewhere
<1>22. Get(d, 5 + F, F) = ws
  <2>0. /\ 4 \in Nat /\ 4 + 4 <= 5 + F /\ 5 + F \in Nat /\ 5 + 2 * F \in Nat
        /\ 5 + 3 * F \in Nat /\ (5 + F) + F <= DataBytes /\ (5 + F) + F <= 5 + 2 * F
        /\ (5 + F) + F <= 5 + 3 * F /\ 16 \in Nat
    BY <1>5
  <2>1. Get(w, 5 + F, F) = ws BY <1>5, <1>6, <1>10, <1>15, <2>0, GetPut, Zenon
  <2>2. Get(e, 5 + F, F) = ws BY <1>5, <1>7, <1>11, <1>15, <2>0, <2>1, GetElsewhere
  <2>3. Get(t, 5 + F, F) = ws BY <1>5, <1>7, <1>12, <1>15, <2>0, <2>2, GetElsewhere
  <2>. QED BY <1>5, <1>15, <1>len, <2>0, <2>3, GetElsewhere
<1>23. Get(t, 5, F) = rs
  <2>0. /\ 5 \in Nat /\ 5 + F \in Nat /\ 5 + 2 * F \in Nat
        /\ 5 + 3 * F \in Nat /\ 5 + F <= DataBytes /\ 5 + F <= 5 + 2 * F
        /\ 5 + F <= 5 + F /\ 5 + F <= 5 + 3 * F /\ 16 \in Nat
    BY <1>5
  <2>1. Get(r, 5, F) = rs BY <1>5, <1>6, <1>9, <1>15, <2>0, GetPut, Zenon
  <2>2. Get(w, 5, F) = rs BY <1>5, <1>7, <1>10, <1>15, <2>0, <2>1, GetElsewhere
  <2>3. Get(e, 5, F) = rs BY <1>5, <1>7, <1>11, <1>15, <2>0, <2>2, GetElsewhere
  <2>. QED BY <1>5, <1>7, <1>12, <1>15, <2>0, <2>3, GetElsewhere
<1>24. \A i \in 1 .. F : 3 < i => Get(d, 5, F)[i] = rs[i]
  <2>. TAKE i \in 1 .. F
  <2>. HAVE 3 < i
  <2>1. 5 + i - 1 \in DOMAIN t /\ 5 + i - 1 \notin 4 .. 4 + 4 - 1
    BY <1>5, <1>15 DEF IsData
  <2>2. d[5 + i - 1] = t[5 + i - 1] BY <1>14, <1>19, <2>1, Zenon DEF Put
  <2>3. Get(d, 5, F)[i] = d[5 + i - 1] /\ Get(t, 5, F)[i] = t[5 + i - 1] BY Zenon DEF Get
  <2>. QED BY <1>23, <2>2, <2>3, Zenon
<1>25. Len(Get(d, 5, F)) = F BY <1>5 DEF Get
<1>26. ASSUME s.r # NULL PROVE AsFds(Get(d, 5, F)) \ (0 .. 23) = s.r \ (0 .. 23)
  <2>1. rs = FdSet(s.r) /\ s.r \in Fds BY <1>1, <1>26, <1>s, Zenon
  <2>2. PICK m \in Nat : m = 3 OBVIOUS
  <2>3. \A i \in 1 .. F : m < i => Get(d, 5, F)[i] = FdSet(s.r)[i] BY <1>24, <2>1, <2>2
  <2>4. AsFds(Get(d, 5, F)) \ (0 .. 8 * m - 1) = s.r \ (0 .. 8 * m - 1)
    <3>1. PICK b : b = Get(d, 5, F) OBVIOUS
    <3>f. PICK fds \in Fds : fds = s.r BY <2>1
    <3>2. Len(b) = FdSetBytes /\ \A i \in 1 .. FdSetBytes : m < i => b[i] = FdSet(fds)[i]
      BY <1>25, <2>3, <3>1, <3>f, Zenon DEF F
    <3>g. AsFds(b) \ (0 .. 8 * m - 1) = fds \ (0 .. 8 * m - 1) BY <3>2, FdsFrom
    <3>3. AsFds(b) \ (0 .. 8 * m - 1) = s.r \ (0 .. 8 * m - 1) BY <3>f, <3>g, Zenon
    <3>. QED BY <3>1, <3>3, Zenon
  <2>5. 8 * m - 1 = 23 BY <2>2
  <2>. QED BY <2>4, <2>5, Zenon
<1>27. s.w # NULL => AsFds(ws) = s.w BY <1>2, FdSetRoundTrip, <1>s, Zenon
<1>28. s.e # NULL => AsFds(es) = s.e BY <1>3, FdSetRoundTrip, <1>s, Zenon
<1>29. s.t # NULL => ts = s.t BY <1>4, Zenon
<1>. QED
  BY <1>5, <1>13, <1>15, <1>17, <1>18, <1>20, <1>21, <1>22, <1>26, <1>27, <1>28, <1>29, Zenon
  DEF F, SelectStored, Clobbered

(* What the reader of the arguments of select gets *)
LEMMA SelectReads ==
  ASSUME NEW d, NEW s, SelectStored(d, s), NEW u, NEW k, k = deserialize_select_fd_set(d, u)
  PROVE  /\ k.nfds = s.nfds
         /\ s.r # NULL /\ u.r # NULL => k.r \ Clobbered = s.r \ Clobbered
         /\ s.r # NULL /\ s.w # NULL /\ u.w # NULL => k.w = s.w
         /\ s.r # NULL /\ s.w # NULL /\ s.e # NULL /\ u.e # NULL => k.e = s.e
         /\ s.r # NULL /\ s.w # NULL /\ s.e # NULL /\ s.t # NULL /\ u.t # NULL => k.t = s.t
         /\ ~(s.r # NULL /\ s.w # NULL /\ s.e # NULL /\ s.t # NULL) => k.t = u.t
<1>2. PICK flag : flag = SelectFlag(s) OBVIOUS
<1>3. /\ IntAt(d, 0) = s.nfds /\ IntAt(d, 4) = flag
      /\ s.r # NULL => AsFds(Get(d, 5, FdSetBytes)) \ Clobbered = s.r \ Clobbered
      /\ s.w # NULL => AsFds(Get(d, 5 + FdSetBytes, FdSetBytes)) = s.w
      /\ s.e # NULL => AsFds(Get(d, 5 + 2 * FdSetBytes, FdSetBytes)) = s.e
      /\ s.t # NULL => Get(d, 5 + 3 * FdSetBytes, TimevalBytes) = s.t
  BY <1>2, Zenon DEF SelectStored
<1>4. 5 + 0 * FdSetBytes = 5 /\ 5 + 1 * FdSetBytes = 5 + FdSetBytes BY SMT, CodecAssumption
<1>5. k = [nfds |-> s.nfds,
           r |-> IF flag \div 1000 # 1 \/ u.r = NULL THEN u.r
                 ELSE AsFds(Get(d, 5, FdSetBytes)),
           w |-> IF (flag - 1000) \div 100 # 1 \/ u.w = NULL THEN u.w
                 ELSE AsFds(Get(d, 5 + FdSetBytes, FdSetBytes)),
           e |-> IF (flag - 1100) \div 10 # 1 \/ u.e = NULL THEN u.e
                 ELSE AsFds(Get(d, 5 + 2 * FdSetBytes, FdSetBytes)),
           t |-> IF flag - 1110 # 1 \/ u.t = NULL THEN u.t
                 ELSE Get(d, 5 + 3 * FdSetBytes, TimevalBytes)]
  <2>1. k = deserialize_select_fd_set(d, u) OBVIOUS
  <2>2. IntAt(d, 0) = s.nfds /\ IntAt(d, 4) = flag BY <1>3, Zenon
  <2>. QED BY SMT, <1>4, <2>1, <2>2 DEF deserialize_select_fd_set
<1>6. /\ flag \div 1000 = 1 <=> s.r # NULL
      /\ (flag - 1000) \div 100 = 1 <=> s.r # NULL /\ s.w # NULL
      /\ (flag - 1100) \div 10 = 1 <=> s.r # NULL /\ s.w # NULL /\ s.e # NULL
      /\ flag - 1110 = 1 <=> s.r # NULL /\ s.w # NULL /\ s.e # NULL /\ s.t # NULL
  BY SMT, <1>2, FlagDigits
<1>7. k.nfds = s.nfds BY <1>5
<1>8. ASSUME s.r # NULL, u.r # NULL PROVE k.r \ Clobbered = s.r \ Clobbered
  <2>1. flag \div 1000 = 1 BY <1>6, <1>8
  <2>2. k.r = AsFds(Get(d, 5, FdSetBytes)) BY <1>5, <1>8, <2>1
  <2>. QED BY <1>3, <1>8, <2>2
<1>9. ASSUME s.r # NULL, s.w # NULL, u.w # NULL PROVE k.w = s.w
  <2>1. (flag - 1000) \div 100 = 1 BY <1>6, <1>9
  <2>2. k.w = AsFds(Get(d, 5 + FdSetBytes, FdSetBytes)) BY <1>5, <1>9, <2>1
  <2>. QED BY <1>3, <1>9, <2>2
<1>10. ASSUME s.r # NULL, s.w # NULL, s.e # NULL, u.e # NULL PROVE k.e = s.e
  <2>1. (flag - 1100) \div 10 = 1 BY <1>6, <1>10
  <2>2. k.e = AsFds(Get(d, 5 + 2 * FdSetBytes, FdSetBytes)) BY <1>5, <1>10, <2>1
  <2>. QED BY <1>3, <1>10, <2>2
<1>11. ASSUME s.r # NULL, s.w # NULL, s.e # NULL, s.t # NULL, u.t # NULL PROVE k.t = s.t
  <2>1. flag - 1110 = 1 BY <1>6, <1>11
  <2>2. k.t = Get(d, 5 + 3 * FdSetBytes, TimevalBytes) BY <1>5, <1>11, <2>1
  <2>. QED BY <1>3, <1>11, <2>2
<1>12. ASSUME ~(s.r # NULL /\ s.w # NULL /\ s.e # NULL /\ s.t # NULL) PROVE k.t = u.t
  <2>1. flag - 1110 # 1 BY <1>6, <1>12
  <2>. QED BY <1>5, <2>1
<1>. QED BY <1>7, <1>8, <1>9, <1>10, <1>11, <1>12, Zenon

(* The application's sets and timeout arrive as far as all pointers before   *)
(* them are given, but for the descriptors below 24 of readfds; a timeout    *)
(* that does not arrive is what the reader had there.                        *)
THEOREM SelectRoundTrip ==
  ASSUME NEW data, IsData(data), NEW s \in SelectArg, NEW u,
         NEW k, k = deserialize_select_fd_set(serialize_select_fd_set(data, s), u)
  PROVE  /\ k.nfds = s.nfds
         /\ s.r # NULL /\ u.r # NULL => k.r \ Clobbered = s.r \ Clobbered
         /\ s.r # NULL /\ s.w # NULL /\ u.w # NULL => k.w = s.w
         /\ s.r # NULL /\ s.w # NULL /\ s.e # NULL /\ u.e # NULL => k.e = s.e
         /\ s.r # NULL /\ s.w # NULL /\ s.e # NULL /\ s.t # NULL /\ u.t # NULL => k.t = s.t
         /\ ~(s.r # NULL /\ s.w # NULL /\ s.e # NULL /\ s.t # NULL) => k.t = u.t
<1>1. PICK d : d = serialize_select_fd_set(data, s) OBVIOUS
<1>2. SelectStored(d, s) /\ k = deserialize_select_fd_set(d, u) BY <1>1, SelectLayout, Zenon
<1>. QED BY <1>2, SelectReads

(* The arguments of a select *)
IsSelect(s) == s = [nfds |-> s.nfds, r |-> s.r, w |-> s.w, e |-> s.e, t |-> s.t]

(* Whatever bytes it reads, the reader makes sets of descriptors of them. *)
LEMMA SelectIsRead ==
  ASSUME NEW d, NEW u, u.r \in Fds, u.w \in Fds, u.e \in Fds,
         NEW k, k = deserialize_select_fd_set(d, u)
  PROVE  k.r \in Fds /\ k.w \in Fds /\ k.e \in Fds
         /\ IsSelect(k)
<1>1. \A off : AsFds(Get(d, off, FdSetBytes)) \in Fds
  <2>. TAKE off
  <2>1. PICK b : b = Get(d, off, FdSetBytes) OBVIOUS
  <2>2. FdSetBytes \in Nat BY SMT, CodecAssumption
  <2>3. Len(b) = FdSetBytes BY <2>1, <2>2 DEF Get
  <2>4. AsFds(b) \subseteq 0 .. 8 * FdSetBytes - 1 BY <2>3, Zenon DEF AsFds
  <2>. QED BY <2>1, <2>4, Zenon DEF Fds
<1>. QED BY <1>1 DEF deserialize_select_fd_set, IsSelect

---------------------------------------------------------------------------
(* Bytes stay bytes *)

(* memcpy of bytes into a data array leaves a data array of bytes, whether   *)
(* it ends within the array or not.                                          *)
LEMMA PutData ==
  ASSUME NEW data \in Data, NEW off \in Nat, NEW field \in Seq(Byte)
  PROVE  Put(data, off, field) \in Data
<1>1. DOMAIN data = 0 .. DataBytes - 1 /\ \A i \in DOMAIN data : data[i] \in Byte BY DEF Data
<1>2. ASSUME NEW i \in DOMAIN data PROVE Put(data, off, field)[i] \in Byte
  <2>1. CASE i \in off .. off + Len(field) - 1
    <3>1. i - off + 1 \in 1 .. Len(field) BY <2>1
    <3>2. field[i - off + 1] \in Byte BY <3>1
    <3>. QED BY <2>1, <3>2 DEF Put
  <2>2. CASE i \notin off .. off + Len(field) - 1 BY <1>1, <2>2 DEF Put
  <2>. QED BY <2>1, <2>2
<1>3. Put(data, off, field) = [i \in DOMAIN data |-> Put(data, off, field)[i]] BY DEF Put
<1>. QED BY <1>1, <1>2, <1>3, Zenon DEF Data

(* Four bytes are an int. *)
LEMMA IntAtType ==
  ASSUME NEW data \in Data, NEW off \in Nat, off + 4 <= DataBytes
  PROVE  IntAt(data, off) \in Int32
<1>1. PICK b : b = Get(data, off, 4) OBVIOUS
<1>2. DataBytes \in Nat BY SMT, CodecAssumption
<1>3. ASSUME NEW i \in 1 .. 4 PROVE b[i] \in Byte
  <2>1. off + i - 1 \in 0 .. DataBytes - 1 BY <1>2
  <2>2. b[i] = data[off + i - 1] BY <1>1 DEF Get
  <2>. QED BY <2>1, <2>2 DEF Data
<1>4. b[1] \in Byte /\ b[2] \in Byte /\ b[3] \in Byte /\ b[4] \in Byte BY <1>3
<1>5. AsInt(b) \in Int32
  <2>1. PICK x \in Byte, y \in Byte, z \in Byte, u \in Byte :
          x = b[1] /\ y = b[2] /\ z = b[3] /\ u = b[4]
    BY <1>4
  <2>2. PICK t : t = IF u < 128 THEN u ELSE u - 256 OBVIOUS
  <2>3. t \in Int /\ -128 <= t /\ t <= 127 BY SMT, <2>2 DEF Byte
  <2>4. AsInt(b) = x + 256 * y + 65536 * z + 16777216 * t BY SMT, <2>1, <2>2 DEF AsInt, Byte
  <2>5. x + 256 * y + 65536 * z + 16777216 * t \in Int32 BY SMT, <2>3 DEF Byte, Int32
  <2>. QED BY <2>4, <2>5
<1>. QED BY <1>1, <1>5 DEF IntAt

(* The bytes of any integer *)
LEMMA WordOfInt ==
  ASSUME NEW v \in Int
  PROVE  Word(v) \in Seq(Byte) /\ Len(Word(v)) = 4
<1>1. v % 256 \in Byte /\ (v \div 256) % 256 \in Byte /\ (v \div 65536) % 256 \in Byte
      /\ (v \div 16777216) % 256 \in Byte
  BY SMT DEF Byte
<1>. QED BY SMT, <1>1 DEF Word

(* A byte of a field *)
LEMMA ByteOf ==
  ASSUME NEW x \in Seq(Byte), NEW j \in 1 .. Len(x)
  PROVE  x[j] \in Byte
OBVIOUS

(* Cleared bytes *)
LEMMA ZerosBytes ==
  ASSUME NEW n \in Nat
  PROVE  Zeros(n) \in Seq(Byte)
BY SMT DEF Zeros, Byte

(* The bytes of an array whose elements are bytes *)
LEMMA FlatSeq ==
  ASSUME NEW w \in Width, NEW n \in Nat, NEW rows, Len(rows) = n,
         \A i \in 1 .. n : \A j \in 1 .. w : rows[i][j] \in Byte
  PROVE  Flat(rows, w) \in Seq(Byte)
<1>1. n * w \in Nat BY DEF Width
<1>2. ASSUME NEW k \in 1 .. n * w
      PROVE  rows[1 + ((k - 1) \div w)][1 + ((k - 1) % w)] \in Byte
  <2>1. 1 + ((k - 1) \div w) \in 1 .. n /\ 1 + ((k - 1) % w) \in 1 .. w
    <3>1. CASE w = 4 BY <3>1
    <3>2. CASE w = 8 BY <3>2
    <3>3. CASE w = 12 BY <3>3
    <3>. QED BY <3>1, <3>2, <3>3 DEF Width
  <2>. QED BY <2>1
<1>3. Flat(rows, w) = [k \in 1 .. n * w |-> rows[1 + ((k - 1) \div w)][1 + ((k - 1) % w)]]
  BY DEF Flat
<1>4. Flat(rows, w) \in [1 .. n * w -> Byte] BY <1>2, <1>3
<1>. QED BY <1>1, <1>4

(* Several ints *)
LEMMA IntsBytes ==
  ASSUME NEW n \in Nat, NEW v, DOMAIN v = 1 .. n, \A i \in 1 .. n : v[i] \in Int
  PROVE  Ints(v) \in Seq(Byte)
<1>1. PICK rows : rows = [i \in DOMAIN v |-> Word(v[i])] OBVIOUS
<1>2. Len(rows) = n BY <1>1
<1>3. ASSUME NEW i \in 1 .. n, NEW j \in 1 .. 4 PROVE rows[i][j] \in Byte
  <2>1. PICK x : x = Word(v[i]) OBVIOUS
  <2>2. x \in Seq(Byte) /\ Len(x) = 4 BY <2>1, WordOfInt, Zenon
  <2>3. rows[i] = x BY <1>1, <2>1
  <2>4. x[j] \in Byte BY <2>2, ByteOf
  <2>. QED BY <2>3, <2>4, Zenon
<1>4. 4 \in Width BY DEF Width
<1>5. Flat(rows, 4) \in Seq(Byte) BY <1>2, <1>3, <1>4, FlatSeq, Zenon
<1>. QED BY <1>1, <1>5, Zenon DEF Ints

(* An fd_set *)
LEMMA FdSetIsBytes ==
  ASSUME NEW fds
  PROVE  FdSet(fds) \in Seq(Byte)
<1>1. FdSetBytes \in Nat BY SMT, CodecAssumption
<1>2. \A i \in 1 .. FdSetBytes : FdSet(fds)[i] \in Byte
  <2>. TAKE i \in 1 .. FdSetBytes
  <2>1. 0 \in 0 .. 7 OBVIOUS
  <2>. QED BY <2>1, FdSetBit, Zenon
<1>3. PICK f : f = FdSet(fds) OBVIOUS
<1>4. f = [i \in 1 .. FdSetBytes |-> f[i]]
  <2>1. IsField(FdSet(fds), FdSetBytes) BY <1>1 DEF FdSet, IsField
  <2>. QED BY <1>3, <2>1, Zenon DEF IsField
<1>5. f \in [1 .. FdSetBytes -> Byte]
  <2>1. \A i \in 1 .. FdSetBytes : f[i] \in Byte BY <1>2, <1>3, Zenon
  <2>. QED BY <1>4, <2>1
<1>6. f \in Seq(Byte) BY <1>1, <1>5
<1>. QED BY <1>3, <1>6

(* The bytes of an entry of poll, and of the length of its array *)
LEMMA PollFdBytesAre ==
  ASSUME NEW p \in PollEntry
  PROVE  PollFd(p) \in Seq(Byte) /\ Len(PollFd(p)) = 8
<1>1. p.fd \in Int32 /\ p.events \in Int16 /\ p.revents \in Int16 BY SMT DEF PollEntry
<1>2. PICK w, s, t : w = Word(p.fd) /\ s = Short(p.events) /\ t = Short(p.revents) OBVIOUS
<1>3. w \in Seq(Byte) /\ s \in Seq(Byte) /\ t \in Seq(Byte)
      /\ Len(w) = 4 /\ Len(s) = 2 /\ Len(t) = 2
  BY <1>1, <1>2, WordBytes, ShortRoundTrip, Zenon
<1>4. PICK x : x = w \o s OBVIOUS
<1>5. x \in Seq(Byte) /\ Len(x) = Len(w) + Len(s) BY <1>3, <1>4, ConcatProperties, Zenon
<1>6. PICK y : y = x \o t OBVIOUS
<1>7. y \in Seq(Byte) /\ Len(y) = Len(x) + Len(t)
  <2>1. x \in Seq(Byte) /\ t \in Seq(Byte) BY <1>3, <1>5
  <2>. QED BY <1>6, <2>1, ConcatProperties, Zenon
<1>8. Len(y) = 8 BY <1>3, <1>5, <1>7
<1>. QED BY <1>2, <1>4, <1>6, <1>7, <1>8, Zenon DEF PollFd

(* Eight bytes *)
LEMMA WideIsBytes ==
  ASSUME NEW v \in Int32
  PROVE  Wide(v) \in Seq(Byte)
<1>1. PICK t : t = IF v < 0 THEN <<255, 255, 255, 255>> ELSE Zeros(4) OBVIOUS
<1>2. t \in Seq(Byte)
  <2>1. <<255, 255, 255, 255>> \in Seq(Byte) BY SMT DEF Byte
  <2>2. Zeros(4) \in Seq(Byte) BY ZerosBytes
  <2>. QED BY <1>1, <2>1, <2>2, Zenon
<1>3. PICK w : w = Word(v) OBVIOUS
<1>4. w \in Seq(Byte) BY <1>3, WordBytes, Zenon
<1>5. w \o t \in Seq(Byte) BY <1>2, <1>4
<1>. QED BY <1>1, <1>3, <1>5, Zenon DEF Wide

(* Each serializer leaves a data array of bytes.  epoll_create1 *)
LEMMA EpollCreateData ==
  ASSUME NEW data \in Data, NEW flag \in Int
  PROVE  serialize_epoll_create_dt(data, flag) \in Data
<1>1. 0 \in Nat OBVIOUS
<1>. QED BY <1>1, WordOfInt, PutData, Zenon DEF serialize_epoll_create_dt

(* epoll_ctl *)
LEMMA EpollCtlData ==
  ASSUME NEW data \in Data, NEW epfd \in Int, NEW op \in Int, NEW fd \in Int,
         NEW event \in {NULL} \cup EpollEvent
  PROVE  serialize_epoll_ctl_dt(data, epfd, op, fd, event) \in Data
<1>1. 0 \in Nat /\ 12 \in Nat /\ (event # NULL => event \in Seq(Byte))
  <2>1. ASSUME NEW n \in Nat, NEW x \in [1 .. n -> Byte] PROVE x \in Seq(Byte) OBVIOUS
  <2>2. event # NULL => event \in [1 .. 12 -> Byte] BY Zenon DEF EpollEvent, EventBytes
  <2>. QED BY <2>1, <2>2, 12 \in Nat, Zenon
<1>2. PICK d : d = IF event = NULL THEN data ELSE Put(data, 12, event) OBVIOUS
<1>3. d \in Data BY <1>1, <1>2, PutData, Zenon
<1>4. PICK v : v = <<epfd, op, fd>> OBVIOUS
<1>5. DOMAIN v = 1 .. 3 /\ \A i \in 1 .. 3 : v[i] \in Int BY <1>4
<1>6. Ints(v) \in Seq(Byte) BY <1>5, IntsBytes
<1>. QED BY <1>1, <1>2, <1>3, <1>4, <1>6, PutData, Zenon DEF serialize_epoll_ctl_dt

(* epoll_wait *)
LEMMA EpollWaitData ==
  ASSUME NEW data \in Data, NEW n \in Nat, NEW epfd \in Int, NEW m \in Int, NEW t \in Int,
         NEW events \in Seq(EpollEvent), n <= Len(events)
  PROVE  serialize_epoll_wait_dt(data, n, epfd, m, t, events) \in Data
<1>1. PICK k : k = Least(n, EventsThatFit) OBVIOUS
<1>2. k \in Nat /\ k <= Len(events)
  <2>1. EventsThatFit \in Nat BY SMT, CodecAssumption DEF EventsThatFit, EventBytes
  <2>. QED BY <1>1, <2>1 DEF Least
<1>3. PICK rows : rows = SubSeq(events, 1, k) OBVIOUS
<1>4. rows \in Seq(EpollEvent) /\ Len(rows) = k BY <1>2, <1>3
<1>5. ASSUME NEW i \in 1 .. k, NEW j \in 1 .. 12 PROVE rows[i][j] \in Byte
  <2>1. rows[i] \in [1 .. 12 -> Byte] BY <1>4 DEF EpollEvent, EventBytes
  <2>. QED BY <2>1, Zenon
<1>6. 12 \in Width /\ 0 \in Nat /\ 16 \in Nat /\ EventBytes = 12 BY DEF Width, EventBytes
<1>7. Flat(rows, 12) \in Seq(Byte) BY <1>2, <1>4, <1>5, <1>6, FlatSeq, Zenon
<1>8. PICK v : v = <<n, epfd, m, t>> OBVIOUS
<1>9. DOMAIN v = 1 .. 4 /\ \A i \in 1 .. 4 : v[i] \in Int BY <1>8
<1>10. Ints(v) \in Seq(Byte) BY <1>9, IntsBytes
<1>11. Put(data, 0, Ints(v)) \in Data BY <1>6, <1>10, PutData, Zenon
<1>12. serialize_epoll_wait_dt(data, n, epfd, m, t, events) =
         Put(Put(data, 0, Ints(v)), 16, Flat(rows, 12))
  BY <1>1, <1>3, <1>6, <1>8, Zenon DEF serialize_epoll_wait_dt
<1>. QED BY <1>6, <1>7, <1>11, <1>12, PutData, Zenon

(* poll *)
LEMMA PollData ==
  ASSUME NEW data \in Data, NEW fds \in Seq(PollEntry), Len(fds) \in Int32, NEW t \in Int
  PROVE  serialize_poll_pollfd(data, fds, t) \in Data
<1>1. PICK n : n = Len(fds) OBVIOUS
<1>2. n \in Nat /\ n \in Int32 /\ DOMAIN fds = 1 .. n BY <1>1
<1>3. PICK rows : rows = [i \in DOMAIN fds |-> PollFd(fds[i])] OBVIOUS
<1>4. Len(rows) = n BY <1>2, <1>3
<1>5. ASSUME NEW i \in 1 .. n, NEW j \in 1 .. 8 PROVE rows[i][j] \in Byte
  <2>1. fds[i] \in PollEntry BY <1>2
  <2>2. PICK x : x = PollFd(fds[i]) OBVIOUS
  <2>3. x \in Seq(Byte) /\ Len(x) = 8 BY <2>1, <2>2, PollFdBytesAre, Zenon
  <2>4. x[j] \in Byte BY <2>3, ByteOf
  <2>5. rows[i] = x BY <1>2, <1>3, <2>2
  <2>. QED BY <2>4, <2>5, Zenon
<1>6. 8 \in Width /\ 0 \in Nat /\ 4 \in Nat /\ 12 \in Nat /\ PollFdBytes = 8
  BY DEF Width, PollFdBytes
<1>7. Flat(rows, 8) \in Seq(Byte) BY <1>2, <1>4, <1>5, <1>6, FlatSeq, Zenon
<1>8. Wide(n) \in Seq(Byte) BY <1>2, WideIsBytes
<1>9. Put(data, 0, Word(t)) \in Data BY <1>6, WordOfInt, PutData, Zenon
<1>10. Put(Put(data, 0, Word(t)), 4, Wide(n)) \in Data BY <1>6, <1>8, <1>9, PutData, Zenon
<1>11. serialize_poll_pollfd(data, fds, t) =
         Put(Put(Put(data, 0, Word(t)), 4, Wide(n)), 12, Flat(rows, 8))
  BY <1>1, <1>3, <1>6, Zenon DEF serialize_poll_pollfd
<1>. QED BY <1>6, <1>7, <1>10, <1>11, PutData, Zenon

(* socket options *)
LEMMA SockoptData ==
  ASSUME NEW data \in Data, NEW level \in Int, NEW optname \in Int, NEW optval \in Seq(Byte)
  PROVE  serialize_sockopt_dt(data, level, optname, optval) \in Data
<1>1. 0 \in Nat /\ 12 \in Nat OBVIOUS
<1>2. PICK v : v = <<level, optname, Len(optval)>> OBVIOUS
<1>3. DOMAIN v = 1 .. 3 /\ \A i \in 1 .. 3 : v[i] \in Int BY <1>2
<1>4. Ints(v) \in Seq(Byte) BY <1>3, IntsBytes
<1>5. Put(data, 0, Ints(v)) \in Data BY <1>1, <1>4, PutData, Zenon
<1>. QED BY <1>1, <1>2, <1>5, PutData, Zenon DEF serialize_sockopt_dt

(* addresses *)
LEMMA AddrData ==
  ASSUME NEW data \in Data, NEW addrlen \in Int, NEW addr \in Seq(Byte)
  PROVE  serialize_addr_dt(data, addrlen, addr) \in Data
<1>1. 0 \in Nat /\ 4 \in Nat OBVIOUS
<1>2. Put(data, 0, Word(addrlen)) \in Data BY <1>1, WordOfInt, PutData, Zenon
<1>. QED BY <1>1, <1>2, PutData, Zenon DEF serialize_addr_dt

(* The flag of fcntl and the length of the argument it stands for *)
LEMMA FcntlFlagType ==
  ASSUME NEW cmd \in Int
  PROVE  FcntlFlag(cmd) \in 0 .. 2 /\ ArgBytes(FcntlFlag(cmd)) \in Nat
         /\ (ArgBytes(FcntlFlag(cmd)) \in {0, 4} \/ ArgBytes(FcntlFlag(cmd)) = FlockBytes)
<1>1. FlockBytes \in Nat BY SMT, CodecAssumption
<1>2. FcntlFlag(cmd) \in 0 .. 2 BY SMT DEF FcntlFlag
<1>3. PICK f \in 0 .. 2 : f = FcntlFlag(cmd) BY <1>2
<1>4. ArgBytes(f) \in Nat /\ (ArgBytes(f) \in {0, 4} \/ ArgBytes(f) = FlockBytes)
  BY SMT, <1>1 DEF ArgBytes
<1>. QED BY <1>2, <1>3, <1>4, Zenon

(* fcntl *)
LEMMA FcntlData ==
  ASSUME NEW data \in Data, NEW cmd \in Int, NEW arg \in Seq(Byte),
         ArgBytes(FcntlFlag(cmd)) <= Len(arg)
  PROVE  serialize_fcntl_dt(data, cmd, arg) \in Data
<1>1. 0 \in Nat /\ 8 \in Nat OBVIOUS
<1>2. PICK flag : flag = FcntlFlag(cmd) OBVIOUS
<1>3. flag \in 0 .. 2 /\ ArgBytes(flag) \in Nat BY <1>2, FcntlFlagType, Zenon
<1>4. PICK n \in Nat : n = ArgBytes(flag) BY <1>3
<1>5. SubSeq(arg, 1, n) \in Seq(Byte)
  <2>1. n <= Len(arg) BY <1>2, <1>4
  <2>. QED BY <2>1
<1>6. PICK v : v = <<cmd, flag>> OBVIOUS
<1>7. DOMAIN v = 1 .. 2 /\ \A i \in 1 .. 2 : v[i] \in Int BY <1>3, <1>6
<1>8. Ints(v) \in Seq(Byte) BY <1>7, IntsBytes
<1>9. Put(data, 0, Ints(v)) \in Data BY <1>1, <1>8, PutData, Zenon
<1>. QED BY <1>1, <1>2, <1>4, <1>5, <1>6, <1>9, PutData, Zenon DEF serialize_fcntl_dt

(* select *)
LEMMA SelectData ==
  ASSUME NEW data \in Data, NEW s, s.nfds \in Int, s.t \in {NULL} \cup Timeval
  PROVE  serialize_select_fd_set(data, s) \in Data
<1>. DEFINE F == FdSetBytes
<1>1. PICK rs : rs = IF s.r = NULL THEN Zeros(F) ELSE FdSet(s.r) OBVIOUS
<1>2. PICK ws : ws = IF s.w = NULL THEN Zeros(F) ELSE FdSet(s.w) OBVIOUS
<1>3. PICK es : es = IF s.e = NULL THEN Zeros(F) ELSE FdSet(s.e) OBVIOUS
<1>4. PICK ts : ts = IF s.t = NULL THEN Zeros(TimevalBytes) ELSE s.t OBVIOUS
<1>5. /\ F \in Nat /\ 0 \in Nat /\ 4 \in Nat /\ 5 \in Nat /\ TimevalBytes = 16
      /\ 5 + F \in Nat /\ 5 + 2 * F \in Nat /\ 5 + 3 * F \in Nat
  BY SMT, CodecAssumption DEF TimevalBytes
<1>6. Zeros(F) \in Seq(Byte) /\ Zeros(TimevalBytes) \in Seq(Byte)
  <2>1. TimevalBytes \in Nat BY <1>5
  <2>. QED BY <1>5, <2>1, ZerosBytes
<1>7. rs \in Seq(Byte) /\ ws \in Seq(Byte) /\ es \in Seq(Byte)
  BY <1>1, <1>2, <1>3, <1>6, FdSetIsBytes, Zenon
<1>8. ts \in Seq(Byte)
  <2>1. ASSUME NEW n \in Nat, NEW x \in [1 .. n -> Byte] PROVE x \in Seq(Byte) OBVIOUS
  <2>2. TimevalBytes \in Nat BY <1>5
  <2>3. s.t # NULL => s.t \in Seq(Byte) BY <2>1, <2>2, Zenon DEF Timeval
  <2>. QED BY <1>4, <1>6, <2>3, Zenon
<1>9. PICK a : a = Put(data, 0, Word(s.nfds)) OBVIOUS
<1>10. PICK r : r = Put(a, 5, rs) OBVIOUS
<1>11. PICK w : w = Put(r, 5 + F, ws) OBVIOUS
<1>12. PICK e : e = Put(w, 5 + 2 * F, es) OBVIOUS
<1>13. PICK t : t = Put(e, 5 + 3 * F, ts) OBVIOUS
<1>14. PICK flag : flag = SelectFlag(s) OBVIOUS
<1>15. flag \in Int /\ Word(flag) \in Seq(Byte) /\ Word(s.nfds) \in Seq(Byte)
  <2>1. flag \in Int32 BY <1>14, FlagDigits
  <2>2. flag \in Int BY SMT, <2>1 DEF Int32
  <2>. QED BY <2>2, WordOfInt
<1>16. a \in Data BY <1>5, <1>9, <1>15, PutData, Zenon
<1>17. r \in Data BY <1>5, <1>7, <1>10, <1>16, PutData, Zenon
<1>18. w \in Data BY <1>5, <1>7, <1>11, <1>17, PutData, Zenon
<1>19. e \in Data BY <1>5, <1>7, <1>12, <1>18, PutData, Zenon
<1>20. t \in Data BY <1>5, <1>8, <1>13, <1>19, PutData, Zenon
<1>21. Put(t, 4, Word(flag)) \in Data BY <1>5, <1>15, <1>20, PutData, Zenon
<1>22. serialize_select_fd_set(data, s) = Put(t, 4, Word(flag))
  BY <1>1, <1>2, <1>3, <1>4, <1>9, <1>10, <1>11, <1>12, <1>13, <1>14, Zenon
  DEF serialize_select_fd_set
<1>. QED BY <1>21, <1>22

=============================================================================
