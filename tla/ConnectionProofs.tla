-------------------------- MODULE ConnectionProofs --------------------------
(***************************************************************************)
(* Theorems about Connection, for any number of clients and any bounds.    *)
(***************************************************************************)
EXTENDS Connection, SequenceTheorems, FiniteSetTheorems, WellFoundedInduction, TLAPS

\* The clients on one of the server's lists.
Ents(list) == {list[i] : i \in DOMAIN list}

\* No two of them have the same session.
Distinct(list) == \A i, j \in DOMAIN list : list[i].salt = list[j].salt => i = j

\* The types of the state, the server's lists included.
Endpoints == [sequence : 0 .. MaxPackets, seen : SUBSET (0 .. MaxPackets),
              outbox : SUBSET Packets]
Entries == [addr : Addresses, salt : Salts, age : 0 .. Expired, endpoint : Endpoints]

ClientTypes ==
  /\ state \in [Clients -> {"SendingConnectionRequest", "SendingChallengeResponse",
                            "Connected", "Disconnected", "SelfInitiatedDisconnect"}]
  /\ reason \in [Clients -> {"Normal", "TimedOut"} \cup Denials]
  /\ client_salt \in [Clients -> 0 .. MaxConnects]
  /\ xor_salt \in [Clients -> Salts]
  /\ proto_due \in [Clients -> BOOLEAN] /\ send_due \in [Clients -> BOOLEAN]
  /\ clock \in [Clients -> 0 .. Expired] /\ receive_age \in [Clients -> 0 .. Expired]
  /\ endpoint \in [Clients -> Endpoints] /\ \A c \in Clients : endpoint[c].outbox = {}
  /\ connects \in [Clients -> 0 .. MaxConnects]

ServerTypes ==
  /\ pending \in Seq(Entries) /\ connected \in Seq(Entries)
  /\ outbox \in SUBSET Packets
  /\ salts \in SUBSET (1 .. MaxSalts)
  /\ opened \in SUBSET Salts

StateTypes == ClientTypes /\ ServerTypes /\ net \in SUBSET Packets

\* The server's clients, pending or connected.
entries == Ents(pending) \cup Ents(connected)

\* Every packet there is.
made == net \cup outbox \cup UNION {e.endpoint.outbox : e \in entries}

\* A session is waiting, then open, then gone, and in one place at a time.
SessionsOnce ==
  /\ Distinct(pending) /\ Distinct(connected)
  /\ \A e \in Ents(connected) : e.salt \in opened
  /\ \A e \in Ents(pending) : e.salt \notin opened
  /\ \A e \in entries : e.salt[2] \in salts
  /\ \A s \in opened : s[2] \in salts

\* The server tells a client of a session only once it is open.
OpenAnnounced ==
  \A p \in made : p.to # Server /\ p.type \in {"KeepAlive", "Messages"} => p.salt \in opened

\* A client takes up a session of the attempt it is in.
AttemptsAgree ==
  \A c \in Clients :
    /\ state[c] \in {"SendingChallengeResponse", "Connected"} =>
         xor_salt[c][1] = client_salt[c]
    /\ state[c] = "Connected" => xor_salt[c] \in opened

HandshakeInv == SessionsOnce /\ OpenAnnounced /\ AttemptsAgree

\* Whoever holds a server salt, it belongs to one client salt of one address.
Owned(salt, addr) ==
  salt[2] # 0 => /\ salt[2] \in salts
                 /\ \A e \in entries : e.salt[2] = salt[2] => e.addr = addr /\ e.salt = salt

SaltsOwned ==
  /\ \A e \in entries : Owned(e.salt, e.addr)
  /\ \A p \in made : Owned(p.salt, p.addr)
  /\ \A c \in Clients : Owned(xor_salt[c], c)

\* Client salts count the attempts; in a new one nothing has been processed; and
\* what is processed later was numbered by the server's end of the session.
ClientNumbered ==
  \A c \in Clients :
    /\ client_salt[c] <= connects[c]
    /\ state[c] # "Disconnected" => client_salt[c] >= 1
    /\ xor_salt[c] # NoSalt => xor_salt[c][1] = client_salt[c]
    /\ state[c] \in {"Disconnected", "SendingConnectionRequest"} => endpoint[c].seen = {}
    /\ \A e \in entries : e.salt = xor_salt[c] => endpoint[c].seen \subseteq 1 .. e.endpoint.sequence

\* What the server's end has processed was numbered by the client in its attempt.
EntryNumbered ==
  \A e \in entries :
    /\ e.addr \in Clients /\ e.salt[1] \in 1 .. connects[e.addr]
    /\ e.salt[1] = client_salt[e.addr] =>
         e.endpoint.seen \subseteq 1 .. endpoint[e.addr].sequence

\* So were the packets that may still arrive.
ReplyNumbered(p) ==
  p.to # Server /\ p.type \notin Denials =>
    /\ p.id >= 1 /\ p.salt[2] # 0
    /\ \A e \in entries : e.salt = p.salt => p.id <= e.endpoint.sequence

RequestNumbered(p) ==
  p.to = Server /\ p.type # "OldRequest" =>
    /\ p.addr \in Clients /\ p.salt[1] \in 1 .. connects[p.addr]
    /\ p.salt[1] = client_salt[p.addr] => p.id \in 1 .. endpoint[p.addr].sequence

PacketsNumbered ==
  \A p \in made :
    /\ p.to # Server => p.to = p.addr
    /\ ReplyNumbered(p) /\ RequestNumbered(p)

NumbersInv == SaltsOwned /\ ClientNumbered /\ EntryNumbered /\ PacketsNumbered

\* How an entry f of the server's lists comes from e in one step: it has processed
\* packets of the client and queued packets for it.
Heard(e, p) ==
  /\ p.to = Server /\ p.type # "OldRequest"
  /\ p.salt = e.salt \/ (p.addr = e.addr /\ p.salt[1] = e.salt[1])

Said(f, p) ==
  p.to = f.addr /\ p.addr = f.addr /\ p.salt = f.salt /\ p.id = f.endpoint.sequence

Grown(e, f, kinds) ==
  /\ f.addr = e.addr /\ f.salt = e.salt /\ f.endpoint.sequence >= e.endpoint.sequence
  /\ \A n \in f.endpoint.seen : n \in e.endpoint.seen \/ \E p \in net : Heard(e, p) /\ p.id = n
  /\ \A p \in f.endpoint.outbox :
       \/ p \in e.endpoint.outbox
       \/ /\ Said(f, p) /\ p.type \in kinds
          /\ Duplicating => f.endpoint.sequence > e.endpoint.sequence

\* A list l that comes from list in one step and has no new clients.
Follows(list, l, kinds) ==
  /\ l \in Seq(Entries)
  /\ \A f \in Ents(l) : \E e \in Ents(list) : Grown(e, f, kinds)
  /\ Distinct(list) => Distinct(l)

\* A new pending client.
Fresh(f) ==
  /\ Duplicating => f.salt[2] \notin salts
  /\ f.salt[2] # 0 /\ f.endpoint.sequence = 0 /\ f.endpoint.outbox = {}
  /\ \E p \in net : /\ p.to = Server /\ p.type = "ConnectionRequest"
                    /\ f.addr = p.addr /\ f.salt[1] = p.salt[1]
                    /\ f.endpoint.seen \subseteq {p.id}

OneFresh == \A f, g \in Ents(pending') : Fresh(f) /\ Fresh(g) => f = g

Denial(p) == p.to = p.addr /\ p.to # Server /\ p.type \in Denials /\ p.salt = NoSalt

Challenges == {"ConnectionChallenge"}
Announcements == {"KeepAlive", "Messages"}

\* What every step of the server does, and does not do.
ServerStep ==
  /\ ServerTypes' /\ net' \in SUBSET Packets
  /\ UNCHANGED client_vars
  /\ net' \subseteq made
  /\ \A p \in outbox' : p \in outbox \/ Denial(p)
  /\ salts \subseteq salts' /\ opened \subseteq opened'
  /\ \A f \in Ents(pending') : (\E e \in Ents(pending) : Grown(e, f, Challenges)) \/ Fresh(f)
  /\ \A f \in Ents(connected') : \E e \in entries : Grown(e, f, Announcements)
  /\ Duplicating /\ SessionsOnce => SessionsOnce' /\ OneFresh

-----------------------------------------------------------------------------
(* Lists *)

\* A set of places has a first one.
LEMMA FirstIn ==
  ASSUME NEW places \in SUBSET Nat, places # {}
  PROVE  first(places) \in places
  <1>1. PICK i \in places : \A j \in places : ~ (<<j, i>> \in OpToRel(<, Nat))
    BY NatLessThanWellFounded, WFMin
  <1>2. ASSUME NEW j \in places PROVE i <= j
    <2>1. ~ (j < i)
      BY <1>1 DEF OpToRel
    <2> QED
      BY <2>1
  <1> QED
    BY <1>2 DEF first

LEMMA PastTheGap ==
  ASSUME NEW n \in Nat, NEW i \in 1 .. n, NEW j \in 1 .. n - 1, j >= i
  PROVE  /\ j - (i - 1) \in 1 .. n - i /\ i + (j - (i - 1)) = j + 1
         /\ ~ (j <= i - 1) /\ ~ (j < i)
  OBVIOUS

LEMMA DropList ==
  ASSUME NEW T, NEW list \in Seq(T), NEW i \in DOMAIN list, NEW l, l = drop(list, i)
  PROVE  /\ l \in Seq(T) /\ Ents(l) \subseteq Ents(list)
         /\ Distinct(list) => Distinct(l) /\ \A e \in Ents(l) : e.salt # list[i].salt
  <1>1. PICK n \in Nat : n = Len(list) /\ DOMAIN list = 1 .. n /\ \A j \in 1 .. n : list[j] \in T
    BY LenProperties
  <1>2. PICK a, b : /\ a = SubSeq(list, 1, i - 1) /\ b = SubSeq(list, i + 1, n)
                    /\ a \in Seq(T) /\ b \in Seq(T) /\ Len(a) = i - 1 /\ Len(b) = n - i
                    /\ \A j \in 1 .. i - 1 : a[j] = list[j]
                    /\ \A j \in 1 .. n - i : b[j] = list[i + j]
    <2>1. \A j \in 1 .. i - 1 : list[j] \in T
      BY <1>1
    <2>2. \A j \in i + 1 .. n : list[j] \in T
      BY <1>1
    <2>3. i - 1 \in Int /\ i + 1 \in Int /\ n \in Int /\ i \in 1 .. n
      BY <1>1
    <2>4. /\ SubSeq(list, 1, i - 1) \in Seq(T)
          /\ Len(SubSeq(list, 1, i - 1)) = IF 1 <= i - 1 THEN (i - 1) - 1 + 1 ELSE 0
          /\ \A j \in 1 .. (i - 1) - 1 + 1 : SubSeq(list, 1, i - 1)[j] = list[1 + j - 1]
      BY <2>1, <2>3, SubSeqProperties
    <2>5. /\ SubSeq(list, i + 1, n) \in Seq(T)
          /\ Len(SubSeq(list, i + 1, n)) = IF i + 1 <= n THEN n - (i + 1) + 1 ELSE 0
          /\ \A j \in 1 .. n - (i + 1) + 1 : SubSeq(list, i + 1, n)[j] = list[(i + 1) + j - 1]
      BY <2>2, <2>3, SubSeqProperties
    <2>6. PICK a : a = SubSeq(list, 1, i - 1)
      OBVIOUS
    <2>7. PICK b : b = SubSeq(list, i + 1, n)
      OBVIOUS
    <2>8. a \in Seq(T) /\ Len(a) = i - 1 /\ \A j \in 1 .. i - 1 : a[j] = list[j]
      BY <2>3, <2>4, <2>6
    <2>9. b \in Seq(T) /\ Len(b) = n - i /\ \A j \in 1 .. n - i : b[j] = list[i + j]
      <3>1. n - (i + 1) + 1 = n - i /\ \A j \in 1 .. n - i : (i + 1) + j - 1 = i + j
        BY <2>3
      <3>2. \A j \in 1 .. n - i : b[j] = list[i + j]
        BY <2>5, <2>7, <3>1
      <3>3. Len(b) = n - i
        BY <2>3, <2>5, <2>7
      <3> QED
        BY <2>5, <2>7, <3>2, <3>3
    <2> QED
      BY <2>6, <2>7, <2>8, <2>9
  <1>3. l = a \o b
    BY <1>1, <1>2 DEF drop
  <1>4. /\ l \in Seq(T) /\ Len(l) = n - 1
        /\ \A j \in 1 .. n - 1 : l[j] = IF j < i THEN list[j] ELSE list[j + 1]
    <2>1. /\ l \in Seq(T) /\ Len(l) = Len(a) + Len(b)
          /\ \A j \in 1 .. Len(a) + Len(b) : l[j] = IF j <= Len(a) THEN a[j] ELSE b[j - Len(a)]
      <3>1. a \in Seq(T) /\ b \in Seq(T)
        BY <1>2
      <3>2. /\ a \o b \in Seq(T) /\ Len(a \o b) = Len(a) + Len(b)
            /\ \A j \in 1 .. Len(a) + Len(b) :
                 (a \o b)[j] = IF j <= Len(a) THEN a[j] ELSE b[j - Len(a)]
        BY <3>1, ConcatProperties, Zenon
      <3> QED
        BY <1>3, <3>2, Zenon
    <2>2. /\ Len(a) = i - 1 /\ Len(b) = n - i /\ i \in 1 .. n
          /\ Len(a) + Len(b) = n - 1
      <3>1. i \in 1 .. n /\ Len(a) = i - 1 /\ Len(b) = n - i
        BY <1>1, <1>2
      <3> QED BY <3>1
    <2>3. ASSUME NEW j \in 1 .. n - 1 PROVE l[j] = IF j < i THEN list[j] ELSE list[j + 1]
      <3>1. l[j] = IF j <= i - 1 THEN a[j] ELSE b[j - (i - 1)]
        <4>1. j \in 1 .. Len(a) + Len(b)
          BY <2>2
        <4>2. l[j] = IF j <= Len(a) THEN a[j] ELSE b[j - Len(a)]
          BY <2>1, <4>1, Zenon
        <4> QED BY <2>2, <4>2
      <3>2. CASE j < i
        <4>1. j \in 1 .. i - 1 /\ j <= i - 1
          BY <2>2, <3>2
        <4>2. l[j] = a[j] /\ a[j] = list[j]
          BY <1>2, <3>1, <4>1
        <4> QED BY <3>2, <4>2
      <3>3. CASE j >= i
        <4>1. /\ j - (i - 1) \in 1 .. n - i /\ i + (j - (i - 1)) = j + 1
              /\ ~ (j <= i - 1) /\ ~ (j < i)
          BY <2>2, <3>3, PastTheGap
        <4>2. l[j] = b[j - (i - 1)]
          BY <3>1, <4>1
        <4>3. b[j - (i - 1)] = list[i + (j - (i - 1))]
          BY <1>2, <4>1, Zenon
        <4>4. l[j] = list[j + 1]
          BY <4>1, <4>2, <4>3, Zenon
        <4> QED BY <4>1, <4>4, Zenon
      <3>4. j < i \/ j >= i
        BY <2>2
      <3> QED
        BY <3>2, <3>3, <3>4
    <2> QED
      BY <2>1, <2>2, <2>3
  <1>5. DOMAIN l = 1 .. n - 1
    BY <1>4, LenProperties
  <1>6. \A j \in DOMAIN l : \E k \in DOMAIN list : l[j] = list[k] /\ k # i
    BY <1>1, <1>4, <1>5
  <1>7. Ents(l) \subseteq Ents(list)
    BY <1>6 DEF Ents
  <1>8. ASSUME Distinct(list) PROVE Distinct(l)
    <2> SUFFICES ASSUME NEW j \in DOMAIN l, NEW k \in DOMAIN l, l[j].salt = l[k].salt
                 PROVE  j = k
      BY DEF Distinct
    <2>1. PICK x, y : /\ x = (IF j < i THEN j ELSE j + 1) /\ y = (IF k < i THEN k ELSE k + 1)
                      /\ x \in DOMAIN list /\ y \in DOMAIN list
      BY <1>1, <1>5
    <2>2. l[j] = list[x] /\ l[k] = list[y]
      BY <1>4, <1>5, <2>1
    <2>3. x = y
      BY <1>8, <2>1, <2>2 DEF Distinct
    <2> QED
      BY <1>1, <1>5, <2>1, <2>3
  <1>9. ASSUME Distinct(list), NEW e \in Ents(l) PROVE e.salt # list[i].salt
    BY <1>6, <1>9 DEF Ents, Distinct
  <1> QED
    BY <1>4, <1>7, <1>8, <1>9

LEMMA AppendList ==
  ASSUME NEW T, NEW list \in Seq(T), NEW e \in T, NEW l, l = Append(list, e)
  PROVE  /\ l \in Seq(T) /\ \A f \in Ents(l) : f \in Ents(list) \/ f = e
         /\ Distinct(list) /\ (\A f \in Ents(list) : f.salt # e.salt) => Distinct(l)
  <1>1. PICK n \in Nat : n = Len(list) /\ DOMAIN list = 1 .. n
    BY LenProperties
  <1>2. /\ l \in Seq(T) /\ Len(l) = n + 1 /\ l[n + 1] = e
        /\ \A i \in 1 .. n : l[i] = list[i]
    BY <1>1, AppendProperties
  <1>3. DOMAIN l = 1 .. n + 1
    BY <1>2, LenProperties
  <1>4. \A f \in Ents(l) : f \in Ents(list) \/ f = e
    BY <1>1, <1>2, <1>3 DEF Ents
  <1>5. ASSUME Distinct(list), \A f \in Ents(list) : f.salt # e.salt PROVE Distinct(l)
    <2> SUFFICES ASSUME NEW i \in 1 .. n + 1, NEW j \in 1 .. n + 1, l[i].salt = l[j].salt
                 PROVE  i = j
      BY <1>3 DEF Distinct
    <2>1. \A k \in 1 .. n : l[k].salt # e.salt
      BY <1>1, <1>2, <1>5 DEF Ents
    <2>2. CASE i \in 1 .. n /\ j \in 1 .. n
      BY <1>1, <1>2, <1>5, <2>2 DEF Distinct
    <2> QED
      BY <1>2, <2>1, <2>2
  <1> QED
    BY <1>2, <1>4, <1>5

\* Places are kept and sessions with them: the same list to Distinct.
LEMMA SameSalts ==
  ASSUME NEW list, NEW l, DOMAIN l = DOMAIN list, \A i \in DOMAIN list : l[i].salt = list[i].salt
  PROVE  Distinct(list) => Distinct(l)
  BY DEF Distinct

\* How many of a set's numbers are no greater than k.
count(set, k) == Cardinality({i \in set : i <= k})

LEMMA CountUpTo ==
  ASSUME NEW n \in Nat, NEW set \in SUBSET (1 .. n)
  PROVE  /\ Cardinality(set) \in 0 .. n
         /\ \A k \in Int : count(set, k) \in 0 .. Cardinality(set)
         /\ \A j, k \in Int : j <= k => count(set, j) <= count(set, k)
  <1>1. IsFiniteSet(1 .. n) /\ Cardinality(1 .. n) = n
    BY FS_Interval
  <1>2. \A a, b : IsFiniteSet(b) /\ a \subseteq b =>
          IsFiniteSet(a) /\ Cardinality(a) \in Nat /\ Cardinality(a) <= Cardinality(b)
    BY FS_Subset, FS_CardinalityType
  <1>3. IsFiniteSet(set) /\ Cardinality(set) \in 0 .. n
    <2>1. PICK whole : whole = 1 .. n /\ set \subseteq whole
      OBVIOUS
    <2>2. IsFiniteSet(set) /\ Cardinality(set) \in Nat /\ Cardinality(set) <= Cardinality(whole)
      BY <1>1, <1>2, <2>1
    <2>3. PICK k : k = Cardinality(set)
      OBVIOUS
    <2>4. k \in Nat /\ k <= n
      BY <1>1, <2>1, <2>2, <2>3
    <2> QED
      BY <2>2, <2>3, <2>4
  <1>4. ASSUME NEW k \in Int
        PROVE  IsFiniteSet({i \in set : i <= k}) /\ count(set, k) \in 0 .. Cardinality(set)
    <2>1. PICK up : up = {i \in set : i <= k} /\ up \subseteq set
      OBVIOUS
    <2>2. IsFiniteSet(up) /\ Cardinality(up) \in Nat /\ Cardinality(up) <= Cardinality(set)
      BY <1>2, <1>3, <2>1
    <2> QED
      BY <1>3, <2>1, <2>2 DEF count
  <1>5. ASSUME NEW j \in Int, NEW k \in Int, j <= k PROVE count(set, j) <= count(set, k)
    <2>1. PICK lo, hi : /\ lo = {i \in set : i <= j} /\ hi = {i \in set : i <= k}
                        /\ \A i \in lo : i \in hi
      <3>1. \A i \in set : i <= j => i <= k
        BY <1>5
      <3> QED
        BY <3>1
    <2>2. IsFiniteSet(hi) /\ lo \subseteq hi
      BY <1>4, <2>1
    <2>3. Cardinality(lo) <= Cardinality(hi)
      BY <1>2, <2>2
    <2> QED
      BY <2>1, <2>3 DEF count
  <1> QED
    BY <1>3, <1>4, <1>5

LEMMA StrictlyShifted ==
  ASSUME NEW j \in Int, NEW k \in Int, NEW d \in Int, NEW e \in Int, j < k, d <= e
  PROVE  j + d < k + e
  OBVIOUS

\* What the removal loop leaves comes from the list, and each place of it from
\* another place.
LEMMA RemoveList ==
  ASSUME NEW T, NEW list \in Seq(T), NEW indexes \in SUBSET DOMAIN list,
         NEW l, l = remove_in_turn(list, indexes).list
  PROVE  l \in Seq(T) /\ Ents(l) \subseteq Ents(list) /\ (Distinct(list) => Distinct(l))
  <1>1. PICK n \in Nat : n = Len(list) /\ DOMAIN list = 1 .. n /\ \A j \in 1 .. n : list[j] \in T
    BY LenProperties
  <1>2. PICK removed \in SUBSET (1 .. n) :
          l = [k \in 1 .. n - Cardinality(removed) |-> list[k + count(removed, k)]]
    <2>1. PICK removed : /\ removed = {i \in indexes :
                             i + Cardinality({j \in indexes : j < i}) <= Len(list)}
                         /\ removed \subseteq indexes
      OBVIOUS
    <2>2. l = [k \in 1 .. Len(list) - Cardinality(removed) |-> list[k + count(removed, k)]]
      BY <2>1 DEF remove_in_turn, count
    <2> QED
      BY <1>1, <2>1, <2>2
  <1> DEFINE source(k) == k + count(removed, k)
  <1>3. PICK r \in 0 .. n : r = Cardinality(removed)
    BY CountUpTo
  <1>4. PICK m \in Nat : m = n - r
    BY <1>3
  <1>5. /\ \A k \in Int : count(removed, k) \in 0 .. r
        /\ \A j, k \in Int : j <= k => count(removed, j) <= count(removed, k)
    BY <1>3, CountUpTo
  <1>6. \A k \in 1 .. m : source(k) \in 1 .. n
    <2> SUFFICES ASSUME NEW k \in 1 .. m PROVE source(k) \in 1 .. n
      OBVIOUS
    <2>1. PICK d \in 0 .. r : d = count(removed, k)
      BY <1>5
    <2>2. k + d \in 1 .. n
      BY <1>4
    <2> QED
      BY <2>1, <2>2
  <1>7. ASSUME NEW j \in 1 .. m, NEW k \in 1 .. m, j < k PROVE source(j) < source(k)
    <2>1. PICK d \in 0 .. r, e \in 0 .. r : d = count(removed, j) /\ e = count(removed, k)
      <3>1. j \in Int /\ k \in Int
        OBVIOUS
      <3> QED BY <1>5, <3>1, Zenon
    <2>2. d <= e
      BY <1>5, <1>7, <2>1
    <2>3. j \in Int /\ k \in Int /\ d \in Int /\ e \in Int /\ j < k
      BY <1>7
    <2>4. j + d < k + e
      BY <2>2, <2>3, StrictlyShifted
    <2> QED
      BY <2>1, <2>4
  <1> HIDE DEF source
  <1>8. DOMAIN l = 1 .. m /\ \A k \in 1 .. m : l[k] = list[source(k)]
    BY <1>2, <1>3, <1>4 DEF source
  <1>9. l \in Seq(T)
    <2>1. l \in [1 .. m -> T]
      BY <1>1, <1>2, <1>3, <1>4, <1>6 DEF source
    <2> QED
      BY <2>1, SeqDef
  <1>10. Ents(l) \subseteq Ents(list)
    BY <1>1, <1>6, <1>8 DEF Ents
  <1>11. ASSUME Distinct(list) PROVE Distinct(l)
    <2> SUFFICES ASSUME NEW j \in 1 .. m, NEW k \in 1 .. m, l[j].salt = l[k].salt
                 PROVE  j = k
      BY <1>8 DEF Distinct
    <2>1. source(j) = source(k)
      BY <1>1, <1>6, <1>8, <1>11 DEF Distinct
    <2>2. source(j) \in Int
      BY <1>6
    <2> QED
      BY <1>7, <2>1, <2>2
  <1> QED
    BY <1>9, <1>10, <1>11

-----------------------------------------------------------------------------
(* Packets and endpoints *)

LEMMA Bounds ==
  /\ Timeout \in Nat /\ MaxConnects \in Nat /\ MaxPackets \in Nat /\ MaxSalts \in Nat
  /\ Timeout >= 1 /\ MaxConnects >= 1 /\ MaxPackets >= 1
  /\ Expired \in Nat /\ Expired >= 2 /\ Server \notin Addresses
  BY ConnectionAssumption DEF Expired, Server, Addresses

LEMMA SaltFacts ==
  /\ NoSalt \in Salts /\ NoSalt[1] = 0 /\ NoSalt[2] = 0
  /\ \A s \in Salts : s[1] \in 0 .. MaxConnects /\ s[2] \in 0 .. MaxSalts /\ s = <<s[1], s[2]>>
  /\ \A m \in 0 .. MaxConnects, n \in 0 .. MaxSalts :
       <<m, n>> \in Salts /\ <<m, n>>[1] = m /\ <<m, n>>[2] = n
  BY Bounds DEF Salts, NoSalt

LEMMA NewEndpointFacts ==
  /\ NewEndpoint \in Endpoints
  /\ NewEndpoint.sequence = 0 /\ NewEndpoint.seen = {} /\ NewEndpoint.outbox = {}
  BY Bounds DEF NewEndpoint, Endpoints

LEMMA PacketFacts ==
  ASSUME NEW to, NEW addr, NEW type, NEW id, NEW salt, NEW p, p = packet(to, addr, type, id, salt)
  PROVE  /\ p.to = to /\ p.addr = addr /\ p.type = type /\ p.id = id /\ p.salt = salt
         /\ to \in Addresses \cup {Server} /\ addr \in Addresses /\ type \in Types
            /\ id \in 0 .. MaxPackets /\ salt \in Salts => p \in Packets
  BY DEF packet, Packets

LEMMA PacketFields ==
  ASSUME NEW p \in Packets
  PROVE  /\ p.to \in Addresses \cup {Server} /\ p.addr \in Addresses /\ p.type \in Types
         /\ p.id \in 0 .. MaxPackets /\ p.salt \in Salts
  BY DEF Packets

LEMMA SendFacts ==
  ASSUME NEW pb \in Endpoints, can_send(pb), NEW to \in Addresses \cup {Server},
         NEW addr \in Addresses, NEW type \in Types, NEW salt \in Salts,
         NEW new, new = send_packet(pb, to, addr, type, salt)
  PROVE  /\ new \in Endpoints /\ new.seen = pb.seen
         /\ new.sequence >= pb.sequence /\ (Duplicating => new.sequence = pb.sequence + 1)
         /\ packet(to, addr, type, new.sequence, salt) \in Packets
         /\ new.outbox = pb.outbox \cup {packet(to, addr, type, new.sequence, salt)}
  <1>1. PICK k : /\ k = next_id(pb) /\ k \in 0 .. MaxPackets /\ k >= pb.sequence
                 /\ Duplicating => k = pb.sequence + 1
    BY Bounds DEF next_id, can_send, Endpoints
  <1>2. PICK p \in Packets : p = packet(to, addr, type, k, salt)
    BY <1>1, PacketFacts
  <1>3. new = [pb EXCEPT !.sequence = k, !.outbox = @ \cup {p}]
    BY <1>1, <1>2 DEF send_packet
  <1>4. /\ new \in Endpoints /\ new.seen = pb.seen /\ new.sequence = k
        /\ new.outbox = pb.outbox \cup {p}
    BY <1>1, <1>3 DEF Endpoints
  <1> QED
    BY <1>1, <1>2, <1>4

LEMMA ProcessedFacts ==
  ASSUME NEW pb \in Endpoints, NEW p \in Packets, NEW new, new = processed(pb, p)
  PROVE  /\ new \in Endpoints /\ new.sequence = pb.sequence /\ new.outbox = pb.outbox
         /\ pb.seen \subseteq new.seen /\ new.seen \subseteq pb.seen \cup {p.id}
  <1>1. PICK s : s = remember(pb.seen, p.id)
    OBVIOUS
  <1>2. s \in SUBSET (0 .. MaxPackets) /\ pb.seen \subseteq s /\ s \subseteq pb.seen \cup {p.id}
    BY <1>1, PacketFields DEF remember, Endpoints
  <1>3. new = [pb EXCEPT !.seen = s]
    BY <1>1 DEF processed
  <1>4. new \in Endpoints /\ new.sequence = pb.sequence /\ new.outbox = pb.outbox /\ new.seen = s
    BY <1>2, <1>3 DEF Endpoints
  <1> QED
    BY <1>2, <1>4

LEMMA DrainedFacts ==
  ASSUME NEW pb \in Endpoints, NEW new, new = drained(pb)
  PROVE  /\ new \in Endpoints /\ new.sequence = pb.sequence /\ new.seen = pb.seen
         /\ new.outbox = {}
  <1>1. new = [pb EXCEPT !.outbox = {}]
    BY DEF drained
  <1> QED
    BY <1>1 DEF Endpoints

LEMMA OlderFacts ==
  ASSUME NEW age \in 0 .. Expired
  PROVE  older(age) \in 0 .. Expired
  BY Bounds DEF older

-----------------------------------------------------------------------------
(* Types: the client's steps *)

LEMMA DisconnectedTypes ==
  ASSUME ClientTypes, NEW c \in Clients, NEW why \in {"Normal", "TimedOut"} \cup Denials,
         NEW now \in 0 .. Expired, NEW pb, disconnected(c, why, now, pb),
         clock' \in [Clients -> 0 .. Expired], UNCHANGED connects
  PROVE  ClientTypes'
  <1>1. state' \in [Clients -> {"SendingConnectionRequest", "SendingChallengeResponse",
                                "Connected", "Disconnected", "SelfInitiatedDisconnect"}]
    BY DEF ClientTypes, disconnected
  <1>2. endpoint' \in [Clients -> Endpoints] /\ \A d \in Clients : endpoint'[d].outbox = {}
    BY NewEndpointFacts DEF ClientTypes, disconnected, reset
  <1>3. xor_salt' \in [Clients -> Salts]
    BY SaltFacts DEF ClientTypes, disconnected
  <1>4. proto_due' \in [Clients -> BOOLEAN] /\ send_due' \in [Clients -> BOOLEAN]
    BY DEF ClientTypes, disconnected
  <1>5. /\ reason' \in [Clients -> {"Normal", "TimedOut"} \cup Denials]
        /\ client_salt' \in [Clients -> 0 .. MaxConnects]
        /\ receive_age' \in [Clients -> 0 .. Expired]
    BY Bounds DEF ClientTypes, disconnected
  <1>6. connects' \in [Clients -> 0 .. MaxConnects]
    BY DEF ClientTypes
  <1> QED
    BY <1>1, <1>2, <1>3, <1>4, <1>5, <1>6 DEF ClientTypes

LEMMA TransitionTypes ==
  ASSUME ClientTypes, NEW c \in Clients,
         NEW new \in {"SendingChallengeResponse", "Connected", "SelfInitiatedDisconnect"},
         NEW xor \in Salts, NEW pb \in Endpoints, pb.outbox = {}, state_transition(c, new, xor, pb),
         receive_age' \in [Clients -> 0 .. Expired], UNCHANGED <<clock, connects>>
  PROVE  ClientTypes'
  <1>1. state' \in [Clients -> {"SendingConnectionRequest", "SendingChallengeResponse",
                                "Connected", "Disconnected", "SelfInitiatedDisconnect"}]
    BY DEF ClientTypes, state_transition
  <1>2. endpoint' \in [Clients -> Endpoints] /\ \A d \in Clients : endpoint'[d].outbox = {}
    BY DEF ClientTypes, state_transition
  <1>3. xor_salt' \in [Clients -> Salts]
    BY DEF ClientTypes, state_transition
  <1>4. proto_due' \in [Clients -> BOOLEAN]
    BY DEF ClientTypes, state_transition
  <1> QED
    BY <1>1, <1>2, <1>3, <1>4 DEF ClientTypes, state_transition

LEMMA ConnectTypes ==
  ASSUME StateTypes, NEW c \in Clients, connect(c) \/ disconnect(c) \/ client_update(c)
  PROVE  ClientTypes' /\ net' \in SUBSET Packets
  <1>1. ClientTypes /\ net \in SUBSET Packets
    BY DEF StateTypes
  <1>2. CASE connect(c)
    <2>1. /\ connects' \in [Clients -> 0 .. MaxConnects]
          /\ client_salt' \in [Clients -> 0 .. MaxConnects]
      BY <1>1, <1>2, Bounds DEF ClientTypes, connect
    <2>2. /\ xor_salt' \in [Clients -> Salts]
          /\ reason' \in [Clients -> {"Normal", "TimedOut"} \cup Denials]
      BY <1>1, <1>2, SaltFacts DEF ClientTypes, connect
    <2>3. state' \in [Clients -> {"SendingConnectionRequest", "SendingChallengeResponse",
                                  "Connected", "Disconnected", "SelfInitiatedDisconnect"}]
      BY <1>1, <1>2 DEF ClientTypes, connect
    <2>4. proto_due' \in [Clients -> BOOLEAN]
      BY <1>1, <1>2 DEF ClientTypes, connect
    <2> QED
      BY <1>1, <1>2, <2>1, <2>2, <2>3, <2>4 DEF ClientTypes, connect
  <1>3. CASE disconnect(c)
    <2>1. UNCHANGED <<clock, connects, net>>
      BY <1>3 DEF disconnect
    <2>2. CASE state[c] \in {"Connected", "SendingChallengeResponse"}
      <3>1. /\ state_transition(c, "SelfInitiatedDisconnect", xor_salt[c], endpoint[c])
            /\ UNCHANGED receive_age
        BY <1>3, <2>2 DEF disconnect
      <3>2. xor_salt[c] \in Salts /\ endpoint[c] \in Endpoints /\ endpoint[c].outbox = {}
            /\ receive_age' \in [Clients -> 0 .. Expired]
        BY <1>1, <3>1 DEF ClientTypes
      <3> QED
        BY <1>1, <2>1, <3>1, <3>2, TransitionTypes
    <2>3. CASE state[c] \notin {"Connected", "SendingChallengeResponse"}
      <3>1. disconnected(c, "Normal", clock[c], endpoint[c])
        BY <1>3, <2>3 DEF disconnect
      <3>2. clock[c] \in 0 .. Expired /\ clock' \in [Clients -> 0 .. Expired]
        BY <1>1, <2>1 DEF ClientTypes
      <3> QED
        BY <1>1, <2>1, <3>1, <3>2, DisconnectedTypes
    <2> QED
      BY <2>2, <2>3
  <1>4. CASE client_update(c)
    <2>1. UNCHANGED <<connects, net>> /\ clock' = [clock EXCEPT ![c] = older(@)]
      BY <1>4 DEF client_update
    <2>2. /\ older(clock[c]) \in 0 .. Expired /\ clock' \in [Clients -> 0 .. Expired]
          /\ older(receive_age[c]) \in 0 .. Expired
      BY <1>1, <2>1, OlderFacts DEF ClientTypes
    <2>3. CASE may_time_out(c) /\ older(receive_age[c]) > Timeout
      <3>1. disconnected(c, "TimedOut", older(clock[c]), endpoint[c])
        BY <1>4, <2>3 DEF client_update
      <3> QED
        BY <1>1, <2>1, <2>2, <3>1, DisconnectedTypes
    <2>4. CASE ~ (may_time_out(c) /\ older(receive_age[c]) > Timeout)
      <3>1. /\ proto_due' = [proto_due EXCEPT ![c] = TRUE]
            /\ send_due' = [send_due EXCEPT ![c] = TRUE]
            /\ receive_age' = [receive_age EXCEPT ![c] = older(@)]
            /\ UNCHANGED <<state, reason, client_salt, xor_salt, endpoint>>
        BY <1>4, <2>4 DEF client_update
      <3>2. proto_due' \in [Clients -> BOOLEAN] /\ send_due' \in [Clients -> BOOLEAN]
        BY <1>1, <3>1 DEF ClientTypes
      <3>3. receive_age' \in [Clients -> 0 .. Expired]
        BY <1>1, <2>2, <3>1 DEF ClientTypes
      <3> QED
        BY <1>1, <2>1, <2>2, <3>1, <3>2, <3>3 DEF ClientTypes
    <2> QED
      BY <2>3, <2>4
  <1> QED
    BY <1>2, <1>3, <1>4

\* What the client sends.
LEMMA ClientSendFacts ==
  ASSUME StateTypes, NEW c \in Clients, NEW type \in Types, NEW salt \in Salts,
         client_send(c, type, salt)
  PROVE  \E n \in 0 .. MaxPackets, pb \in Endpoints :
           /\ n >= endpoint[c].sequence /\ (Duplicating => n = endpoint[c].sequence + 1)
           /\ pb.sequence = n /\ pb.seen = endpoint[c].seen /\ pb.outbox = {}
           /\ endpoint' = [endpoint EXCEPT ![c] = pb]
           /\ packet(Server, c, type, n, salt) \in Packets
           /\ net' = net \cup {packet(Server, c, type, n, salt)}
           /\ send_due' = [send_due EXCEPT ![c] = FALSE]
  <1>1. endpoint[c] \in Endpoints /\ endpoint[c].outbox = {}
    BY DEF StateTypes, ClientTypes
  <1>2. PICK sent : sent = send_packet(endpoint[c], Server, c, type, salt)
    OBVIOUS
  <1>3. /\ can_send(endpoint[c]) /\ endpoint' = [endpoint EXCEPT ![c] = drained(sent)]
        /\ net' = net \cup sent.outbox /\ send_due' = [send_due EXCEPT ![c] = FALSE]
    BY <1>2 DEF client_send
  <1>4. Server \in Addresses \cup {Server} /\ c \in Addresses
    BY DEF Addresses
  <1>5. /\ sent \in Endpoints /\ sent.seen = endpoint[c].seen
        /\ sent.sequence >= endpoint[c].sequence
        /\ (Duplicating => sent.sequence = endpoint[c].sequence + 1)
        /\ packet(Server, c, type, sent.sequence, salt) \in Packets
        /\ sent.outbox = endpoint[c].outbox \cup {packet(Server, c, type, sent.sequence, salt)}
    BY <1>1, <1>2, <1>3, <1>4, SendFacts
  <1>6. PICK pb \in Endpoints : pb = drained(sent) /\ pb.sequence = sent.sequence
                                /\ pb.seen = sent.seen /\ pb.outbox = {}
    BY <1>5, DrainedFacts
  <1>7. sent.sequence \in 0 .. MaxPackets
    BY <1>5 DEF Endpoints
  <1>8. sent.outbox = {packet(Server, c, type, sent.sequence, salt)}
    BY <1>1, <1>5
  <1> QED
    BY <1>3, <1>5, <1>6, <1>7, <1>8

\* The three packets of client_visit.
LEMMA ClientVisitFacts ==
  ASSUME StateTypes, NEW c \in Clients, client_visit(c)
  PROVE  /\ \E type \in Types, salt \in Salts :
              /\ client_send(c, type, salt)
              /\ \/ state[c] = "SendingConnectionRequest" /\ type = "ConnectionRequest"
                    /\ salt = <<client_salt[c], 0>>
                 \/ /\ state[c] \in {"SendingChallengeResponse", "Connected"}
                    /\ type \in {"ConnectionChallengeResponse", "KeepAlive"}
                    /\ salt = xor_salt[c]
         /\ \/ proto_due' = [proto_due EXCEPT ![c] = FALSE]
            \/ proto_due' = proto_due
         /\ UNCHANGED <<state, reason, client_salt, xor_salt, clock, receive_age, connects>>
         /\ UNCHANGED server_vars
  <1>1. xor_salt[c] \in Salts /\ <<client_salt[c], 0>> \in Salts
    BY SaltFacts, Bounds DEF StateTypes, ClientTypes
  <1>2. {"ConnectionRequest", "ConnectionChallengeResponse", "KeepAlive"} \subseteq Types
    BY DEF Types
  <1> QED
    BY <1>1, <1>2 DEF client_visit

LEMMA VisitTypes ==
  ASSUME StateTypes, NEW c \in Clients, client_visit(c) \/ client_visit_disconnecting(c)
  PROVE  ClientTypes' /\ net' \in SUBSET Packets
  <1>1. ClientTypes /\ net \in SUBSET Packets
    BY DEF StateTypes
  <1>2. CASE client_visit(c)
    <2>1. PICK type \in Types, salt \in Salts : client_send(c, type, salt)
      BY <1>2, ClientVisitFacts
    <2>2. PICK n \in 0 .. MaxPackets, pb \in Endpoints :
            /\ pb.outbox = {} /\ endpoint' = [endpoint EXCEPT ![c] = pb]
            /\ packet(Server, c, type, n, salt) \in Packets
            /\ net' = net \cup {packet(Server, c, type, n, salt)}
            /\ send_due' = [send_due EXCEPT ![c] = FALSE]
      BY <2>1, ClientSendFacts
    <2>3. endpoint' \in [Clients -> Endpoints] /\ \A d \in Clients : endpoint'[d].outbox = {}
      BY <1>1, <2>2 DEF ClientTypes
    <2>4. /\ UNCHANGED <<state, reason, client_salt, xor_salt, clock, receive_age, connects>>
          /\ \/ proto_due' = [proto_due EXCEPT ![c] = FALSE]
             \/ proto_due' = proto_due
      BY <1>2, ClientVisitFacts
    <2>5. proto_due' \in [Clients -> BOOLEAN] /\ send_due' \in [Clients -> BOOLEAN]
      BY <1>1, <2>2, <2>4 DEF ClientTypes
    <2>6. net' \in SUBSET Packets
      BY <1>1, <2>2
    <2> QED
      BY <1>1, <2>3, <2>4, <2>5, <2>6 DEF ClientTypes
  <1>3. CASE client_visit_disconnecting(c)
    <2>1. PICK pb : disconnected(c, "Normal", clock[c], pb)
      BY <1>3 DEF client_visit_disconnecting
    <2>2. UNCHANGED <<clock, connects>> /\ net' = net \cup endpoint'[c].outbox
      BY <1>3 DEF client_visit_disconnecting
    <2>3. clock[c] \in 0 .. Expired /\ clock' \in [Clients -> 0 .. Expired]
      BY <1>1, <2>2 DEF ClientTypes
    <2>4. ClientTypes'
      BY <1>1, <2>1, <2>2, <2>3, DisconnectedTypes
    <2>5. endpoint'[c].outbox = {}
      BY <2>4 DEF ClientTypes
    <2> QED
      BY <1>1, <2>2, <2>4, <2>5
  <1> QED
    BY <1>2, <1>3

LEMMA ReceiveTypes ==
  ASSUME StateTypes, NEW c \in Clients, NEW p \in net, client_receive(c, p)
  PROVE  ClientTypes' /\ net' \in SUBSET Packets
  <1>1. ClientTypes /\ net \in SUBSET Packets /\ p \in Packets
    BY DEF StateTypes
  <1>2. UNCHANGED <<clock, connects>> /\ net' = delivered(p)
    BY DEF client_receive
  <1>3. net' \in SUBSET Packets
    BY <1>1, <1>2 DEF delivered
  <1>4. PICK pb : pb = processed(endpoint[c], p)
    OBVIOUS
  <1>5. pb \in Endpoints /\ pb.outbox = {} /\ p.salt \in Salts /\ xor_salt[c] \in Salts
    BY <1>1, <1>4, ProcessedFacts, PacketFields DEF ClientTypes
  <1>6. ASSUME receive_age' = [receive_age EXCEPT ![c] = 0]
        PROVE  receive_age' \in [Clients -> 0 .. Expired]
    BY <1>1, <1>6, Bounds DEF ClientTypes
  <1>7. CASE client_receive_challenge(c, p)
    <2>1. receive_age' \in [Clients -> 0 .. Expired]
      BY <1>6, <1>7 DEF client_receive_challenge
    <2>2. CASE is_new(endpoint[c], p)
      <3>1. state_transition(c, "SendingChallengeResponse", p.salt, pb)
        BY <1>4, <1>7, <2>2 DEF client_receive_challenge
      <3> QED
        BY <1>1, <1>2, <1>3, <1>5, <2>1, <3>1, TransitionTypes
    <2>3. CASE ~ is_new(endpoint[c], p)
      <3>1. /\ xor_salt' = [xor_salt EXCEPT ![c] = p.salt]
            /\ UNCHANGED <<state, reason, client_salt, proto_due, send_due, endpoint>>
        BY <1>7, <2>3 DEF client_receive_challenge
      <3>2. xor_salt' \in [Clients -> Salts]
        BY <1>1, <1>5, <3>1 DEF ClientTypes
      <3> QED
        BY <1>1, <1>2, <1>3, <2>1, <3>1, <3>2 DEF ClientTypes
    <2> QED
      BY <2>2, <2>3
  <1>8. CASE client_receive_denied(c, p)
    <2>1. p.type \in Denials /\ disconnected(c, p.type, clock[c], endpoint[c])
      BY <1>8 DEF client_receive_denied, denied_expected
    <2>2. clock[c] \in 0 .. Expired /\ clock' \in [Clients -> 0 .. Expired]
      BY <1>1, <1>2 DEF ClientTypes
    <2> QED
      BY <1>1, <1>2, <1>3, <2>1, <2>2, DisconnectedTypes
  <1>9. CASE client_receive_session(c, p)
    <2>1. receive_age' \in [Clients -> 0 .. Expired]
      BY <1>6, <1>9 DEF client_receive_session
    <2>2. CASE state[c] = "SendingChallengeResponse"
      <3>1. state_transition(c, "Connected", xor_salt[c], pb)
        BY <1>4, <1>9, <2>2 DEF client_receive_session
      <3> QED
        BY <1>1, <1>2, <1>3, <1>5, <2>1, <3>1, TransitionTypes
    <2>3. CASE state[c] # "SendingChallengeResponse"
      <3>1. /\ endpoint' = [endpoint EXCEPT ![c] = pb]
            /\ UNCHANGED <<state, reason, client_salt, xor_salt, proto_due, send_due>>
        BY <1>1, <1>4, <1>9, <2>3 DEF client_receive_session, ClientTypes
      <3>2. endpoint' \in [Clients -> Endpoints] /\ \A d \in Clients : endpoint'[d].outbox = {}
        BY <1>1, <1>5, <3>1 DEF ClientTypes
      <3> QED
        BY <1>1, <1>2, <1>3, <2>1, <3>1, <3>2 DEF ClientTypes
    <2> QED
      BY <2>2, <2>3
  <1>10. CASE client_receive_other(c, p)
    <2>1. receive_age' \in [Clients -> 0 .. Expired]
      BY <1>6, <1>10 DEF client_receive_other
    <2> QED
      BY <1>1, <1>2, <1>3, <1>10, <2>1 DEF ClientTypes, client_receive_other
  <1> QED
    BY <1>7, <1>8, <1>9, <1>10 DEF client_receive

-----------------------------------------------------------------------------
(* The server's lists *)

LEMMA EntryFields ==
  ASSUME NEW e \in Entries
  PROVE  /\ e.addr \in Addresses /\ e.salt \in Salts /\ e.age \in 0 .. Expired
         /\ e.endpoint \in Endpoints /\ e.endpoint.sequence \in 0 .. MaxPackets
         /\ e.endpoint.seen \in SUBSET (0 .. MaxPackets)
         /\ e.endpoint.outbox \in SUBSET Packets
  BY DEF Entries, Endpoints

LEMMA EntryUpdate ==
  ASSUME NEW e \in Entries, NEW age \in 0 .. Expired, NEW pb \in Endpoints,
         NEW f, f = [e EXCEPT !.age = age, !.endpoint = pb]
  PROVE  /\ f \in Entries /\ f.addr = e.addr /\ f.salt = e.salt /\ f.age = age
         /\ f.endpoint = pb
  BY DEF Entries

LEMMA GrownSelf ==
  ASSUME NEW e \in Entries, NEW kinds
  PROVE  Grown(e, e, kinds)
  <1>1. e.endpoint.sequence \in Int
    BY EntryFields
  <1> QED
    BY <1>1 DEF Grown

\* An entry that has processed p.
LEMMA GrownHeard ==
  ASSUME NEW e \in Entries, NEW f \in Entries, NEW kinds, NEW p \in net, p \in Packets,
         Heard(e, p), f.addr = e.addr, f.salt = e.salt, f.endpoint = processed(e.endpoint, p)
  PROVE  Grown(e, f, kinds)
  <1>1. e.endpoint \in Endpoints
    BY EntryFields
  <1>2. /\ f.endpoint.sequence = e.endpoint.sequence /\ f.endpoint.outbox = e.endpoint.outbox
        /\ f.endpoint.seen \subseteq e.endpoint.seen \cup {p.id}
    BY <1>1, ProcessedFacts
  <1>3. f.endpoint.sequence >= e.endpoint.sequence
    BY <1>2, EntryFields
  <1> QED
    BY <1>2, <1>3 DEF Grown

\* An entry that has queued a packet.
LEMMA GrownSaid ==
  ASSUME NEW e \in Entries, can_send(e.endpoint), NEW kinds \in SUBSET Types, NEW type \in kinds,
         NEW pb, pb = send_packet(e.endpoint, e.addr, e.addr, type, e.salt)
  PROVE  /\ pb \in Endpoints
         /\ \A f \in Entries : f.addr = e.addr /\ f.salt = e.salt /\ f.endpoint = pb =>
              Grown(e, f, kinds)
  <1>1. /\ e.endpoint \in Endpoints /\ e.addr \in Addresses /\ e.salt \in Salts
        /\ e.addr \in Addresses \cup {Server} /\ type \in Types
    BY EntryFields
  <1>2. /\ pb \in Endpoints /\ pb.seen = e.endpoint.seen
        /\ pb.sequence >= e.endpoint.sequence
        /\ Duplicating => pb.sequence = e.endpoint.sequence + 1
        /\ pb.outbox = e.endpoint.outbox \cup {packet(e.addr, e.addr, type, pb.sequence, e.salt)}
    BY <1>1, SendFacts
  <1>3. PICK q : q = packet(e.addr, e.addr, type, pb.sequence, e.salt)
    OBVIOUS
  <1>4. q.to = e.addr /\ q.addr = e.addr /\ q.type = type /\ q.id = pb.sequence /\ q.salt = e.salt
    BY <1>3, PacketFacts
  <1>5. Duplicating => pb.sequence > e.endpoint.sequence
    BY <1>2, EntryFields
  <1>6. ASSUME NEW f \in Entries, f.addr = e.addr, f.salt = e.salt, f.endpoint = pb
        PROVE  Grown(e, f, kinds)
    <2>1. \A x \in f.endpoint.outbox : x \in e.endpoint.outbox \/ x = q
      BY <1>2, <1>3, <1>6
    <2>2. Said(f, q) /\ q.type \in kinds
      BY <1>4, <1>6 DEF Said
    <2> QED
      BY <1>2, <1>5, <1>6, <2>1, <2>2 DEF Grown
  <1> QED
    BY <1>2, <1>6

LEMMA GrownList ==
  ASSUME NEW list \in Seq(Entries), NEW l \in [DOMAIN list -> Entries], NEW kinds,
         \A i \in DOMAIN list : Grown(list[i], l[i], kinds)
  PROVE  Follows(list, l, kinds)
  <1>1. PICK n \in Nat : DOMAIN list = 1 .. n
    BY LenProperties
  <1>2. l \in Seq(Entries)
    BY <1>1, SeqDef
  <1>3. DOMAIN l = DOMAIN list
    OBVIOUS
  <1>4. \A f \in Ents(l) : \E e \in Ents(list) : Grown(e, f, kinds)
    BY <1>3 DEF Ents
  <1>5. \A i \in DOMAIN list : l[i].salt = list[i].salt
    BY DEF Grown
  <1> QED
    BY <1>2, <1>3, <1>4, <1>5, SameSalts DEF Follows

LEMMA ListEntries ==
  ASSUME NEW list \in Seq(Entries)
  PROVE  /\ \A i \in DOMAIN list : list[i] \in Entries /\ list[i] \in Ents(list)
         /\ \A e \in Ents(list) : e \in Entries
         /\ DOMAIN list \in SUBSET Nat
  <1>1. PICK n \in Nat : DOMAIN list = 1 .. n /\ \A i \in 1 .. n : list[i] \in Entries
    BY LenProperties
  <1> QED
    BY <1>1 DEF Ents

\* One entry changed in place.
LEMMA GrownAt ==
  ASSUME NEW list \in Seq(Entries), NEW i \in DOMAIN list, NEW f \in Entries, NEW kinds,
         Grown(list[i], f, kinds), NEW l, l = [list EXCEPT ![i] = f]
  PROVE  Follows(list, l, kinds)
  <1>1. /\ \A j \in DOMAIN list : list[j] \in Entries
        /\ DOMAIN l = DOMAIN list
    BY ListEntries
  <1>2. l \in [DOMAIN list -> Entries] /\ \A j \in DOMAIN list : l[j] = IF j = i THEN f ELSE list[j]
    <2>1. list \in [DOMAIN list -> Entries]
      <3>1. PICK n \in Nat : DOMAIN list = 1 .. n /\ list \in [1 .. n -> Entries]
        BY LenProperties
      <3> QED
        BY <3>1
    <2> QED
      BY <2>1
  <1>3. \A j \in DOMAIN list : Grown(list[j], l[j], kinds)
    BY <1>1, <1>2, GrownSelf
  <1> QED
    BY <1>2, <1>3, GrownList

\* One list as it was.
LEMMA SameList ==
  ASSUME NEW list \in Seq(Entries), NEW kinds
  PROVE  Follows(list, list, kinds)
  BY ListEntries, GrownSelf DEF Follows

LEMMA TickedGrows ==
  ASSUME NEW e \in Entries, NEW kinds \in SUBSET Types, NEW type \in kinds, NEW due \in BOOLEAN,
         NEW f, f = ticked(e, type, due)
  PROVE  f \in Entries /\ Grown(e, f, kinds)
  <1>1. e.endpoint \in Endpoints /\ older(e.age) \in 0 .. Expired
    BY EntryFields, OlderFacts
  <1>2. CASE due /\ can_send(e.endpoint)
    <2>1. PICK pb : pb = send_packet(e.endpoint, e.addr, e.addr, type, e.salt)
      OBVIOUS
    <2>2. /\ pb \in Endpoints
          /\ \A g \in Entries : g.addr = e.addr /\ g.salt = e.salt /\ g.endpoint = pb =>
               Grown(e, g, kinds)
      BY <1>2, <2>1, GrownSaid
    <2>3. f = [e EXCEPT !.age = older(e.age), !.endpoint = pb]
      BY <1>2, <2>1 DEF ticked, Entries
    <2>4. f \in Entries /\ f.addr = e.addr /\ f.salt = e.salt /\ f.endpoint = pb
      BY <1>1, <2>2, <2>3 DEF Entries
    <2> QED
      BY <2>2, <2>4
  <1>3. CASE ~ (due /\ can_send(e.endpoint))
    <2>1. f = [e EXCEPT !.age = older(e.age), !.endpoint = e.endpoint]
      BY <1>3 DEF ticked, Entries
    <2>2. f \in Entries /\ f.addr = e.addr /\ f.salt = e.salt /\ f.endpoint = e.endpoint
      BY <1>1, <2>1 DEF Entries
    <2>3. f.endpoint.sequence >= e.endpoint.sequence
      BY <2>2, EntryFields
    <2> QED
      BY <2>2, <2>3 DEF Grown
  <1> QED
    BY <1>2, <1>3

-----------------------------------------------------------------------------
(* The server's steps *)

LEMMA ServerFacts ==
  ASSUME StateTypes
  PROVE  /\ pending \in Seq(Entries) /\ connected \in Seq(Entries) /\ outbox \in SUBSET Packets
         /\ salts \in SUBSET (1 .. MaxSalts) /\ opened \in SUBSET Salts /\ net \in SUBSET Packets
         /\ \A e \in entries : e \in Entries
         /\ \A p \in made : p \in Packets
  <1>1. /\ pending \in Seq(Entries) /\ connected \in Seq(Entries) /\ outbox \in SUBSET Packets
        /\ salts \in SUBSET (1 .. MaxSalts) /\ opened \in SUBSET Salts /\ net \in SUBSET Packets
    BY DEF StateTypes, ServerTypes
  <1>2. \A e \in entries : e \in Entries
    BY <1>1, ListEntries DEF entries
  <1>3. \A p \in made : p \in Packets
    BY <1>1, <1>2, EntryFields DEF made
  <1> QED
    BY <1>1, <1>2, <1>3

\* A step that opens no session and starts no handshake.
LEMMA QuietStep ==
  ASSUME StateTypes, Follows(pending, pending', Challenges),
         Follows(connected, connected', Announcements), outbox' \in SUBSET Packets,
         net' \subseteq made, \A p \in outbox' : p \in outbox \/ Denial(p),
         UNCHANGED <<client_vars, salts, opened>>
  PROVE  ServerStep
  <1> USE DEF Follows
  <1>1. ServerTypes' /\ net' \in SUBSET Packets
    BY ServerFacts DEF ServerTypes
  <1>2. \A f \in Ents(connected') : \E e \in entries : Grown(e, f, Announcements)
    BY DEF entries
  <1>3. ASSUME SessionsOnce PROVE SessionsOnce'
    <2>1. /\ \A f \in Ents(pending') : \E e \in Ents(pending) : e.salt = f.salt
          /\ \A f \in Ents(connected') : \E e \in Ents(connected) : e.salt = f.salt
      BY DEF Grown
    <2>2. Distinct(pending)' /\ Distinct(connected)'
      BY <1>3 DEF SessionsOnce, Distinct
    <2>3. /\ \A f \in Ents(connected)' : f.salt \in opened' /\ f.salt[2] \in salts'
          /\ \A f \in Ents(pending)' : f.salt \notin opened' /\ f.salt[2] \in salts'
      BY <1>3, <2>1 DEF SessionsOnce, entries, Ents
    <2> QED
      BY <1>3, <2>2, <2>3 DEF SessionsOnce, entries, Ents
  <1>4. ASSUME Duplicating, SessionsOnce PROVE OneFresh
    BY <1>4 DEF SessionsOnce, entries, Grown, Fresh, OneFresh
  <1> QED
    BY <1>1, <1>2, <1>3, <1>4 DEF ServerStep

LEMMA KindsAreTypes ==
  /\ Challenges \in SUBSET Types /\ Announcements \in SUBSET Types
  /\ "ConnectionChallenge" \in Challenges /\ "KeepAlive" \in Announcements
  /\ "Messages" \in Announcements
  BY DEF Challenges, Announcements, Types

LEMMA OutboxesMade ==
  /\ net \subseteq made /\ outbox \subseteq made
  /\ outboxes(pending) \subseteq made /\ outboxes(connected) \subseteq made
  BY DEF made, entries, Ents, outboxes

LEMMA UpdateStep ==
  ASSUME StateTypes, server_update
  PROVE  ServerStep
  <1>1. /\ pending \in Seq(Entries) /\ connected \in Seq(Entries)
        /\ \A i \in DOMAIN pending : pending[i] \in Entries
        /\ \A i \in DOMAIN connected : connected[i] \in Entries
    BY ServerFacts, ListEntries
  <1>2. PICK challenged : challenged = [i \in DOMAIN pending |->
          ticked(pending[i], "ConnectionChallenge", i \notin timed_out(pending))]
    OBVIOUS
  <1>3. \A i \in DOMAIN pending :
          challenged[i] \in Entries /\ Grown(pending[i], challenged[i], Challenges)
    BY <1>1, <1>2, TickedGrows, KindsAreTypes
  <1>4. /\ challenged \in Seq(Entries) /\ DOMAIN challenged = DOMAIN pending
        /\ Follows(pending, challenged, Challenges)
    <2>1. challenged \in [DOMAIN pending -> Entries]
      BY <1>2, <1>3
    <2>2. Follows(pending, challenged, Challenges)
      BY <1>1, <1>3, <2>1, GrownList
    <2> QED
      BY <2>1, <2>2 DEF Follows
  <1>5. /\ pending' = remove_in_turn(challenged, timed_out(pending)).list
        /\ UNCHANGED <<client_vars, outbox, salts, opened, net>>
    BY <1>2 DEF server_update
  <1>6. /\ pending' \in Seq(Entries) /\ Ents(pending') \subseteq Ents(challenged)
        /\ Distinct(challenged) => Distinct(pending')
    <2>1. timed_out(pending) \in SUBSET DOMAIN challenged
      BY <1>4 DEF timed_out
    <2> QED
      BY <1>4, <1>5, <2>1, RemoveList
  <1>7. PICK left, panic : /\ left = remove_in_turn(connected, timed_out(connected)).list
                           /\ panic \in BOOLEAN
                           /\ \/ connected' = connected
                              \/ connected' = [i \in DOMAIN left |-> ticked(left[i], "KeepAlive", ~ panic)]
    <2>1. remove_in_turn(connected, timed_out(connected)).panic \in BOOLEAN
      BY DEF remove_in_turn
    <2> QED
      BY <2>1 DEF server_update
  <1>8. /\ left \in Seq(Entries) /\ Ents(left) \subseteq Ents(connected)
        /\ Distinct(connected) => Distinct(left)
    <2>1. timed_out(connected) \in SUBSET DOMAIN connected
      BY DEF timed_out
    <2> QED
      BY <1>1, <1>7, <2>1, RemoveList
  <1>9. Follows(connected, connected', Announcements)
    <2>1. CASE connected' = connected
      BY <1>1, <2>1, SameList
    <2>2. CASE connected' = [i \in DOMAIN left |-> ticked(left[i], "KeepAlive", ~ panic)]
      <3>1. \A i \in DOMAIN left : left[i] \in Entries
        BY <1>8, ListEntries
      <3>2. (~ panic) \in BOOLEAN
        OBVIOUS
      <3>3. \A i \in DOMAIN left :
              connected'[i] \in Entries /\ Grown(left[i], connected'[i], Announcements)
        BY <2>2, <3>1, <3>2, TickedGrows, KindsAreTypes
      <3>4. connected' \in [DOMAIN left -> Entries]
        BY <2>2, <3>3
      <3>5. Follows(left, connected', Announcements)
        BY <1>8, <3>3, <3>4, GrownList
      <3> QED
        BY <1>8, <3>5 DEF Follows
    <2> QED
      BY <1>7, <2>1, <2>2
  <1>10. Follows(pending, pending', Challenges)
    BY <1>4, <1>6 DEF Follows
  <1>11. /\ net' \subseteq made /\ outbox' \in SUBSET Packets
         /\ \A p \in outbox' : p \in outbox \/ Denial(p)
    BY <1>5, ServerFacts, OutboxesMade
  <1> QED
    BY <1>5, <1>9, <1>10, <1>11, QuietStep

\* The visit empties the outboxes into the network.
LEMMA VisitedList ==
  ASSUME NEW list \in Seq(Entries), NEW kinds, NEW l, l = visited(list)
  PROVE  Follows(list, l, kinds)
  <1>1. \A i \in DOMAIN list : list[i] \in Entries
    BY ListEntries
  <1>2. ASSUME NEW i \in DOMAIN list
        PROVE  l[i] \in Entries /\ Grown(list[i], l[i], kinds)
    <2>0. PICK e \in Entries : e = list[i]
      BY <1>1
    <2>1. PICK pb : e = list[i] /\ pb = drained(e.endpoint)
      BY <2>0
    <2>2. e.endpoint \in Endpoints /\ e.endpoint.sequence \in Int
      BY EntryFields
    <2>3. /\ pb \in Endpoints /\ pb.sequence = e.endpoint.sequence
          /\ pb.seen = e.endpoint.seen /\ pb.outbox = {}
      BY <2>1, <2>2, DrainedFacts
    <2>4. l[i] = [e EXCEPT !.endpoint = pb]
      BY <2>1 DEF visited, Entries
    <2>5. l[i] \in Entries /\ l[i].addr = e.addr /\ l[i].salt = e.salt /\ l[i].endpoint = pb
      BY <2>3, <2>4 DEF Entries
    <2>6. Grown(e, l[i], kinds)
      BY <2>2, <2>3, <2>5 DEF Grown
    <2> QED
      BY <2>1, <2>5, <2>6
  <1>3. l \in [DOMAIN list -> Entries]
    <2>1. l = [i \in DOMAIN list |-> l[i]]
      BY DEF visited
    <2> QED
      BY <1>2, <2>1
  <1> QED
    BY <1>2, <1>3, GrownList

LEMMA VisitStep ==
  ASSUME StateTypes, server_visit
  PROVE  ServerStep
  <1>1. pending \in Seq(Entries) /\ connected \in Seq(Entries)
    BY ServerFacts
  <1>2. /\ pending' = visited(pending) /\ connected' = visited(connected) /\ outbox' = {}
        /\ net' = net \cup outbox \cup outboxes(pending) \cup outboxes(connected)
        /\ UNCHANGED <<client_vars, salts, opened>>
    BY DEF server_visit
  <1>3. Follows(pending, pending', Challenges)
    BY <1>1, <1>2, VisitedList
  <1>4. Follows(connected, connected', Announcements)
    BY <1>1, <1>2, VisitedList
  <1>5. /\ net' \subseteq made /\ outbox' \in SUBSET Packets
        /\ \A p \in outbox' : p \in outbox \/ Denial(p)
    BY <1>2, OutboxesMade
  <1> QED
    BY <1>2, <1>3, <1>4, <1>5, QuietStep

\* A client on a list that has processed p; its age does not matter.
LEMMA HeardAt ==
  ASSUME NEW list \in Seq(Entries), NEW i \in DOMAIN list, NEW p \in net, p \in Packets,
         Heard(list[i], p), NEW kinds, NEW age \in 0 .. Expired,
         NEW f, f = [list[i] EXCEPT !.age = age, !.endpoint = processed(list[i].endpoint, p)],
         NEW l, l = [list EXCEPT ![i] = f]
  PROVE  Follows(list, l, kinds)
  <1>0. PICK e \in Entries : e = list[i]
    BY ListEntries
  <1>1. PICK pb : e = list[i] /\ pb = processed(e.endpoint, p)
    BY <1>0
  <1>2. pb \in Endpoints
    BY <1>1, EntryFields, ProcessedFacts
  <1>3. f = [e EXCEPT !.age = age, !.endpoint = pb]
    BY <1>1
  <1>4. f \in Entries /\ f.addr = e.addr /\ f.salt = e.salt /\ f.endpoint = pb
    BY <1>2, <1>3 DEF Entries
  <1>5. Heard(e, p)
    BY <1>1
  <1>6. Grown(e, f, kinds)
    BY <1>1, <1>4, <1>5, GrownHeard
  <1>7. Grown(list[i], f, kinds)
    BY <1>1, <1>6
  <1>8. f \in Entries
    BY <1>4
  <1> QED
    BY <1>7, <1>8, GrownAt

LEMMA DenyFacts ==
  ASSUME StateTypes, NEW p \in Packets, NEW why \in Denials, deny(p, why)
  PROVE  outbox' \in SUBSET Packets /\ \A q \in outbox' : q \in outbox \/ Denial(q)
  <1>1. PICK d : d = packet(p.addr, p.addr, why, 0, NoSalt)
    OBVIOUS
  <1>2. p.addr \in Addresses /\ p.addr # Server /\ why \in Types /\ 0 \in 0 .. MaxPackets
    BY PacketFields, Bounds DEF Types
  <1>3. d \in Packets /\ Denial(d)
    BY <1>1, <1>2, PacketFacts, SaltFacts DEF Denial
  <1>4. outbox' = outbox \cup {d}
    BY <1>1 DEF deny
  <1> QED
    BY <1>3, <1>4, ServerFacts

LEMMA RequestStep ==
  ASSUME StateTypes, NEW p \in net, p.to = Server, server_receive_request(p),
         net' \subseteq net, UNCHANGED client_vars
  PROVE  ServerStep
  <1>1. /\ pending \in Seq(Entries) /\ connected \in Seq(Entries) /\ p \in Packets
        /\ salts \in SUBSET (1 .. MaxSalts) /\ net' \subseteq made
        /\ outbox \in SUBSET Packets /\ DOMAIN pending \in SUBSET Nat
    BY ServerFacts, ListEntries, OutboxesMade
  <1>2. /\ p.type = "ConnectionRequest" /\ UNCHANGED <<connected, outbox, opened>>
    BY DEF server_receive_request, same_version
  <1>3. PICK known : known = {i \in DOMAIN pending : /\ pending[i].salt[1] = p.salt[1]
                                                      /\ pending[i].addr = p.addr}
    OBVIOUS
  <1>4. CASE known # {}
    <2>1. PICK k \in DOMAIN pending : /\ k = first(known) /\ pending[k].salt[1] = p.salt[1]
                                      /\ pending[k].addr = p.addr
      <3>1. known \in SUBSET Nat
        BY <1>1, <1>3
      <3>2. first(known) \in known
        BY <1>4, <3>1, FirstIn
      <3> QED
        BY <1>3, <3>2
    <2>2. /\ pending' = [pending EXCEPT ![k].endpoint = processed(@, p)]
          /\ UNCHANGED salts
      BY <1>3, <1>4, <2>1 DEF server_receive_request
    <2>3. pending[k] \in Entries /\ pending[k].age \in 0 .. Expired
      BY <1>1, ListEntries, EntryFields
    <2>4. PICK f : f = [pending[k] EXCEPT !.age = pending[k].age,
                                          !.endpoint = processed(pending[k].endpoint, p)]
      OBVIOUS
    <2>5. Heard(pending[k], p) /\ pending' = [pending EXCEPT ![k] = f]
      BY <1>2, <2>1, <2>2, <2>3, <2>4 DEF Heard, Entries
    <2>6. Follows(pending, pending', Challenges)
      BY <1>1, <2>3, <2>4, <2>5, HeardAt
    <2>7. Follows(connected, connected', Announcements)
      BY <1>1, <1>2, SameList
    <2>8. outbox' \in SUBSET Packets /\ \A q \in outbox' : q \in outbox \/ Denial(q)
      BY <1>1, <1>2
    <2> QED
      BY <1>1, <1>2, <2>2, <2>6, <2>7, <2>8, QuietStep
  <1>5. CASE known = {}
    <2>1. PICK s : /\ s = first(fresh_salts) /\ s \in 1 .. MaxSalts /\ (Duplicating => s \notin salts)
      <3>1. fresh_salts # {} /\ fresh_salts \in SUBSET Nat
        BY <1>3, <1>5 DEF server_receive_request, fresh_salts
      <3>2. first(fresh_salts) \in fresh_salts
        BY <3>1, FirstIn
      <3> QED
        BY <3>2 DEF fresh_salts
    <2>2. PICK f : f = [addr |-> p.addr, salt |-> <<p.salt[1], s>>, age |-> 0,
                        endpoint |-> processed(NewEndpoint, p)]
      OBVIOUS
    <2>3. salts' = remember(salts, s) /\ pending' = Append(pending, f)
      BY <1>3, <1>5, <2>1, <2>2 DEF server_receive_request
    <2>4. PICK pb : /\ pb = processed(NewEndpoint, p) /\ pb \in Endpoints
                    /\ pb.sequence = 0 /\ pb.outbox = {} /\ pb.seen \subseteq {p.id}
      BY <1>1, ProcessedFacts, NewEndpointFacts
    <2>5. /\ p.salt \in Salts /\ p.salt[1] \in 0 .. MaxConnects /\ s \in 0 .. MaxSalts
          /\ p.addr \in Addresses /\ 0 \in 0 .. Expired
      BY <1>1, <2>1, PacketFields, SaltFacts, Bounds
    <2>6. /\ <<p.salt[1], s>> \in Salts /\ <<p.salt[1], s>>[1] = p.salt[1]
          /\ <<p.salt[1], s>>[2] = s
      BY <2>5, SaltFacts
    <2>7. /\ f \in Entries /\ f.addr = p.addr /\ f.salt[1] = p.salt[1] /\ f.salt[2] = s
          /\ f.endpoint = pb
      BY <2>2, <2>4, <2>5, <2>6 DEF Entries
    <2>8. Fresh(f)
      BY <1>2, <2>1, <2>4, <2>7 DEF Fresh
    <2>9. /\ pending' \in Seq(Entries) /\ \A g \in Ents(pending') : g \in Ents(pending) \/ g = f
          /\ Distinct(pending) /\ (\A g \in Ents(pending) : g.salt # f.salt) => Distinct(pending')
      <3>1. pending \in Seq(Entries) /\ f \in Entries /\ pending' = Append(pending, f)
        BY <1>1, <2>3, <2>7
      <3>2. pending' \in Seq(Entries)
        BY <3>1, AppendList
      <3>3. \A g \in Ents(pending') : g \in Ents(pending) \/ g = f
        BY <3>1, AppendList
      <3>4. ASSUME Distinct(pending), \A g \in Ents(pending) : g.salt # f.salt
            PROVE  Distinct(pending')
        BY <3>1, <3>4, AppendList
      <3> QED
        BY <3>2, <3>3, <3>4
    <2>10. /\ salts' \in SUBSET (1 .. MaxSalts) /\ salts \subseteq salts'
           /\ Duplicating => s \in salts'
      BY <1>1, <2>1, <2>3 DEF remember
    <2>11. ServerTypes' /\ net' \in SUBSET Packets
      BY <1>1, <1>2, <2>9, <2>10, ServerFacts DEF ServerTypes
    <2>12. /\ \A g \in Ents(pending') : (\E e \in Ents(pending) : Grown(e, g, Challenges)) \/ Fresh(g)
           /\ \A g \in Ents(connected') : \E e \in entries : Grown(e, g, Announcements)
      BY <1>1, <1>2, <2>8, <2>9, SameList DEF entries, Follows
    <2>13. ASSUME Duplicating, SessionsOnce PROVE SessionsOnce'
      <3>1. s \notin salts /\ s \in salts'
        BY <2>1, <2>10, <2>13
      <3>2. \A g \in Ents(pending) : g.salt # f.salt
        BY <2>7, <2>13, <3>1 DEF SessionsOnce, entries
      <3>3. f.salt \notin opened
        BY <2>7, <2>13, <3>1 DEF SessionsOnce
      <3>4. Distinct(pending') /\ Distinct(connected')
        BY <1>2, <2>9, <2>13, <3>2 DEF SessionsOnce
      <3>5. /\ \A g \in Ents(pending') : g.salt \notin opened /\ g.salt[2] \in salts'
            /\ \A g \in Ents(connected') : g.salt \in opened /\ g.salt[2] \in salts'
            /\ \A t \in opened : t[2] \in salts'
        BY <1>2, <2>7, <2>9, <2>10, <2>13, <3>1, <3>3 DEF SessionsOnce, entries
      <3> QED
        BY <1>2, <3>4, <3>5 DEF SessionsOnce, entries, Ents, Distinct
    <2>14. ASSUME Duplicating, SessionsOnce PROVE OneFresh
      <3>1. \A g \in Ents(pending') : Fresh(g) => g = f
        BY <2>9, <2>14 DEF SessionsOnce, entries, Fresh
      <3> QED
        BY <3>1 DEF OneFresh
    <2> QED
      BY <1>1, <1>2, <2>10, <2>11, <2>12, <2>13, <2>14 DEF ServerStep
  <1> QED
    BY <1>4, <1>5

\* The first of a set of places of a list is one of them.
LEMMA FirstPlace ==
  ASSUME NEW list \in Seq(Entries), NEW places \in SUBSET DOMAIN list, places # {}
  PROVE  first(places) \in places /\ first(places) \in DOMAIN list
  <1>1. places \in SUBSET Nat
    BY ListEntries
  <1>2. first(places) \in places
    BY <1>1, FirstIn
  <1> QED
    BY <1>2

\* A list less one client, by drop.
LEMMA DropFollows ==
  ASSUME NEW list \in Seq(Entries), NEW i \in DOMAIN list, NEW kinds, NEW l, l = drop(list, i)
  PROVE  Follows(list, l, kinds)
  <1>1. l \in Seq(Entries) /\ Ents(l) \subseteq Ents(list)
    BY DropList
  <1>2. Distinct(list) => Distinct(l)
    BY DropList
  <1>3. \A e \in Ents(list) : Grown(e, e, kinds)
    BY ListEntries, GrownSelf
  <1> QED
    BY <1>1, <1>2, <1>3 DEF Follows

\* A pending client becomes a connected one.
LEMMA OpeningStep ==
  ASSUME StateTypes, NEW p \in net, p.to = Server, p.type = "ConnectionChallengeResponse",
         NEW i \in DOMAIN pending, pending[i].salt = p.salt, pending[i].addr = p.addr,
         can_send(pending[i].endpoint), pending' = drop(pending, i),
         connected' = Append(connected,
                        [addr |-> p.addr, salt |-> p.salt, age |-> 0,
                         endpoint |-> send_packet(processed(pending[i].endpoint, p), p.addr, p.addr,
                                                  "KeepAlive", p.salt)]),
         opened' = remember(opened, p.salt),
         net' \subseteq net, UNCHANGED <<client_vars, outbox, salts>>
  PROVE  ServerStep
  <1>1. /\ pending \in Seq(Entries) /\ connected \in Seq(Entries) /\ p \in Packets
        /\ salts \in SUBSET (1 .. MaxSalts) /\ opened \in SUBSET Salts /\ net' \subseteq made
        /\ outbox \in SUBSET Packets /\ net \in SUBSET Packets
    BY ServerFacts, OutboxesMade
  <1>2. PICK e \in Entries : e = pending[i] /\ e \in Ents(pending) /\ e \in entries
    BY <1>1, ListEntries DEF entries
  <1>3. PICK pb, new : /\ pb = processed(e.endpoint, p)
                       /\ new = send_packet(pb, p.addr, p.addr, "KeepAlive", p.salt)
    OBVIOUS
  <1>4. e.endpoint \in Endpoints /\ e.endpoint.sequence \in Int
    BY EntryFields
  <1>5. /\ pb \in Endpoints /\ pb.sequence = e.endpoint.sequence /\ pb.outbox = e.endpoint.outbox
        /\ pb.seen \subseteq e.endpoint.seen \cup {p.id}
    BY <1>1, <1>3, <1>4, ProcessedFacts
  <1>6. /\ p.addr \in Addresses /\ p.addr \in Addresses \cup {Server} /\ p.salt \in Salts
        /\ "KeepAlive" \in Types /\ 0 \in 0 .. Expired /\ can_send(pb)
    BY <1>1, <1>2, <1>5, PacketFields, Bounds DEF Types, can_send
  <1>7. /\ new \in Endpoints /\ new.seen = pb.seen /\ new.sequence >= pb.sequence
        /\ (Duplicating => new.sequence = pb.sequence + 1)
        /\ new.outbox = pb.outbox \cup {packet(p.addr, p.addr, "KeepAlive", new.sequence, p.salt)}
    BY <1>3, <1>5, <1>6, SendFacts
  <1>8. PICK f : f = [addr |-> p.addr, salt |-> p.salt, age |-> 0, endpoint |-> new]
    OBVIOUS
  <1>9. /\ f \in Entries /\ f.addr = e.addr /\ f.salt = e.salt /\ f.endpoint = new
    BY <1>2, <1>6, <1>7, <1>8 DEF Entries
  <1>10. Grown(e, f, Announcements)
    <2>1. PICK q : q = packet(p.addr, p.addr, "KeepAlive", new.sequence, p.salt)
      OBVIOUS
    <2>2. Said(f, q) /\ q.type \in Announcements
      BY <1>2, <1>9, <2>1, PacketFacts, KindsAreTypes DEF Said
    <2>3. \A x \in f.endpoint.outbox : x \in e.endpoint.outbox \/ x = q
      BY <1>5, <1>7, <1>9, <2>1
    <2>4. /\ f.endpoint.sequence >= e.endpoint.sequence
          /\ Duplicating => f.endpoint.sequence > e.endpoint.sequence
      BY <1>4, <1>5, <1>7, <1>9
    <2>5. Heard(e, p)
      BY <1>2 DEF Heard
    <2>6. \A n \in f.endpoint.seen : n \in e.endpoint.seen \/ n = p.id
      BY <1>5, <1>7, <1>9
    <2> QED
      BY <1>9, <2>2, <2>3, <2>4, <2>5, <2>6 DEF Grown
  <1>11. connected \in Seq(Entries) /\ f \in Entries /\ connected' = Append(connected, f)
    BY <1>1, <1>2, <1>3, <1>8, <1>9
  <1>12. connected' \in Seq(Entries) /\ \A g \in Ents(connected') : g \in Ents(connected) \/ g = f
    BY <1>11, AppendList
  <1>13. Follows(pending, pending', Challenges)
    BY <1>1, DropFollows
  <1>14. /\ opened' \in SUBSET Salts /\ opened \subseteq opened' /\ opened' \subseteq opened \cup {p.salt}
         /\ Duplicating => p.salt \in opened'
    BY <1>1, <1>6 DEF remember
  <1>15. ServerTypes' /\ net' \in SUBSET Packets
    BY <1>1, <1>12, <1>13, <1>14 DEF ServerTypes, Follows
  <1>16. \A g \in Ents(connected') : \E x \in entries : Grown(x, g, Announcements)
    <2>1. \A g \in Ents(connected) : g \in entries /\ Grown(g, g, Announcements)
      BY <1>1, ListEntries, GrownSelf DEF entries
    <2> QED
      BY <1>2, <1>10, <1>12, <2>1
  <1>17. ASSUME Duplicating, SessionsOnce PROVE SessionsOnce'
    <2>1. /\ e.salt \notin opened /\ e.salt[2] \in salts /\ e.salt = p.salt
          /\ Distinct(pending) /\ Distinct(connected)
      BY <1>2, <1>17 DEF SessionsOnce
    <2>2. /\ \A g \in Ents(connected) : g.salt \in opened /\ g.salt # f.salt
      <3>1. \A g \in Ents(connected) : g.salt \in opened
        BY <1>17 DEF SessionsOnce
      <3> QED BY <1>9, <2>1, <3>1
    <2>3. Distinct(connected')
      <3>1. Distinct(connected) /\ \A g \in Ents(connected) : g.salt # f.salt
        BY <2>1, <2>2
      <3> QED BY <1>11, <3>1, AppendList, Zenon
    <2>4. Distinct(pending')
      BY <1>13, <2>1 DEF Follows
    <2>5. \A g \in Ents(pending') : g \in Ents(pending) /\ g.salt # p.salt
      <3>1. \A g \in Ents(pending') : g.salt # pending[i].salt
        BY <1>1, <2>1, DropList
      <3>2. Ents(pending') \subseteq Ents(pending)
        BY <1>1, DropList
      <3> QED
        BY <3>1, <3>2
    <2>6. /\ \A g \in Ents(pending') : g.salt \notin opened' /\ g.salt[2] \in salts'
          /\ \A g \in Ents(connected') : g.salt \in opened' /\ g.salt[2] \in salts'
          /\ \A t \in opened' : t[2] \in salts'
      BY <1>9, <1>12, <1>14, <1>17, <2>1, <2>2, <2>5 DEF SessionsOnce, entries
    <2> QED
      BY <2>3, <2>4, <2>6 DEF SessionsOnce, entries, Ents, Distinct
  <1>18. ASSUME Duplicating, SessionsOnce PROVE OneFresh
    <2>1. \A g \in Ents(pending') : \E x \in Ents(pending) : x.salt = g.salt
      BY <1>13 DEF Follows, Grown
    <2> QED
      BY <1>18, <2>1 DEF SessionsOnce, entries, Fresh, OneFresh
  <1> QED
    BY <1>1, <1>13, <1>14, <1>15, <1>16, <1>17, <1>18 DEF ServerStep, Follows

LEMMA ResponseStep ==
  ASSUME StateTypes, NEW p \in net, p.to = Server, server_receive_response(p),
         net' \subseteq net, UNCHANGED client_vars
  PROVE  ServerStep
  <1>1. /\ pending \in Seq(Entries) /\ connected \in Seq(Entries) /\ p \in Packets
        /\ net' \subseteq made /\ outbox \in SUBSET Packets
    BY ServerFacts, OutboxesMade
  <1>2. p.type = "ConnectionChallengeResponse" /\ UNCHANGED salts
    BY DEF server_receive_response
  <1>3. PICK waiting, session :
          /\ waiting = {i \in DOMAIN pending : pending[i].salt = p.salt /\ pending[i].addr = p.addr}
          /\ session = {i \in DOMAIN connected : connected[i].salt = p.salt}
    OBVIOUS
  <1>4. waiting \in SUBSET DOMAIN pending /\ session \in SUBSET DOMAIN connected
    BY <1>3
  <1>5. CASE waiting # {}
    <2>1. PICK i \in DOMAIN pending : i = first(waiting) /\ i \in waiting
      BY <1>1, <1>4, <1>5, FirstPlace
    <2>2. pending[i].salt = p.salt /\ pending[i].addr = p.addr
      BY <1>3, <2>1
    <2>3. /\ can_send(pending[i].endpoint) /\ pending' = drop(pending, i) /\ UNCHANGED outbox
          /\ \/ /\ connected' = Append(connected,
                      [addr |-> p.addr, salt |-> p.salt, age |-> 0,
                       endpoint |-> send_packet(processed(pending[i].endpoint, p), p.addr, p.addr,
                                                "KeepAlive", p.salt)])
                /\ opened' = remember(opened, p.salt)
             \/ UNCHANGED <<connected, opened>>
      BY <1>3, <1>5, <2>1 DEF server_receive_response, take_pending_by_xor_salt
    <2>4. CASE UNCHANGED <<connected, opened>>
      <3>1. Follows(pending, pending', Challenges)
        BY <1>1, <2>3, DropFollows
      <3>2. Follows(connected, connected', Announcements)
        BY <1>1, <2>4, SameList
      <3>3. outbox' \in SUBSET Packets /\ \A q \in outbox' : q \in outbox \/ Denial(q)
        BY <1>1, <2>3
      <3> QED
        BY <1>1, <1>2, <2>4, <3>1, <3>2, <3>3, QuietStep
    <2>5. CASE /\ connected' = Append(connected,
                      [addr |-> p.addr, salt |-> p.salt, age |-> 0,
                       endpoint |-> send_packet(processed(pending[i].endpoint, p), p.addr, p.addr,
                                                "KeepAlive", p.salt)])
               /\ opened' = remember(opened, p.salt)
      BY <1>2, <2>2, <2>3, <2>5, OpeningStep
    <2> QED
      BY <2>3, <2>4, <2>5
  <1>6. CASE waiting = {} /\ session # {}
    <2>1. PICK k \in DOMAIN connected : k = first(session) /\ k \in session
      BY <1>1, <1>4, <1>6, FirstPlace
    <2>2. /\ connected' = [connected EXCEPT ![k].endpoint = processed(@, p)]
          /\ UNCHANGED <<pending, outbox, opened>>
      BY <1>3, <1>6, <2>1 DEF server_receive_response
    <2>3. connected[k] \in Entries /\ connected[k].age \in 0 .. Expired
      BY <1>1, ListEntries, EntryFields
    <2>4. PICK f : f = [connected[k] EXCEPT !.age = connected[k].age,
                                            !.endpoint = processed(connected[k].endpoint, p)]
      OBVIOUS
    <2>5. Heard(connected[k], p) /\ connected' = [connected EXCEPT ![k] = f]
      BY <1>2, <1>3, <2>1, <2>2, <2>3, <2>4 DEF Heard, Entries
    <2>6. Follows(connected, connected', Announcements)
      BY <1>1, <2>3, <2>4, <2>5, HeardAt
    <2>7. Follows(pending, pending', Challenges)
      BY <1>1, <2>2, SameList
    <2>8. outbox' \in SUBSET Packets /\ \A q \in outbox' : q \in outbox \/ Denial(q)
      BY <1>1, <2>2
    <2> QED
      BY <1>1, <1>2, <2>2, <2>6, <2>7, <2>8, QuietStep
  <1>7. CASE waiting = {} /\ session = {}
    <2>1. deny(p, "HandshakeTimeout") /\ UNCHANGED <<pending, connected, opened>>
      BY <1>3, <1>7 DEF server_receive_response
    <2>2. outbox' \in SUBSET Packets /\ \A q \in outbox' : q \in outbox \/ Denial(q)
      BY <1>1, <2>1, DenyFacts DEF Denials
    <2>3. Follows(connected, connected', Announcements) /\ Follows(pending, pending', Challenges)
      BY <1>1, <2>1, SameList
    <2> QED
      BY <1>1, <1>2, <2>1, <2>2, <2>3, QuietStep
  <1> QED
    BY <1>5, <1>6, <1>7

LEMMA KeepaliveStep ==
  ASSUME StateTypes, NEW p \in net, p.to = Server, server_receive_keepalive(p),
         net' \subseteq net, UNCHANGED client_vars
  PROVE  ServerStep
  <1>1. /\ pending \in Seq(Entries) /\ connected \in Seq(Entries) /\ p \in Packets
        /\ net' \subseteq made /\ outbox \in SUBSET Packets
    BY ServerFacts, OutboxesMade
  <1>2. p.type = "KeepAlive" /\ UNCHANGED <<pending, outbox, salts, opened>>
    BY DEF server_receive_keepalive
  <1>3. PICK session :
          session = {i \in DOMAIN connected : /\ connected[i].salt = p.salt
                                              /\ connected[i].addr = p.addr}
    OBVIOUS
  <1>4. session \in SUBSET DOMAIN connected /\ session # {}
    BY <1>3 DEF server_receive_keepalive
  <1>5. PICK k \in DOMAIN connected : k = first(session) /\ k \in session
    BY <1>1, <1>4, FirstPlace
  <1>6. connected' = [connected EXCEPT ![k].age = 0, ![k].endpoint = processed(@, p)]
    BY <1>3, <1>5 DEF server_receive_keepalive
  <1>7. connected[k] \in Entries /\ 0 \in 0 .. Expired
    BY <1>1, ListEntries, Bounds
  <1>8. PICK f : f = [connected[k] EXCEPT !.age = 0,
                                          !.endpoint = processed(connected[k].endpoint, p)]
    OBVIOUS
  <1>9. Heard(connected[k], p) /\ connected' = [connected EXCEPT ![k] = f]
    BY <1>1, <1>2, <1>3, <1>5, <1>6, <1>7, <1>8 DEF Heard, Entries
  <1>10. Follows(connected, connected', Announcements)
    BY <1>1, <1>7, <1>8, <1>9, HeardAt
  <1>11. Follows(pending, pending', Challenges)
    BY <1>1, <1>2, SameList
  <1>12. outbox' \in SUBSET Packets /\ \A q \in outbox' : q \in outbox \/ Denial(q)
    BY <1>1, <1>2
  <1> QED
    BY <1>1, <1>2, <1>10, <1>11, <1>12, QuietStep

LEMMA OldRequestStep ==
  ASSUME StateTypes, NEW p \in net, server_receive_old_request(p),
         net' \subseteq net, UNCHANGED client_vars
  PROVE  ServerStep
  <1>1. /\ pending \in Seq(Entries) /\ connected \in Seq(Entries) /\ p \in Packets
        /\ net' \subseteq made
    BY ServerFacts, OutboxesMade
  <1>2. deny(p, "ProtocolMismatch") /\ UNCHANGED <<pending, connected, salts, opened>>
    BY DEF server_receive_old_request
  <1>3. outbox' \in SUBSET Packets /\ \A q \in outbox' : q \in outbox \/ Denial(q)
    BY <1>1, <1>2, DenyFacts DEF Denials
  <1>4. Follows(connected, connected', Announcements) /\ Follows(pending, pending', Challenges)
    BY <1>1, <1>2, SameList
  <1> QED
    BY <1>1, <1>2, <1>3, <1>4, QuietStep

LEMMA ReceiveStep ==
  ASSUME StateTypes, NEW p \in net, server_receive(p)
  PROVE  ServerStep
  <1>1. p.to = Server /\ net' \subseteq net /\ UNCHANGED client_vars
    BY DEF server_receive, delivered
  <1> QED
    BY <1>1, OldRequestStep, RequestStep, ResponseStep, KeepaliveStep DEF server_receive

LEMMA DisconnectClientStep ==
  ASSUME StateTypes, NEW i \in DOMAIN connected, disconnect_client(i)
  PROVE  ServerStep
  <1>1. /\ pending \in Seq(Entries) /\ connected \in Seq(Entries)
        /\ net \subseteq made /\ outbox \in SUBSET Packets
    BY ServerFacts, OutboxesMade
  <1>2. connected' = drop(connected, i) /\ UNCHANGED <<client_vars, pending, outbox, salts, opened, net>>
    BY DEF disconnect_client
  <1>3. Follows(connected, connected', Announcements)
    BY <1>1, <1>2, DropFollows
  <1>4. Follows(pending, pending', Challenges)
    BY <1>1, <1>2, SameList
  <1>5. /\ outbox' \in SUBSET Packets /\ \A q \in outbox' : q \in outbox \/ Denial(q)
        /\ net' \subseteq made
    BY <1>1, <1>2
  <1> QED
    BY <1>2, <1>3, <1>4, <1>5, QuietStep

LEMMA SendMessageStep ==
  ASSUME StateTypes, NEW i \in DOMAIN connected, server_send_message(i)
  PROVE  ServerStep
  <1>1. /\ pending \in Seq(Entries) /\ connected \in Seq(Entries)
        /\ net \subseteq made /\ outbox \in SUBSET Packets
    BY ServerFacts, OutboxesMade
  <1>2. PICK e \in Entries : e = connected[i]
    BY <1>1, ListEntries
  <1>3. PICK pb : pb = send_packet(e.endpoint, e.addr, e.addr, "Messages", e.salt)
    OBVIOUS
  <1>4. /\ can_send(e.endpoint) /\ UNCHANGED <<client_vars, pending, outbox, salts, opened, net>>
        /\ connected' = [connected EXCEPT ![i].endpoint = pb]
    BY <1>2, <1>3 DEF server_send_message
  <1>5. /\ pb \in Endpoints
        /\ \A g \in Entries : g.addr = e.addr /\ g.salt = e.salt /\ g.endpoint = pb =>
             Grown(e, g, Announcements)
    BY <1>3, <1>4, KindsAreTypes, GrownSaid
  <1>6. PICK f : f = [e EXCEPT !.endpoint = pb]
    OBVIOUS
  <1>7. f \in Entries /\ f.addr = e.addr /\ f.salt = e.salt /\ f.endpoint = pb
    BY <1>5, <1>6 DEF Entries
  <1>8. connected' = [connected EXCEPT ![i] = f] /\ Grown(connected[i], f, Announcements)
    BY <1>2, <1>4, <1>5, <1>6, <1>7
  <1>9. Follows(connected, connected', Announcements)
    BY <1>1, <1>7, <1>8, GrownAt
  <1>10. Follows(pending, pending', Challenges)
    BY <1>1, <1>4, SameList
  <1>11. /\ outbox' \in SUBSET Packets /\ \A q \in outbox' : q \in outbox \/ Denial(q)
         /\ net' \subseteq made
    BY <1>1, <1>4
  <1> QED
    BY <1>4, <1>9, <1>10, <1>11, QuietStep

LEMMA LoseStep ==
  ASSUME StateTypes, NEW p \in net, lose(p)
  PROVE  ServerStep
  <1>1. /\ pending \in Seq(Entries) /\ connected \in Seq(Entries)
        /\ net \subseteq made /\ outbox \in SUBSET Packets
    BY ServerFacts, OutboxesMade
  <1>2. /\ net' \subseteq net
        /\ UNCHANGED <<client_vars, pending, connected, outbox, salts, opened>>
    BY DEF lose, server_vars
  <1>3. Follows(connected, connected', Announcements) /\ Follows(pending, pending', Challenges)
    BY <1>1, <1>2, SameList
  <1>4. /\ outbox' \in SUBSET Packets /\ \A q \in outbox' : q \in outbox \/ Denial(q)
        /\ net' \subseteq made
    BY <1>1, <1>2
  <1> QED
    BY <1>2, <1>3, <1>4, QuietStep

-----------------------------------------------------------------------------
(* Every step is one of three *)

\* The client's steps leave the server alone.
ClientAction(c) ==
  \/ connect(c) \/ disconnect(c) \/ client_update(c) \/ client_visit(c)
  \/ client_visit_disconnecting(c) \/ \E p \in net : client_receive(c, p)

LEMMA StepKinds ==
  ASSUME StateTypes, [Next]_vars
  PROVE  \/ \E c \in Clients : ClientAction(c)
         \/ ServerStep
         \/ UNCHANGED vars
  BY UpdateStep, VisitStep, ReceiveStep, DisconnectClientStep, SendMessageStep, LoseStep
     DEF Next, ClientAction

LEMMA ClientTypesKept ==
  ASSUME StateTypes, NEW c \in Clients, ClientAction(c)
  PROVE  ClientTypes' /\ net' \in SUBSET Packets /\ UNCHANGED server_vars
  <1>1. UNCHANGED server_vars
    <2>1. CASE client_visit(c)
      BY <2>1, ClientVisitFacts
    <2>2. CASE ~ client_visit(c)
      BY <2>2 DEF ClientAction, connect, disconnect, client_update,
                  client_visit_disconnecting, client_receive
    <2> QED
      BY <2>1, <2>2
  <1>2. ClientTypes' /\ net' \in SUBSET Packets
    BY ConnectTypes, VisitTypes, ReceiveTypes DEF ClientAction
  <1> QED
    BY <1>1, <1>2

LEMMA StateTypesInit == Init => StateTypes
  <1> SUFFICES ASSUME Init PROVE StateTypes
    OBVIOUS
  <1>1. ClientTypes
    BY NewEndpointFacts, SaltFacts, Bounds DEF Init, ClientTypes
  <1>2. ServerTypes
    <2>1. pending \in Seq(Entries) /\ connected \in Seq(Entries)
      BY EmptySeq DEF Init
    <2> QED
      BY <2>1 DEF Init, ServerTypes
  <1>3. net \in SUBSET Packets
    <2> SUFFICES ASSUME NEW p \in net PROVE p \in Packets
      OBVIOUS
    <2>1. PICK old \in OldClients : p = packet(Server, old, "OldRequest", 1, <<1, 0>>)
      BY DEF Init
    <2>2. /\ old \in Addresses /\ Server \in Addresses \cup {Server} /\ "OldRequest" \in Types
          /\ 1 \in 0 .. MaxPackets /\ <<1, 0>> \in Salts
      BY SaltFacts, Bounds DEF Addresses, Types
    <2> QED
      BY <2>1, <2>2, PacketFacts
  <1> QED
    BY <1>1, <1>2, <1>3 DEF StateTypes

LEMMA StateTypesNext == StateTypes /\ [Next]_vars => StateTypes'
  <1> SUFFICES ASSUME StateTypes, [Next]_vars PROVE StateTypes'
    OBVIOUS
  <1>1. ASSUME NEW c \in Clients, ClientAction(c) PROVE StateTypes'
    <2>1. ClientTypes' /\ net' \in SUBSET Packets /\ UNCHANGED server_vars
      BY <1>1, ClientTypesKept
    <2> QED
      BY <2>1 DEF StateTypes, ServerTypes, server_vars
  <1>2. CASE ServerStep
    BY <1>2 DEF ServerStep, StateTypes, ClientTypes, client_vars
  <1>3. CASE UNCHANGED vars
    BY <1>3 DEF vars, client_vars, server_vars, StateTypes, ClientTypes, ServerTypes
  <1> QED
    BY <1>1, <1>2, <1>3, StepKinds

\* The server's own outbox answers the clients.
Answers == \A p \in outbox : p.to = p.addr

LEMMA AnswersNext == StateTypes /\ Answers /\ [Next]_vars => Answers'
  <1> SUFFICES ASSUME StateTypes, Answers, [Next]_vars PROVE Answers'
    OBVIOUS
  <1>1. ASSUME NEW c \in Clients, ClientAction(c) PROVE Answers'
    BY <1>1, ClientTypesKept DEF Answers, server_vars
  <1>2. CASE ServerStep
    BY <1>2 DEF ServerStep, Denial, Answers
  <1>3. CASE UNCHANGED vars
    BY <1>3 DEF vars, server_vars, Answers
  <1> QED
    BY <1>1, <1>2, <1>3, StepKinds

LEMMA StateTypesImply == StateTypes /\ Answers => TypeOK
  <1> SUFFICES ASSUME StateTypes, Answers PROVE TypeOK
    OBVIOUS
  <1>1. \A c \in Clients : /\ endpoint[c].sequence \in 0 .. MaxPackets
                           /\ endpoint[c].seen \subseteq 0 .. MaxPackets
                           /\ endpoint[c].outbox \subseteq Packets
    BY DEF StateTypes, ClientTypes, Endpoints
  <1>2. ASSUME NEW list \in {pending, connected}, NEW i \in DOMAIN list
        PROVE  /\ list[i].addr \in Addresses /\ list[i].salt \in Salts
               /\ list[i].age \in 0 .. Expired /\ list[i].endpoint.outbox \subseteq Packets
    BY ServerFacts, ListEntries, EntryFields
  <1> QED
    BY <1>1, <1>2 DEF StateTypes, ClientTypes, ServerTypes, TypeOK, Answers

\* Client and server keep their fields within their types, for any number of
\* clients and any bounds, on either network: the server's denials go to the clients
\* they are about, and the clients update removes are dropped whole, the faulty
\* removal loop included.
THEOREM TypesKept == Spec => []TypeOK
  <1>1. Init => StateTypes /\ Answers
    BY StateTypesInit DEF Init, Answers
  <1>2. StateTypes /\ Answers /\ [Next]_vars => StateTypes' /\ Answers'
    BY StateTypesNext, AnswersNext
  <1>3. Spec => [](StateTypes /\ Answers)
    BY <1>1, <1>2, PTL DEF Spec
  <1> QED
    BY <1>3, StateTypesImply, PTL

-----------------------------------------------------------------------------
(* What the steps do to packets, sessions and numbers *)

\* Where a packet comes from in a step of the server.
LEMMA MadeStep ==
  ASSUME StateTypes, ServerStep, NEW p \in made'
  PROVE  \/ p \in made
         \/ Denial(p)
         \/ \E f \in Ents(pending') : Said(f, p) /\ p.type \in Challenges
              /\ \E e \in Ents(pending) : /\ Grown(e, f, Challenges)
                                          /\ Duplicating => f.endpoint.sequence > e.endpoint.sequence
         \/ \E f \in Ents(connected') : Said(f, p) /\ p.type \in Announcements
              /\ \E e \in entries : /\ Grown(e, f, Announcements)
                                    /\ Duplicating => f.endpoint.sequence > e.endpoint.sequence
  <1>1. CASE p \in net'
    BY <1>1 DEF ServerStep
  <1>2. CASE p \in outbox'
    BY <1>2, OutboxesMade DEF ServerStep
  <1>3. ASSUME NEW f \in Ents(pending'), p \in f.endpoint.outbox
        PROVE  \/ p \in made
               \/ /\ Said(f, p) /\ p.type \in Challenges
                  /\ \E e \in Ents(pending) : /\ Grown(e, f, Challenges)
                                              /\ Duplicating => f.endpoint.sequence > e.endpoint.sequence
    <2>1. PICK e \in Ents(pending) : Grown(e, f, Challenges)
      BY <1>3 DEF ServerStep, Fresh
    <2> QED
      BY <1>3, <2>1 DEF Grown, made, entries
  <1>4. ASSUME NEW f \in Ents(connected'), p \in f.endpoint.outbox
        PROVE  \/ p \in made
               \/ /\ Said(f, p) /\ p.type \in Announcements
                  /\ \E e \in entries : /\ Grown(e, f, Announcements)
                                        /\ Duplicating => f.endpoint.sequence > e.endpoint.sequence
    <2>1. PICK e \in entries : Grown(e, f, Announcements)
      BY <1>4 DEF ServerStep
    <2> QED
      BY <1>4, <2>1 DEF Grown, made
  <1>5. \/ p \in net' \/ p \in outbox'
        \/ \E f \in Ents(pending') : p \in f.endpoint.outbox
        \/ \E f \in Ents(connected') : p \in f.endpoint.outbox
    BY DEF made, entries, Ents
  <1> QED
    BY <1>1, <1>2, <1>3, <1>4, <1>5

\* What a client's step does: it starts over, begins an attempt, sends a packet,
\* takes up a challenge, hears a packet of its session, or none of these.
StartsOver(c) ==
  /\ state'[c] = "Disconnected" /\ client_salt'[c] = 0 /\ xor_salt'[c] = NoSalt
  /\ endpoint'[c].seen = {} /\ connects'[c] = connects[c] /\ net' \subseteq net

Begins(c) ==
  /\ state[c] \in ConnectFrom /\ state'[c] = "SendingConnectionRequest"
  /\ connects'[c] = connects[c] + 1 /\ client_salt'[c] = connects[c] + 1
  /\ xor_salt'[c] = NoSalt /\ endpoint'[c] = endpoint[c] /\ net' = net

GoesOn(c) ==
  /\ connects'[c] = connects[c] /\ client_salt'[c] = client_salt[c]
  /\ state'[c] # state[c] =>
       /\ state[c] \notin {"Disconnected", "SelfInitiatedDisconnect"}
       /\ state'[c] \notin {"Disconnected", "SendingConnectionRequest"}

Sends(c) ==
  /\ GoesOn(c) /\ state'[c] = state[c] /\ xor_salt'[c] = xor_salt[c]
  /\ endpoint'[c].seen = endpoint[c].seen /\ endpoint'[c].sequence >= endpoint[c].sequence
  /\ \E p \in Packets :
       /\ net' = net \cup {p} /\ p.to = Server /\ p.addr = c /\ p.id = endpoint'[c].sequence
       /\ Duplicating => endpoint'[c].sequence = endpoint[c].sequence + 1
       /\ \/ state[c] = "SendingConnectionRequest" /\ p.salt = <<client_salt[c], 0>>
          \/ state[c] \in {"SendingChallengeResponse", "Connected"} /\ p.salt = xor_salt[c]

TakesUp(c) ==
  /\ GoesOn(c) /\ net' \subseteq net
  /\ state[c] = "SendingConnectionRequest"
  /\ endpoint'[c].sequence = endpoint[c].sequence
  /\ \E p \in net :
       /\ p.to = c /\ p.type = "ConnectionChallenge" /\ p.salt[1] = client_salt[c]
       /\ xor_salt'[c] = p.salt
       /\ \/ state'[c] = state[c] /\ endpoint'[c].seen = endpoint[c].seen
          \/ /\ state'[c] = "SendingChallengeResponse"
             /\ endpoint'[c].seen \subseteq endpoint[c].seen \cup {p.id}

Hears(c) ==
  /\ GoesOn(c) /\ net' \subseteq net
  /\ state[c] \in {"SendingChallengeResponse", "Connected"} /\ state'[c] = "Connected"
  /\ xor_salt'[c] = xor_salt[c] /\ endpoint'[c].sequence = endpoint[c].sequence
  /\ \E p \in net : /\ p.to = c /\ p.type \in Announcements /\ p.salt = xor_salt[c]
                    /\ endpoint'[c].seen \subseteq endpoint[c].seen \cup {p.id}

Rests(c) ==
  /\ GoesOn(c) /\ net' \subseteq net
  /\ state'[c] = state[c] \/ state'[c] = "SelfInitiatedDisconnect"
  /\ xor_salt'[c] = xor_salt[c] /\ endpoint'[c] = endpoint[c]

ClientStep(c) ==
  /\ UNCHANGED server_vars
  /\ \A d \in Clients \ {c} :
       /\ state'[d] = state[d] /\ client_salt'[d] = client_salt[d] /\ xor_salt'[d] = xor_salt[d]
       /\ endpoint'[d] = endpoint[d] /\ connects'[d] = connects[d]
  /\ StartsOver(c) \/ Begins(c) \/ Sends(c) \/ TakesUp(c) \/ Hears(c) \/ Rests(c)

LEMMA DisconnectedFacts ==
  ASSUME StateTypes, NEW c \in Clients, NEW why, NEW now, NEW pb, disconnected(c, why, now, pb),
         net' \subseteq net, UNCHANGED <<connects, server_vars>>
  PROVE  ClientStep(c)
  <1>1. /\ state'[c] = "Disconnected" /\ client_salt'[c] = 0 /\ xor_salt'[c] = NoSalt
        /\ endpoint'[c] = NewEndpoint
    BY DEF disconnected, reset, StateTypes, ClientTypes
  <1>2. \A d \in Clients \ {c} :
          /\ state'[d] = state[d] /\ client_salt'[d] = client_salt[d]
          /\ xor_salt'[d] = xor_salt[d] /\ endpoint'[d] = endpoint[d] /\ connects'[d] = connects[d]
    BY DEF disconnected, StateTypes, ClientTypes
  <1>3. StartsOver(c)
    BY <1>1, NewEndpointFacts DEF StartsOver
  <1> QED
    BY <1>2, <1>3 DEF ClientStep

LEMMA TransitionFacts ==
  ASSUME StateTypes, NEW c \in Clients, NEW new, NEW xor, NEW pb, state_transition(c, new, xor, pb),
         UNCHANGED connects
  PROVE  /\ state'[c] = new /\ xor_salt'[c] = xor /\ endpoint'[c] = pb
         /\ client_salt'[c] = client_salt[c] /\ connects'[c] = connects[c]
         /\ \A d \in Clients \ {c} :
              /\ state'[d] = state[d] /\ client_salt'[d] = client_salt[d]
              /\ xor_salt'[d] = xor_salt[d] /\ endpoint'[d] = endpoint[d]
              /\ connects'[d] = connects[d]
  BY DEF state_transition, StateTypes, ClientTypes

LEMMA ConnectStep ==
  ASSUME StateTypes, NEW c \in Clients, connect(c) \/ disconnect(c) \/ client_update(c)
  PROVE  ClientStep(c)
  <1>1. CASE connect(c)
    <2>1. Begins(c)
      BY <1>1 DEF connect, Begins, StateTypes, ClientTypes
    <2> QED
      BY <1>1, <2>1 DEF connect, ClientStep, StateTypes, ClientTypes
  <1>2. CASE disconnect(c)
    <2>1. net' = net /\ UNCHANGED <<connects, server_vars>>
      BY <1>2 DEF disconnect
    <2>2. CASE state[c] \in {"Connected", "SendingChallengeResponse"}
      <3>1. state_transition(c, "SelfInitiatedDisconnect", xor_salt[c], endpoint[c])
        BY <1>2, <2>2 DEF disconnect
      <3>2. /\ state'[c] = "SelfInitiatedDisconnect" /\ xor_salt'[c] = xor_salt[c]
            /\ endpoint'[c] = endpoint[c]
            /\ client_salt'[c] = client_salt[c] /\ connects'[c] = connects[c]
            /\ \A d \in Clients \ {c} :
                 /\ state'[d] = state[d] /\ client_salt'[d] = client_salt[d]
                 /\ xor_salt'[d] = xor_salt[d] /\ endpoint'[d] = endpoint[d]
                 /\ connects'[d] = connects[d]
        BY <2>1, <3>1, TransitionFacts
      <3>3. Rests(c)
        BY <2>1, <2>2, <3>2 DEF Rests, GoesOn
      <3> QED
        BY <2>1, <3>2, <3>3 DEF ClientStep
    <2>3. CASE state[c] \notin {"Connected", "SendingChallengeResponse"}
      <3>1. disconnected(c, "Normal", clock[c], endpoint[c])
        BY <1>2, <2>3 DEF disconnect
      <3> QED
        BY <2>1, <3>1, DisconnectedFacts
    <2> QED
      BY <2>2, <2>3
  <1>3. CASE client_update(c)
    <2>1. net' = net /\ UNCHANGED <<connects, server_vars>>
      BY <1>3 DEF client_update
    <2>2. CASE may_time_out(c) /\ older(receive_age[c]) > Timeout
      <3>1. disconnected(c, "TimedOut", older(clock[c]), endpoint[c])
        BY <1>3, <2>2 DEF client_update
      <3> QED
        BY <2>1, <3>1, DisconnectedFacts
    <2>3. CASE ~ (may_time_out(c) /\ older(receive_age[c]) > Timeout)
      <3>1. UNCHANGED <<state, reason, client_salt, xor_salt, endpoint>>
        BY <1>3, <2>3 DEF client_update
      <3> QED
        BY <2>1, <3>1 DEF ClientStep, Rests, GoesOn
    <2> QED
      BY <2>2, <2>3
  <1> QED
    BY <1>1, <1>2, <1>3

LEMMA VisitClientStep ==
  ASSUME StateTypes, NEW c \in Clients, client_visit(c) \/ client_visit_disconnecting(c)
  PROVE  ClientStep(c)
  <1>1. CASE client_visit(c)
    <2>1. PICK type \in Types, salt \in Salts :
            /\ client_send(c, type, salt)
            /\ \/ state[c] = "SendingConnectionRequest" /\ salt = <<client_salt[c], 0>>
               \/ state[c] \in {"SendingChallengeResponse", "Connected"} /\ salt = xor_salt[c]
      BY <1>1, ClientVisitFacts
    <2>2. PICK n \in 0 .. MaxPackets, pb \in Endpoints :
            /\ n >= endpoint[c].sequence /\ (Duplicating => n = endpoint[c].sequence + 1)
            /\ pb.sequence = n /\ pb.seen = endpoint[c].seen
            /\ endpoint' = [endpoint EXCEPT ![c] = pb]
            /\ packet(Server, c, type, n, salt) \in Packets
            /\ net' = net \cup {packet(Server, c, type, n, salt)}
      BY <2>1, ClientSendFacts
    <2>3. PICK p \in Packets : /\ p = packet(Server, c, type, n, salt) /\ p.to = Server
                               /\ p.addr = c /\ p.id = n /\ p.salt = salt
      BY <2>2, PacketFacts
    <2>4. /\ UNCHANGED <<state, client_salt, xor_salt, connects>>
          /\ UNCHANGED server_vars
      BY <1>1, ClientVisitFacts
    <2>5. endpoint'[c] = pb /\ \A d \in Clients \ {c} : endpoint'[d] = endpoint[d]
      BY <2>2 DEF StateTypes, ClientTypes
    <2>6. net' = net \cup {p}
      BY <2>2, <2>3
    <2>7. Sends(c)
      BY <2>1, <2>2, <2>3, <2>4, <2>5, <2>6 DEF Sends, GoesOn
    <2> QED
      BY <2>4, <2>5, <2>7 DEF ClientStep
  <1>2. CASE client_visit_disconnecting(c)
    <2>1. PICK pb : disconnected(c, "Normal", clock[c], pb)
      BY <1>2 DEF client_visit_disconnecting
    <2>2. UNCHANGED <<connects, server_vars>> /\ net' = net \cup endpoint'[c].outbox
      BY <1>2 DEF client_visit_disconnecting
    <2>3. ClientTypes'
      BY <1>2, VisitTypes
    <2>4. net' \subseteq net
      BY <2>2, <2>3 DEF ClientTypes
    <2> QED
      BY <2>1, <2>2, <2>4, DisconnectedFacts
  <1> QED
    BY <1>1, <1>2

LEMMA ReceiveClientStep ==
  ASSUME StateTypes, NEW c \in Clients, NEW p \in net, client_receive(c, p)
  PROVE  ClientStep(c)
  <1>1. p \in Packets /\ endpoint[c] \in Endpoints
    BY DEF StateTypes, ClientTypes
  <1>2. UNCHANGED <<connects, server_vars>> /\ net' \subseteq net /\ p.to = c
    BY DEF client_receive, delivered
  <1>3. PICK pb : pb = processed(endpoint[c], p)
    OBVIOUS
  <1>4. pb.sequence = endpoint[c].sequence /\ pb.seen \subseteq endpoint[c].seen \cup {p.id}
    BY <1>1, <1>3, ProcessedFacts
  <1>5. CASE client_receive_challenge(c, p)
    <2>1. /\ p.type = "ConnectionChallenge" /\ state[c] = "SendingConnectionRequest"
          /\ p.salt[1] = client_salt[c]
      BY <1>5 DEF client_receive_challenge, challenge_expected
    <2>2. CASE is_new(endpoint[c], p)
      <3>1. state_transition(c, "SendingChallengeResponse", p.salt, pb)
        BY <1>3, <1>5, <2>2 DEF client_receive_challenge
      <3>2. /\ state'[c] = "SendingChallengeResponse" /\ xor_salt'[c] = p.salt
            /\ endpoint'[c] = pb
            /\ client_salt'[c] = client_salt[c] /\ connects'[c] = connects[c]
            /\ \A d \in Clients \ {c} :
                 /\ state'[d] = state[d] /\ client_salt'[d] = client_salt[d]
                 /\ xor_salt'[d] = xor_salt[d] /\ endpoint'[d] = endpoint[d]
                 /\ connects'[d] = connects[d]
        BY <1>2, <3>1, TransitionFacts
      <3>3. TakesUp(c)
        BY <1>2, <1>4, <2>1, <3>2 DEF TakesUp, GoesOn
      <3> QED
        BY <1>2, <3>2, <3>3 DEF ClientStep
    <2>3. CASE ~ is_new(endpoint[c], p)
      <3>1. /\ xor_salt' = [xor_salt EXCEPT ![c] = p.salt]
            /\ UNCHANGED <<state, client_salt, endpoint>>
        BY <1>5, <2>3 DEF client_receive_challenge
      <3>2. xor_salt'[c] = p.salt /\ \A d \in Clients \ {c} : xor_salt'[d] = xor_salt[d]
        BY <3>1 DEF StateTypes, ClientTypes
      <3>3. TakesUp(c)
        BY <1>2, <2>1, <3>1, <3>2 DEF TakesUp, GoesOn
      <3> QED
        BY <1>2, <3>1, <3>2, <3>3 DEF ClientStep
    <2> QED
      BY <2>2, <2>3
  <1>6. CASE client_receive_denied(c, p)
    BY <1>2, <1>6, DisconnectedFacts DEF client_receive_denied
  <1>7. CASE client_receive_session(c, p)
    <2>1. /\ p.type \in Announcements /\ p.salt = xor_salt[c]
          /\ state[c] \in {"SendingChallengeResponse", "Connected"}
      BY <1>7 DEF client_receive_session, session_packet, Announcements
    <2>2. CASE state[c] = "SendingChallengeResponse"
      <3>1. state_transition(c, "Connected", xor_salt[c], pb)
        BY <1>3, <1>7, <2>2 DEF client_receive_session
      <3>2. /\ state'[c] = "Connected" /\ xor_salt'[c] = xor_salt[c]
            /\ endpoint'[c] = pb
            /\ client_salt'[c] = client_salt[c] /\ connects'[c] = connects[c]
            /\ \A d \in Clients \ {c} :
                 /\ state'[d] = state[d] /\ client_salt'[d] = client_salt[d]
                 /\ xor_salt'[d] = xor_salt[d] /\ endpoint'[d] = endpoint[d]
                 /\ connects'[d] = connects[d]
        BY <1>2, <3>1, TransitionFacts
      <3>3. Hears(c)
        BY <1>2, <1>4, <2>1, <2>2, <3>2 DEF Hears, GoesOn
      <3> QED
        BY <1>2, <3>2, <3>3 DEF ClientStep
    <2>3. CASE state[c] = "Connected"
      <3>1. /\ endpoint' = [endpoint EXCEPT ![c] = pb]
            /\ UNCHANGED <<state, client_salt, xor_salt>>
        BY <1>1, <1>3, <1>7, <2>3 DEF client_receive_session, StateTypes, ClientTypes
      <3>2. endpoint'[c] = pb /\ \A d \in Clients \ {c} : endpoint'[d] = endpoint[d]
        BY <3>1 DEF StateTypes, ClientTypes
      <3>3. Hears(c)
        BY <1>2, <1>4, <2>1, <2>3, <3>1, <3>2 DEF Hears, GoesOn
      <3> QED
        BY <1>2, <3>1, <3>2, <3>3 DEF ClientStep
    <2> QED
      BY <2>1, <2>2, <2>3
  <1>8. CASE client_receive_other(c, p)
    <2>1. UNCHANGED <<state, client_salt, xor_salt, endpoint>>
      BY <1>8 DEF client_receive_other
    <2> QED
      BY <1>2, <2>1 DEF ClientStep, Rests, GoesOn
  <1> QED
    BY <1>5, <1>6, <1>7, <1>8 DEF client_receive

LEMMA ClientActionStep ==
  ASSUME StateTypes, NEW c \in Clients, ClientAction(c)
  PROVE  ClientStep(c)
  BY ConnectStep, VisitClientStep, ReceiveClientStep DEF ClientAction

-----------------------------------------------------------------------------
(* Sessions *)

\* A client's step makes packets only for the server.
LEMMA ClientMade ==
  ASSUME NEW c, ClientStep(c), NEW p \in made'
  PROVE  /\ p \in made \/ (p \in net' /\ p.to = Server)
         /\ entries' = entries /\ salts' = salts
  <1>1. entries' = entries /\ outbox' = outbox /\ salts' = salts
    BY DEF ClientStep, server_vars, entries, Ents
  <1>2. \A q \in net' : q \in net \/ q.to = Server
    BY DEF ClientStep, StartsOver, Begins, Sends, TakesUp, Hears, Rests
  <1> QED
    BY <1>1, <1>2 DEF made

LEMMA HandshakeInit == Init => HandshakeInv
  <1> SUFFICES ASSUME Init PROVE HandshakeInv
    OBVIOUS
  <1>1. entries = {} /\ Ents(pending) = {} /\ Ents(connected) = {} /\ opened = {}
    BY DEF Init, entries, Ents
  <1>2. SessionsOnce
    BY <1>1 DEF Init, SessionsOnce, Distinct
  <1>3. OpenAnnounced
    <2>1. made = net
      BY <1>1 DEF Init, made
    <2>2. \A p \in net : p.to = Server
      BY PacketFacts DEF Init
    <2> QED
      BY <2>1, <2>2 DEF OpenAnnounced
  <1>4. AttemptsAgree
    BY DEF Init, AttemptsAgree
  <1> QED
    BY <1>2, <1>3, <1>4 DEF HandshakeInv

LEMMA HandshakeNext ==
  ASSUME Duplicating, StateTypes, StateTypes', HandshakeInv, [Next]_vars
  PROVE  HandshakeInv'
  <1>1. ASSUME NEW c \in Clients, ClientStep(c) PROVE HandshakeInv'
    <2>1. SessionsOnce'
      BY <1>1 DEF HandshakeInv, SessionsOnce, ClientStep, server_vars, entries, Ents, Distinct
    <2>2. OpenAnnounced'
      <3>1. opened' = opened
        BY <1>1 DEF ClientStep, server_vars
      <3> QED
        BY <1>1, <3>1, ClientMade DEF HandshakeInv, OpenAnnounced
    <2>3. AttemptsAgree'
      <3>1. opened' = opened
        BY <1>1 DEF ClientStep, server_vars
      <3>2. ASSUME NEW d \in Clients \ {c}
            PROVE  /\ state'[d] \in {"SendingChallengeResponse", "Connected"} =>
                        xor_salt'[d][1] = client_salt'[d]
                   /\ state'[d] = "Connected" => xor_salt'[d] \in opened'
        BY <1>1, <3>1 DEF HandshakeInv, AttemptsAgree, ClientStep
      <3>3. state'[c] \in {"SendingChallengeResponse", "Connected"} =>
              xor_salt'[c][1] = client_salt'[c]
        BY <1>1 DEF HandshakeInv, AttemptsAgree, ClientStep, StartsOver, Begins, Sends, TakesUp,
                    Hears, Rests, GoesOn
      <3>4. state'[c] = "Connected" => xor_salt'[c] \in opened
        <4>1. CASE Hears(c)
          <5>1. PICK p \in net : p.to = c /\ p.type \in Announcements /\ p.salt = xor_salt[c]
            BY <4>1 DEF Hears
          <5>2. p.to # Server
            BY <5>1, ConnectionAssumption DEF Server
          <5>3. xor_salt[c] \in opened
            BY <5>1, <5>2, OutboxesMade DEF HandshakeInv, OpenAnnounced, Announcements
          <5> QED
            BY <4>1, <5>3 DEF Hears
        <4>2. CASE ~ Hears(c)
          BY <1>1, <4>2 DEF HandshakeInv, AttemptsAgree, ClientStep, StartsOver, Begins, Sends,
                            TakesUp, Rests, GoesOn
        <4> QED
          BY <4>1, <4>2
      <3> QED
        BY <3>1, <3>2, <3>3, <3>4 DEF AttemptsAgree
    <2> QED
      BY <2>1, <2>2, <2>3 DEF HandshakeInv
  <1>2. CASE ServerStep
    <2>1. SessionsOnce' /\ opened \subseteq opened'
      BY <1>2 DEF ServerStep, HandshakeInv
    <2>2. OpenAnnounced'
      <3> SUFFICES ASSUME NEW p \in made', p.to # Server, p.type \in {"KeepAlive", "Messages"}
                   PROVE  p.salt \in opened'
        BY DEF OpenAnnounced
      <3>1. CASE p \in made
        BY <2>1, <3>1 DEF HandshakeInv, OpenAnnounced
      <3>2. p.type \notin Challenges /\ ~ Denial(p)
        BY DEF Challenges, Denial, Denials
      <3>3. ASSUME NEW f \in Ents(connected'), Said(f, p) PROVE p.salt \in opened'
        BY <2>1, <3>3 DEF SessionsOnce, Said, Ents
      <3> QED
        BY <1>2, <3>1, <3>2, <3>3, MadeStep
    <2>3. AttemptsAgree'
      BY <1>2, <2>1 DEF ServerStep, HandshakeInv, AttemptsAgree, client_vars
    <2> QED
      BY <2>1, <2>2, <2>3 DEF HandshakeInv
  <1>3. CASE UNCHANGED vars
    BY <1>3 DEF vars, client_vars, server_vars, HandshakeInv, SessionsOnce, OpenAnnounced,
                AttemptsAgree, made, entries, Ents, Distinct
  <1> QED
    BY <1>1, <1>2, <1>3, StepKinds, ClientActionStep

LEMMA HandshakeAlways ==
  ASSUME Duplicating
  PROVE  Spec => [](StateTypes /\ HandshakeInv)
  <1>1. Init => StateTypes /\ HandshakeInv
    BY StateTypesInit, HandshakeInit
  <1>2. StateTypes /\ HandshakeInv /\ [Next]_vars => StateTypes' /\ HandshakeInv'
    BY StateTypesNext, HandshakeNext
  <1> QED
    BY <1>1, <1>2, PTL DEF Spec

\* On a network that loses, duplicates, delays and reorders, with any number of
\* clients: the server has one client per session, and a session that was opened
\* never waits for its challenge response again (server_receive_response takes the
\* pending client from its list before it processes the packet).
THEOREM SessionsOpenOnce ==
  ASSUME Duplicating
  PROVE  Spec => []OpenedOnce
  <1>1. HandshakeInv => OpenedOnce
    <2>1. ASSUME HandshakeInv PROVE OpenedOnce
      <3>1. awaiting \cap opened = {}
        BY <2>1 DEF HandshakeInv, SessionsOnce, awaiting, Ents
      <3> QED
        BY <2>1, <3>1 DEF HandshakeInv, SessionsOnce, Distinct, OpenedOnce
    <2> QED
      BY <2>1
  <1> QED
    BY <1>1, HandshakeAlways, PTL

\* A client that is Connected is in a session the server opened, for the connect
\* call it made last, whatever old challenges and keep-alives arrived on the way.
THEOREM ClientsAgree ==
  ASSUME Duplicating
  PROVE  Spec => []SessionAgreed
  <1>1. HandshakeInv => SessionAgreed
    BY DEF HandshakeInv, AttemptsAgree, SessionAgreed
  <1> QED
    BY <1>1, HandshakeAlways, PTL

\* A session that timed out, or that the application ended with disconnect_client,
\* does not come back, whatever responses and keep-alives of it still arrive: a
\* connected client was connected or pending before, and no pending one was open.
THEOREM SessionsStayClosed ==
  ASSUME Duplicating
  PROVE  Spec => NeverReopened
  <1>1. ASSUME StateTypes, HandshakeInv, [Next]_vars
        PROVE  (opened \ sessions) \cap sessions' = {}
    <2>1. \A s \in sessions' : s \in sessions \/ s \notin opened
      <3> SUFFICES ASSUME NEW i \in DOMAIN connected'
                   PROVE  connected'[i].salt \in sessions \/ connected'[i].salt \notin opened
        BY DEF sessions
      <3>1. CASE connected' = connected
        BY <3>1 DEF sessions
      <3>2. CASE ServerStep
        <4>1. PICK f \in Ents(connected') : f = connected'[i]
          BY DEF Ents
        <4>2. PICK e \in entries : e.salt = f.salt
          BY <3>2, <4>1 DEF ServerStep, Grown
        <4>3. CASE e \in Ents(pending)
          BY <1>1, <4>1, <4>2, <4>3 DEF HandshakeInv, SessionsOnce
        <4>4. CASE e \in Ents(connected)
          BY <4>1, <4>2, <4>4 DEF sessions, Ents
        <4> QED
          BY <4>3, <4>4 DEF entries
      <3>3. ASSUME NEW c \in Clients, ClientAction(c) PROVE connected' = connected
        BY <1>1, <3>3, ClientActionStep DEF ClientStep, server_vars
      <3>4. UNCHANGED vars => connected' = connected
        BY DEF vars, server_vars
      <3> QED
        BY <1>1, <3>1, <3>2, <3>3, <3>4, StepKinds
    <2> QED
      BY <2>1
  <1>2. StateTypes /\ HandshakeInv /\ [Next]_vars =>
          [(opened \ sessions) \cap sessions' = {}]_vars
    BY <1>1
  <1> QED
    BY <1>2, HandshakeAlways, PTL DEF Spec, NeverReopened

-----------------------------------------------------------------------------
(* Packet numbers *)

\* Facts about the salts of the server's clients.
LEMMA EntrySalts ==
  ASSUME Duplicating, StateTypes, SessionsOnce
  PROVE  /\ \A e \in entries : e.salt[2] \in salts /\ e.salt[2] # 0
         /\ \A e, f \in entries : e.salt = f.salt => e = f
  <1>1. \A e \in entries : e.salt[2] \in salts /\ e.salt[2] # 0
    BY ServerFacts DEF SessionsOnce
  <1>2. \A e, f \in entries : e.salt = f.salt => e = f
    BY DEF SessionsOnce, entries, Ents, Distinct
  <1> QED
    BY <1>1, <1>2

\* Where an entry comes from in a step of the server.
LEMMA EntryStep ==
  ASSUME ServerStep, NEW f \in entries'
  PROVE  \/ \E e \in entries : \E kinds : Grown(e, f, kinds)
         \/ f \in Ents(pending') /\ Fresh(f)
  <1>1. f \in Ents(pending') \/ f \in Ents(connected')
    BY DEF entries, Ents
  <1> QED
    BY <1>1 DEF ServerStep, entries

LEMMA OwnedKept ==
  ASSUME Duplicating, ServerStep, NEW salt, NEW addr, Owned(salt, addr)
  PROVE  Owned(salt, addr)'
  <1> SUFFICES ASSUME salt[2] # 0
               PROVE  /\ salt[2] \in salts'
                      /\ \A f \in entries' : f.salt[2] = salt[2] => f.addr = addr /\ f.salt = salt
    BY DEF Owned
  <1>1. salt[2] \in salts /\ salt[2] \in salts'
    BY DEF Owned, ServerStep
  <1>2. ASSUME NEW f \in entries', f.salt[2] = salt[2] PROVE f.addr = addr /\ f.salt = salt
    <2>1. PICK e \in entries : \E kinds : Grown(e, f, kinds)
      BY <1>1, <1>2, EntryStep DEF Fresh
    <2>2. f.addr = e.addr /\ f.salt = e.salt
      BY <2>1 DEF Grown
    <2> QED
      BY <1>2, <2>2 DEF Owned
  <1> QED
    BY <1>1, <1>2

LEMMA EntriesOwned ==
  ASSUME Duplicating, StateTypes, SessionsOnce, SessionsOnce', SaltsOwned, ServerStep, OneFresh,
         NEW f \in entries'
  PROVE  Owned(f.salt, f.addr)'
  <1>1. CASE \E e \in entries : \E kinds : Grown(e, f, kinds)
    <2>1. PICK e \in entries : f.addr = e.addr /\ f.salt = e.salt
      BY <1>1 DEF Grown
    <2>2. Owned(e.salt, e.addr)
      BY DEF SaltsOwned
    <2>3. Owned(f.salt, f.addr)
      BY <2>1, <2>2
    <2> QED
      BY <2>3, OwnedKept
  <1>2. CASE f \in Ents(pending') /\ Fresh(f)
    <2>1. f.salt[2] \in salts'
      BY DEF SessionsOnce
    <2>2. ASSUME NEW g \in entries', g.salt[2] = f.salt[2] PROVE g = f
      <3>1. f.salt[2] \notin salts
        BY <1>2 DEF Fresh
      <3>2. ~ \E e \in entries : \E kinds : Grown(e, g, kinds)
        BY <2>2, <3>1 DEF Grown, SessionsOnce
      <3>3. g \in Ents(pending') /\ Fresh(g)
        BY <3>2, EntryStep
      <3> QED
        BY <1>2, <3>3 DEF OneFresh
    <2> QED
      BY <2>1, <2>2 DEF Owned
  <1> QED
    BY <1>1, <1>2, EntryStep

LEMMA SaltsServer ==
  ASSUME Duplicating, StateTypes, SessionsOnce, SessionsOnce', SaltsOwned, ServerStep, OneFresh
  PROVE  SaltsOwned'
  <1>1. \A e \in entries' : Owned(e.salt, e.addr)'
    BY EntriesOwned
  <1>2. ASSUME NEW p \in made' PROVE Owned(p.salt, p.addr)'
    <2>1. CASE p \in made
      BY <2>1, OwnedKept DEF SaltsOwned
    <2>2. CASE Denial(p)
      BY <2>2 DEF Denial, NoSalt, Owned
    <2>3. ASSUME NEW f \in entries', Said(f, p) PROVE Owned(p.salt, p.addr)'
      <3>1. p.salt = f.salt /\ p.addr = f.addr
        BY <2>3 DEF Said
      <3>2. Owned(f.salt, f.addr)'
        BY <1>1
      <3> QED
        BY <3>1, <3>2
    <2>4. \A f \in Ents(pending') : f \in entries'
      BY DEF entries, Ents
    <2>5. \A f \in Ents(connected') : f \in entries'
      BY DEF entries, Ents
    <2> QED
      BY <2>1, <2>2, <2>3, <2>4, <2>5, MadeStep
  <1>3. ASSUME NEW c \in Clients PROVE Owned(xor_salt[c], c)'
    <2>1. xor_salt' = xor_salt
      BY DEF ServerStep, client_vars
    <2>2. Owned(xor_salt[c], c)
      BY DEF SaltsOwned
    <2>3. PICK s : s = xor_salt[c]
      OBVIOUS
    <2>4. Owned(s, c)'
      BY <2>2, <2>3, OwnedKept
    <2> QED
      BY <2>1, <2>3, <2>4 DEF Owned
  <1> QED
    BY <1>1, <1>2, <1>3 DEF SaltsOwned

\* What an entry has processed, in numbers.
LEMMA HeardNumbered ==
  ASSUME Duplicating, StateTypes, SessionsOnce, NumbersInv, NEW e \in entries, NEW p \in net,
         Heard(e, p), e.salt[1] = client_salt[e.addr]
  PROVE  p.id \in 1 .. endpoint[e.addr].sequence
  <1>1. p \in made /\ p.to = Server /\ p.type # "OldRequest"
    BY OutboxesMade DEF Heard
  <1>2. p.salt[1] = e.salt[1] /\ p.addr = e.addr
    <2>1. CASE p.salt = e.salt
      <3>1. e.salt[2] # 0
        BY EntrySalts
      <3>2. Owned(p.salt, p.addr)
        BY <1>1 DEF NumbersInv, SaltsOwned
      <3> QED
        BY <2>1, <3>1, <3>2 DEF Owned
    <2> QED
      BY <2>1 DEF Heard
  <1> QED
    BY <1>1, <1>2 DEF NumbersInv, PacketsNumbered, RequestNumbered

LEMMA NumbersServer ==
  ASSUME Duplicating, StateTypes, StateTypes', SessionsOnce, SessionsOnce', NumbersInv,
         ServerStep, OneFresh
  PROVE  NumbersInv'
  <1>1. SaltsOwned'
    BY SaltsServer DEF NumbersInv
  <1>2. /\ state' = state /\ client_salt' = client_salt /\ xor_salt' = xor_salt
        /\ endpoint' = endpoint /\ connects' = connects
    BY DEF ServerStep, client_vars
  <1>3. /\ \A e \in entries : e \in Entries /\ e.endpoint.sequence \in Nat
        /\ \A e \in entries' : e \in Entries /\ e.endpoint.sequence \in Nat
    <2>1. \A e \in entries : e \in Entries
      BY ServerFacts
    <2>2. \A e \in entries' : e \in Entries
      <3>1. pending' \in Seq(Entries) /\ connected' \in Seq(Entries)
        BY DEF StateTypes, ServerTypes
      <3>2. \A e \in Ents(pending') : e \in Entries
        BY <3>1, ListEntries
      <3>3. \A e \in Ents(connected') : e \in Entries
        BY <3>1, ListEntries
      <3> QED
        BY <3>2, <3>3 DEF entries, Ents
    <2> QED
      BY <2>1, <2>2, EntryFields
  <1>4. ASSUME NEW f \in entries', NEW n \in Int,
               \A e \in entries : e.salt = f.salt => n <= e.endpoint.sequence,
               Fresh(f) => f.salt[2] \in salts
        PROVE  n <= f.endpoint.sequence
    <2>1. PICK e \in entries : \E kinds : Grown(e, f, kinds)
      BY <1>4, EntryStep DEF Fresh
    <2>2. e.salt = f.salt /\ f.endpoint.sequence >= e.endpoint.sequence
      BY <2>1 DEF Grown
    <2>3. n <= e.endpoint.sequence
      BY <1>4, <2>2
    <2> QED
      BY <1>3, <2>2, <2>3
  <1>5. ClientNumbered'
    <2> SUFFICES ASSUME NEW c \in Clients, NEW f \in entries', f.salt = xor_salt[c],
                        NEW n \in endpoint[c].seen
                 PROVE  n \in 1 .. f.endpoint.sequence
      BY <1>2 DEF NumbersInv, ClientNumbered
    <2>1. n \in 0 .. MaxPackets
      BY DEF StateTypes, ClientTypes, Endpoints
    <2>2. \A e \in entries : e.salt = f.salt => n \in 1 .. e.endpoint.sequence
      BY DEF NumbersInv, ClientNumbered
    <2>3. Fresh(f) => f.salt[2] \in salts
      <3>1. Owned(xor_salt[c], c)
        BY DEF NumbersInv, SaltsOwned
      <3> QED
        BY <3>1 DEF Fresh, Owned
    <2>4. n \in Int /\ \A e \in entries : e.salt = f.salt => n <= e.endpoint.sequence
      BY <1>3, <2>1, <2>2, Bounds
    <2>5. n <= f.endpoint.sequence
      BY <1>4, <2>3, <2>4
    <2>6. PICK e \in entries : \E kinds : Grown(e, f, kinds)
      BY <2>3, EntryStep DEF Fresh
    <2>7. n \in 1 .. e.endpoint.sequence
      BY <2>2, <2>6 DEF Grown
    <2> QED
      BY <1>3, <2>1, <2>5, <2>7, Bounds
  <1>6. EntryNumbered'
    <2> SUFFICES ASSUME NEW f \in entries'
                 PROVE  /\ f.addr \in Clients /\ f.salt[1] \in 1 .. connects[f.addr]
                        /\ f.salt[1] = client_salt[f.addr] =>
                             f.endpoint.seen \subseteq 1 .. endpoint[f.addr].sequence
      BY <1>2 DEF EntryNumbered
    <2>1. CASE \E e \in entries : \E kinds : Grown(e, f, kinds)
      <3>1. PICK e \in entries :
              /\ f.addr = e.addr /\ f.salt = e.salt
              /\ \A n \in f.endpoint.seen : n \in e.endpoint.seen \/ \E p \in net : Heard(e, p) /\ p.id = n
        BY <2>1 DEF Grown
      <3>2. /\ e.addr \in Clients /\ e.salt[1] \in 1 .. connects[e.addr]
            /\ e.salt[1] = client_salt[e.addr] =>
                 e.endpoint.seen \subseteq 1 .. endpoint[e.addr].sequence
        BY DEF NumbersInv, EntryNumbered
      <3>3. ASSUME e.salt[1] = client_salt[e.addr], NEW n \in f.endpoint.seen
            PROVE  n \in 1 .. endpoint[e.addr].sequence
        BY <3>1, <3>2, <3>3, HeardNumbered
      <3> QED
        BY <3>1, <3>2, <3>3
    <2>2. CASE Fresh(f)
      <3>1. PICK p \in net : /\ p.to = Server /\ p.type = "ConnectionRequest"
                             /\ f.addr = p.addr /\ f.salt[1] = p.salt[1]
                             /\ f.endpoint.seen \subseteq {p.id}
        BY <2>2 DEF Fresh
      <3>2. /\ p.addr \in Clients /\ p.salt[1] \in 1 .. connects[p.addr]
            /\ p.salt[1] = client_salt[p.addr] => p.id \in 1 .. endpoint[p.addr].sequence
        BY <3>1, OutboxesMade DEF NumbersInv, PacketsNumbered, RequestNumbered
      <3> QED
        BY <3>1, <3>2
    <2> QED
      BY <2>1, <2>2, EntryStep
  <1>7. PacketsNumbered'
    <2> SUFFICES ASSUME NEW p \in made'
                 PROVE  /\ p.to # Server => p.to = p.addr
                        /\ ReplyNumbered(p)' /\ RequestNumbered(p)'
      BY DEF PacketsNumbered
    <2>1. CASE p \in made
      <3>1. /\ p.to # Server => p.to = p.addr
            /\ ReplyNumbered(p) /\ RequestNumbered(p) /\ Owned(p.salt, p.addr) /\ p \in Packets
        BY <2>1, ServerFacts DEF NumbersInv, PacketsNumbered, SaltsOwned
      <3>2. RequestNumbered(p)'
        BY <1>2, <3>1 DEF RequestNumbered
      <3>3. ReplyNumbered(p)'
        <4> SUFFICES ASSUME p.to # Server, p.type \notin Denials
                     PROVE  /\ p.id >= 1 /\ p.salt[2] # 0
                            /\ \A f \in entries' : f.salt = p.salt => p.id <= f.endpoint.sequence
          BY DEF ReplyNumbered
        <4>1. /\ p.id >= 1 /\ p.salt[2] # 0
              /\ \A e \in entries : e.salt = p.salt => p.id <= e.endpoint.sequence
          BY <3>1 DEF ReplyNumbered
        <4>2. p.id \in Int /\ p.salt[2] \in salts
          BY <3>1, <4>1, PacketFields, Bounds DEF Owned
        <4> QED
          BY <1>4, <4>1, <4>2
      <3> QED
        BY <3>1, <3>2, <3>3
    <2>2. CASE Denial(p)
      BY <2>2 DEF Denial, ReplyNumbered, RequestNumbered
    <2>3. ASSUME NEW f \in entries', Said(f, p), NEW e \in entries,
                 f.endpoint.sequence > e.endpoint.sequence
          PROVE  /\ p.to # Server => p.to = p.addr
                 /\ ReplyNumbered(p)' /\ RequestNumbered(p)'
      <3>1. /\ p.to = f.addr /\ p.addr = f.addr /\ p.salt = f.salt /\ p.id = f.endpoint.sequence
        BY <2>3 DEF Said
      <3>2. f.addr # Server
        BY <1>3, EntryFields, ConnectionAssumption DEF Addresses, Server
      <3>3. p.id >= 1
        BY <1>3, <2>3, <3>1
      <3>4. /\ p.salt[2] # 0
            /\ \A g \in entries' : g.salt = p.salt => g = f
        <4>1. /\ \A x \in entries' : x.salt[2] # 0
              /\ \A x, y \in entries' : x.salt = y.salt => x = y
          <5>1. salts' \in SUBSET (1 .. MaxSalts)
            BY DEF StateTypes, ServerTypes
          <5>2. \A x \in entries' : x.salt[2] # 0
            BY <5>1 DEF SessionsOnce
          <5>3. \A x, y \in entries' : x.salt = y.salt => x = y
            BY DEF SessionsOnce, entries, Ents, Distinct
          <5> QED
            BY <5>2, <5>3
        <4> QED
          BY <3>1, <4>1
      <3>5. ReplyNumbered(p)'
        BY <1>3, <3>1, <3>3, <3>4 DEF ReplyNumbered
      <3>6. RequestNumbered(p)'
        BY <3>1, <3>2 DEF RequestNumbered
      <3> QED
        BY <3>1, <3>5, <3>6
    <2>4. \A f \in Ents(pending') : f \in entries'
      BY DEF entries, Ents
    <2>5. \A f \in Ents(connected') : f \in entries'
      BY DEF entries, Ents
    <2>6. \A e \in Ents(pending) : e \in entries
      BY DEF entries
    <2> QED
      BY <2>1, <2>2, <2>3, <2>4, <2>5, <2>6, MadeStep
  <1> QED
    BY <1>1, <1>5, <1>6, <1>7 DEF NumbersInv

\* The packet a client's step makes, if it makes one.
LEMMA ClientPacket ==
  ASSUME Duplicating, StateTypes, HandshakeInv, NumbersInv, NEW c \in Clients, ClientStep(c),
         NEW p \in net'
  PROVE  \/ p \in net
         \/ /\ p.to = Server /\ p.addr = c /\ Owned(p.salt, c)
            /\ p.salt[1] = client_salt[c] /\ client_salt[c] \in 1 .. connects[c]
            /\ p.id = endpoint'[c].sequence /\ endpoint'[c].sequence >= 1
            /\ client_salt'[c] = client_salt[c] /\ connects'[c] = connects[c]
  <1>1. CASE Sends(c)
    <2>1. PICK q \in Packets :
            /\ net' = net \cup {q} /\ q.to = Server /\ q.addr = c /\ q.id = endpoint'[c].sequence
            /\ endpoint'[c].sequence = endpoint[c].sequence + 1
            /\ \/ state[c] = "SendingConnectionRequest" /\ q.salt = <<client_salt[c], 0>>
               \/ state[c] \in {"SendingChallengeResponse", "Connected"} /\ q.salt = xor_salt[c]
      BY <1>1 DEF Sends
    <2>2. client_salt'[c] = client_salt[c] /\ connects'[c] = connects[c]
      BY <1>1 DEF Sends, GoesOn
    <2>3. endpoint[c].sequence \in 0 .. MaxPackets /\ client_salt[c] \in 0 .. MaxConnects
          /\ connects[c] \in 0 .. MaxConnects
      BY DEF StateTypes, ClientTypes, Endpoints
    <2>4. endpoint'[c].sequence >= 1
      BY <2>1, <2>3, Bounds
    <2>5. client_salt[c] \in 1 .. connects[c]
      <3>1. client_salt[c] <= connects[c] /\ client_salt[c] >= 1
        BY <2>1 DEF NumbersInv, ClientNumbered
      <3> QED
        BY <2>3, <3>1, Bounds
    <2>6. q.salt[1] = client_salt[c] /\ Owned(q.salt, c)
      <3>1. CASE q.salt = <<client_salt[c], 0>>
        BY <3>1 DEF Owned
      <3>2. CASE state[c] \in {"SendingChallengeResponse", "Connected"} /\ q.salt = xor_salt[c]
        BY <3>2 DEF HandshakeInv, AttemptsAgree, NumbersInv, SaltsOwned
      <3> QED
        BY <2>1, <3>1, <3>2
    <2> QED
      BY <2>1, <2>2, <2>4, <2>5, <2>6
  <1>2. CASE ~ Sends(c)
    BY <1>2 DEF ClientStep, StartsOver, Begins, TakesUp, Hears, Rests
  <1> QED
    BY <1>1, <1>2

LEMMA NumbersClient ==
  ASSUME Duplicating, ConnectFrom \subseteq {"Disconnected"}, StateTypes, StateTypes',
         HandshakeInv, NumbersInv, NEW c \in Clients, ClientStep(c)
  PROVE  NumbersInv'
  <1>1. entries' = entries /\ outbox' = outbox /\ salts' = salts
    BY DEF ClientStep, server_vars, entries, Ents
  <1>2. \A salt, addr : Owned(salt, addr) => Owned(salt, addr)'
    BY <1>1 DEF Owned
  <1>3. \A p \in made' : p \in made \/ p \in net'
    BY <1>1 DEF made
  <1>4. \A d \in Clients \ {c} :
          /\ state'[d] = state[d] /\ client_salt'[d] = client_salt[d] /\ xor_salt'[d] = xor_salt[d]
          /\ endpoint'[d] = endpoint[d] /\ connects'[d] = connects[d]
    BY DEF ClientStep
  <1>5. /\ \A d \in Clients : /\ client_salt[d] \in Nat /\ connects[d] \in Nat
                              /\ endpoint[d].sequence \in Nat
        /\ \A d \in Clients : /\ client_salt'[d] \in Nat /\ connects'[d] \in Nat
                              /\ endpoint'[d].sequence \in Nat
    BY Bounds DEF StateTypes, ClientTypes, Endpoints
  <1>6. /\ \A e \in entries : e.salt[2] # 0 /\ e.salt # NoSalt
        /\ \A e \in entries : e.endpoint.sequence \in Nat
    <2>1. \A e \in entries : e.salt[2] # 0
      BY EntrySalts DEF HandshakeInv
    <2>2. NoSalt[2] = 0
      BY DEF NoSalt
    <2>3. \A e \in entries : e.endpoint.sequence \in 0 .. MaxPackets
      BY ServerFacts, EntryFields
    <2> QED
      BY <2>1, <2>2, <2>3, Bounds
  <1>7. SaltsOwned'
    <2>1. ASSUME NEW e \in entries' PROVE Owned(e.salt, e.addr)'
      BY <1>1, <1>2 DEF NumbersInv, SaltsOwned
    <2>2. ASSUME NEW p \in made' PROVE Owned(p.salt, p.addr)'
      <3>1. CASE p \in made
        BY <1>2, <3>1 DEF NumbersInv, SaltsOwned
      <3>2. CASE p \in net' /\ p \notin net
        BY <1>2, <3>2, ClientPacket
      <3> QED
        BY <1>3, <3>1, <3>2, OutboxesMade
    <2>3. Owned(xor_salt'[c], c)
      <3>1. Owned(NoSalt, c) /\ Owned(xor_salt[c], c)
        BY DEF NoSalt, Owned, NumbersInv, SaltsOwned
      <3>2. CASE TakesUp(c)
        <4>1. PICK p \in net : p.to = c /\ xor_salt'[c] = p.salt
          BY <3>2 DEF TakesUp
        <4>2. p \in made /\ p.to # Server
          BY <4>1, OutboxesMade, ConnectionAssumption DEF Server
        <4>3. p.addr = c /\ Owned(p.salt, p.addr)
          BY <4>1, <4>2 DEF NumbersInv, SaltsOwned, PacketsNumbered
        <4> QED
          BY <4>1, <4>3
      <3>3. CASE ~ TakesUp(c)
        BY <3>1, <3>3 DEF ClientStep, StartsOver, Begins, Sends, Hears, Rests
      <3> QED
        BY <3>2, <3>3
    <2>4. ASSUME NEW d \in Clients PROVE Owned(xor_salt[d], d)'
      <3>1. Owned(xor_salt'[d], d)
        BY <1>4, <2>3 DEF NumbersInv, SaltsOwned
      <3> QED
        BY <1>1, <3>1 DEF Owned
    <2> QED
      BY <2>1, <2>2, <2>4 DEF SaltsOwned
  <1>8. EntryNumbered'
    <2> SUFFICES ASSUME NEW e \in entries
                 PROVE  /\ e.addr \in Clients /\ e.salt[1] \in 1 .. connects'[e.addr]
                        /\ e.salt[1] = client_salt'[e.addr] =>
                             e.endpoint.seen \subseteq 1 .. endpoint'[e.addr].sequence
      BY <1>1 DEF EntryNumbered
    <2>1. /\ e.addr \in Clients /\ e.salt[1] \in 1 .. connects[e.addr]
          /\ e.salt[1] = client_salt[e.addr] =>
               e.endpoint.seen \subseteq 1 .. endpoint[e.addr].sequence
      BY DEF NumbersInv, EntryNumbered
    <2>2. CASE e.addr # c
      BY <1>4, <2>1, <2>2
    <2>3. CASE e.addr = c
      <3>1. CASE StartsOver(c)
        BY <1>5, <2>1, <2>3, <3>1 DEF StartsOver
      <3>2. CASE Begins(c)
        BY <1>5, <2>1, <2>3, <3>2 DEF Begins
      <3>3. CASE /\ connects'[c] = connects[c] /\ client_salt'[c] = client_salt[c]
                 /\ endpoint'[c].sequence >= endpoint[c].sequence
        BY <1>5, <2>1, <2>3, <3>3
      <3>4. Sends(c) \/ TakesUp(c) \/ Hears(c) \/ Rests(c) =>
              /\ connects'[c] = connects[c] /\ client_salt'[c] = client_salt[c]
              /\ endpoint'[c].sequence >= endpoint[c].sequence
        BY <1>5 DEF Sends, TakesUp, Hears, Rests, GoesOn
      <3> QED
        BY <3>1, <3>2, <3>3, <3>4 DEF ClientStep
    <2> QED
      BY <2>2, <2>3
  <1>9. PacketsNumbered'
    <2> SUFFICES ASSUME NEW p \in made'
                 PROVE  /\ p.to # Server => p.to = p.addr
                        /\ ReplyNumbered(p)' /\ RequestNumbered(p)'
      BY DEF PacketsNumbered
    <2>1. CASE p \in made
      <3>1. /\ p.to # Server => p.to = p.addr
            /\ ReplyNumbered(p) /\ RequestNumbered(p)
        BY <2>1 DEF NumbersInv, PacketsNumbered
      <3>2. ReplyNumbered(p)'
        BY <1>1, <3>1 DEF ReplyNumbered
      <3>3. RequestNumbered(p)'
        <4> SUFFICES ASSUME p.to = Server, p.type # "OldRequest"
                     PROVE  /\ p.addr \in Clients /\ p.salt[1] \in 1 .. connects'[p.addr]
                            /\ p.salt[1] = client_salt'[p.addr] =>
                                 p.id \in 1 .. endpoint'[p.addr].sequence
          BY DEF RequestNumbered
        <4>1. /\ p.addr \in Clients /\ p.salt[1] \in 1 .. connects[p.addr]
              /\ p.salt[1] = client_salt[p.addr] => p.id \in 1 .. endpoint[p.addr].sequence
          BY <3>1 DEF RequestNumbered
        <4>2. CASE p.addr # c
          BY <1>4, <4>1, <4>2
        <4>3. CASE p.addr = c
          <5>1. CASE StartsOver(c)
            BY <1>5, <4>1, <4>3, <5>1 DEF StartsOver
          <5>2. CASE Begins(c)
            BY <1>5, <4>1, <4>3, <5>2 DEF Begins
          <5>3. CASE /\ connects'[c] = connects[c] /\ client_salt'[c] = client_salt[c]
                     /\ endpoint'[c].sequence >= endpoint[c].sequence
            BY <1>5, <4>1, <4>3, <5>3
          <5>4. Sends(c) \/ TakesUp(c) \/ Hears(c) \/ Rests(c) =>
                  /\ connects'[c] = connects[c] /\ client_salt'[c] = client_salt[c]
                  /\ endpoint'[c].sequence >= endpoint[c].sequence
            BY <1>5 DEF Sends, TakesUp, Hears, Rests, GoesOn
          <5> QED
            BY <5>1, <5>2, <5>3, <5>4 DEF ClientStep
        <4> QED
          BY <4>2, <4>3
      <3> QED
        BY <3>1, <3>2, <3>3
    <2>2. CASE p \in net' /\ p \notin net
      <3>1. /\ p.to = Server /\ p.addr = c
            /\ p.salt[1] = client_salt[c] /\ client_salt[c] \in 1 .. connects[c]
            /\ p.id = endpoint'[c].sequence /\ endpoint'[c].sequence >= 1
            /\ client_salt'[c] = client_salt[c] /\ connects'[c] = connects[c]
        BY <2>2, ClientPacket
      <3>2. RequestNumbered(p)'
        BY <1>5, <3>1 DEF RequestNumbered
      <3> QED
        BY <3>1, <3>2 DEF ReplyNumbered
    <2> QED
      BY <1>3, <2>1, <2>2, OutboxesMade
  <1>10. ClientNumbered'
    <2>1. ASSUME NEW d \in Clients, d # c
          PROVE  /\ client_salt'[d] <= connects'[d]
                 /\ state'[d] # "Disconnected" => client_salt'[d] >= 1
                 /\ xor_salt'[d] # NoSalt => xor_salt'[d][1] = client_salt'[d]
                 /\ state'[d] \in {"Disconnected", "SendingConnectionRequest"} => endpoint'[d].seen = {}
                 /\ \A e \in entries' : e.salt = xor_salt'[d] =>
                      endpoint'[d].seen \subseteq 1 .. e.endpoint.sequence
      BY <1>1, <1>4, <2>1 DEF NumbersInv, ClientNumbered
    <2>2. /\ client_salt[c] <= connects[c]
          /\ state[c] # "Disconnected" => client_salt[c] >= 1
          /\ xor_salt[c] # NoSalt => xor_salt[c][1] = client_salt[c]
          /\ state[c] \in {"Disconnected", "SendingConnectionRequest"} => endpoint[c].seen = {}
          /\ \A e \in entries : e.salt = xor_salt[c] =>
               endpoint[c].seen \subseteq 1 .. e.endpoint.sequence
      BY DEF NumbersInv, ClientNumbered
    <2>3. /\ client_salt'[c] <= connects'[c]
          /\ state'[c] # "Disconnected" => client_salt'[c] >= 1
      BY <1>5, <2>2 DEF ClientStep, StartsOver, Begins, Sends, TakesUp, Hears, Rests, GoesOn
    <2>4. xor_salt'[c] # NoSalt => xor_salt'[c][1] = client_salt'[c]
      BY <2>2 DEF ClientStep, StartsOver, Begins, Sends, TakesUp, Hears, Rests, GoesOn
    <2>5. state'[c] \in {"Disconnected", "SendingConnectionRequest"} => endpoint'[c].seen = {}
      BY <2>2 DEF ClientStep, StartsOver, Begins, Sends, TakesUp, Hears, Rests, GoesOn
    <2>6. ASSUME NEW p \in net, p.to = c, p.type \notin Denials, NEW e \in entries, e.salt = p.salt
          PROVE  p.id \in 1 .. e.endpoint.sequence
      <3>1. p \in made /\ p.to # Server /\ p \in Packets
        BY <2>6, OutboxesMade, ServerFacts, ConnectionAssumption DEF Server
      <3>2. p.id >= 1 /\ p.id <= e.endpoint.sequence
        BY <2>6, <3>1 DEF NumbersInv, PacketsNumbered, ReplyNumbered
      <3> QED
        BY <1>6, <3>1, <3>2, PacketFields, Bounds
    <2>7. ASSUME NEW e \in entries, e.salt = xor_salt'[c]
          PROVE  endpoint'[c].seen \subseteq 1 .. e.endpoint.sequence
      <3>1. CASE StartsOver(c) \/ Begins(c)
        BY <1>6, <2>7, <3>1 DEF StartsOver, Begins
      <3>2. CASE Sends(c) \/ Rests(c)
        BY <2>2, <2>7, <3>2 DEF Sends, Rests
      <3>3. CASE TakesUp(c)
        <4>1. PICK p \in net : /\ p.to = c /\ p.type = "ConnectionChallenge"
                               /\ xor_salt'[c] = p.salt
                               /\ endpoint'[c].seen \subseteq endpoint[c].seen \cup {p.id}
          BY <3>3 DEF TakesUp
        <4>2. endpoint[c].seen = {}
          BY <2>2, <3>3 DEF TakesUp
        <4>3. p.id \in 1 .. e.endpoint.sequence
          BY <2>6, <2>7, <4>1 DEF Denials
        <4> QED
          BY <4>1, <4>2, <4>3
      <3>4. CASE Hears(c)
        <4>1. PICK p \in net : /\ p.to = c /\ p.type \in Announcements /\ p.salt = xor_salt[c]
                               /\ xor_salt'[c] = xor_salt[c]
                               /\ endpoint'[c].seen \subseteq endpoint[c].seen \cup {p.id}
          BY <3>4 DEF Hears
        <4>2. p.id \in 1 .. e.endpoint.sequence
          BY <2>6, <2>7, <4>1 DEF Denials, Announcements
        <4> QED
          BY <2>2, <2>7, <4>1, <4>2
      <3> QED
        BY <3>1, <3>2, <3>3, <3>4 DEF ClientStep
    <2> QED
      BY <1>1, <2>1, <2>3, <2>4, <2>5, <2>7 DEF ClientNumbered
  <1> QED
    BY <1>7, <1>8, <1>9, <1>10 DEF NumbersInv

LEMMA NumbersInit == Init => NumbersInv
  <1> SUFFICES ASSUME Init PROVE NumbersInv
    OBVIOUS
  <1>1. entries = {} /\ made = net
    BY DEF Init, entries, Ents, made
  <1>2. \A p \in net : p.to = Server /\ p.type = "OldRequest" /\ p.salt = <<1, 0>>
    BY PacketFacts DEF Init
  <1>3. SaltsOwned
    BY <1>1, <1>2 DEF Init, SaltsOwned, Owned, NoSalt
  <1>4. ClientNumbered
    BY <1>1, NewEndpointFacts DEF Init, ClientNumbered
  <1>5. EntryNumbered /\ PacketsNumbered
    BY <1>1, <1>2 DEF EntryNumbered, PacketsNumbered, ReplyNumbered, RequestNumbered
  <1> QED
    BY <1>3, <1>4, <1>5 DEF NumbersInv

LEMMA NumbersNext ==
  ASSUME Duplicating, ConnectFrom \subseteq {"Disconnected"}, StateTypes, StateTypes',
         HandshakeInv, HandshakeInv', NumbersInv, [Next]_vars
  PROVE  NumbersInv'
  <1>1. ASSUME NEW c \in Clients, ClientAction(c) PROVE NumbersInv'
    BY <1>1, ClientActionStep, NumbersClient
  <1>2. CASE ServerStep
    <2>1. SessionsOnce /\ SessionsOnce' /\ OneFresh
      BY <1>2 DEF ServerStep, HandshakeInv
    <2> QED
      BY <1>2, <2>1, NumbersServer
  <1>3. CASE UNCHANGED vars
    <2>1. entries' = entries /\ made' = made
      BY <1>3 DEF vars, server_vars, entries, Ents, made
    <2> QED
      BY <1>3, <2>1 DEF vars, client_vars, server_vars, NumbersInv, SaltsOwned, Owned,
           ClientNumbered, EntryNumbered, PacketsNumbered, ReplyNumbered, RequestNumbered
  <1> QED
    BY <1>1, <1>2, <1>3, StepKinds

LEMMA NumbersAlways ==
  ASSUME Duplicating, ConnectFrom \subseteq {"Disconnected"}
  PROVE  Spec => [](StateTypes /\ HandshakeInv /\ NumbersInv)
  <1>1. Init => NumbersInv
    BY NumbersInit
  <1>2. StateTypes /\ StateTypes' /\ HandshakeInv /\ HandshakeInv' /\ NumbersInv /\ [Next]_vars
          => NumbersInv'
    BY NumbersNext
  <1> QED
    BY <1>1, <1>2, HandshakeAlways, PTL DEF Spec

\* When the application calls connect only on a Disconnected client, the duplicate
\* filters of the two ends of a session hold numbers of that session only, for
\* every interleaving of attempts, resets, duplicates and late packets: no packet
\* of a session is refused because an earlier session used its number.
THEOREM FiltersOfThisSession ==
  ASSUME Duplicating, ConnectFrom \subseteq {"Disconnected"}
  PROVE  Spec => []SeenWereSent
  <1>1. ASSUME StateTypes, HandshakeInv, NumbersInv PROVE SeenWereSent
    <2> SUFFICES ASSUME NEW c \in Clients, NEW e \in entries, e.salt = xor_salt[c], e.addr = c
                 PROVE  /\ endpoint[c].seen \subseteq 1 .. e.endpoint.sequence
                        /\ e.endpoint.seen \subseteq 1 .. endpoint[c].sequence
      BY DEF SeenWereSent, entries, Ents
    <2>1. endpoint[c].seen \subseteq 1 .. e.endpoint.sequence
      BY <1>1 DEF NumbersInv, ClientNumbered
    <2>2. e.salt # NoSalt
      BY <1>1, EntrySalts DEF HandshakeInv, NoSalt
    <2>3. e.salt[1] = client_salt[e.addr]
      BY <1>1, <2>2 DEF NumbersInv, ClientNumbered
    <2> QED
      BY <1>1, <2>1, <2>3 DEF NumbersInv, EntryNumbered
  <1> QED
    BY <1>1, NumbersAlways, PTL
=============================================================================
