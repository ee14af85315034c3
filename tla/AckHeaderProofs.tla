-------------------------- MODULE AckHeaderProofs --------------------------
(***************************************************************************)
(* The ack field is read as it was written, and cut out of the datagram    *)
(* exactly: for every number of acks per byte, every greatest length of    *)
(* the field, every first number and every set of received packets.        *)
(***************************************************************************)
EXTENDS AckHeader, SequenceTheorems, TLAPS

-----------------------------------------------------------------------------
(* The inductive invariant *)

\* The list, the field and what parse made of the datagram are those of one call
\* of from_ack_iter.
Written ==
  \E ack_id \in SeqIds, n \in 1 .. MaxAcks :
    \E present \in SUBSET {wrapping_sub(ack_id, i) : i \in 0 .. MaxAcks - 1} :
      /\ acks = ack_iter(ack_id, n, present)
      /\ num_acks = n
      /\ header = parse(from_ack_iter(n, acks).ack_id,
                        from_ack_iter(n, acks).bytes \o Payload)

\* The offsets say how many acks have been read.
Position ==
  \/ /\ byte_offset \in 0 .. bytes_for(num_acks) - 1
     /\ bit_offset \in 0 .. BitsPerByte - 1
     /\ Len(out) = BitsPerByte * byte_offset + bit_offset
  \/ /\ byte_offset = MaxAckBytes
     /\ Len(out) = BitsPerByte * bytes_for(num_acks)

\* What has been read is the beginning of the list.
ReadSoFar ==
  /\ out \in Seq(Int \X BOOLEAN)
  /\ \A k \in 1 .. Len(out) : out[k] = acks[k]

FieldInv == Written /\ Position /\ ReadSoFar

-----------------------------------------------------------------------------
(* Arithmetic of whole bytes *)

LEMMA Products ==
  ASSUME NEW b \in Nat, b >= 1, NEW x \in Int, NEW y \in Int
  PROVE  /\ b * x \in Int /\ b * y \in Int /\ x * b = b * x
         /\ x < y <=> b * x < b * y
         /\ x < y => b * x + b <= b * y
         /\ x <= y => b * x <= b * y
  <1>1. b * x \in Int /\ b * y \in Int /\ x * b = b * x
    BY SMT
  <1>2. x < y => b * x + b <= b * y
    <2>1. SUFFICES ASSUME x < y PROVE b * x + b <= b * y
      OBVIOUS
    <2>2. y - x - 1 \in Nat
      BY <2>1
    <2>3. b * (y - x - 1) \in Nat
      BY <2>2, SMT
    <2>4. b * (y - x - 1) = b * y - b * x - b
      BY SMT
    <2> QED BY <1>1, <2>3, <2>4
  <1>3. x <= y => b * x <= b * y
    BY <1>1, <1>2
  <1>4. y <= x => b * y <= b * x
    <2>1. SUFFICES ASSUME y <= x PROVE b * y <= b * x
      OBVIOUS
    <2>2. b * (x - y) \in Nat
      BY <2>1, SMT
    <2>3. b * (x - y) = b * x - b * y
      BY SMT
    <2> QED BY <1>1, <2>2, <2>3
  <1> QED BY <1>1, <1>2, <1>3, <1>4

\* A field of n acks has no more than the greatest number of bytes, at least one,
\* and holds all n.
LEMMA WholeBytes ==
  ASSUME NEW n \in 1 .. MaxAcks
  PROVE  /\ bytes_for(n) \in 1 .. MaxAckBytes
         /\ bytes_for(n) * BitsPerByte \in Nat
         /\ bytes_for(n) * BitsPerByte = BitsPerByte * bytes_for(n)
  <1> DEFINE B == BitsPerByte
             a == n + B - 1
             N == a \div B
  <1>1. B \in Nat /\ B >= 1 /\ MaxAckBytes \in Nat /\ MaxAckBytes >= 1
    BY FieldAssumption
  <1>2. MaxAcks \in Nat /\ n \in Nat /\ n >= 1 /\ n <= B * MaxAckBytes
    BY <1>1, SMT DEF MaxAcks
  <1>3. a \in Nat /\ a >= B
    BY <1>1, <1>2
  <1>4. N \in Int /\ a = B * N + (a % B) /\ a % B \in 0 .. B - 1
    BY <1>1, <1>3, SMT
  <1>5. bytes_for(n) = N
    BY DEF bytes_for
  <1> HIDE DEF N
  <1>6. B * N \in Int
    BY <1>1, <1>4, SMT
  <1>7. N >= 1
    <2>1. SUFFICES ASSUME N <= 0 PROVE FALSE
      BY <1>4
    <2>2. B * N <= B * 0
      BY <1>1, <1>4, <2>1, Products
    <2>3. B * 0 = 0
      BY <1>1, SMT
    <2> QED BY <1>1, <1>3, <1>4, <1>6, <2>2, <2>3
  <1>8. N <= MaxAckBytes
    <2>1. SUFFICES ASSUME MaxAckBytes < N PROVE FALSE
      BY <1>1, <1>4
    <2>2. B * MaxAckBytes + B <= B * N /\ B * MaxAckBytes \in Int
      BY <1>1, <1>4, <2>1, Products
    <2> QED BY <1>1, <1>2, <1>4, <1>6, <2>2
  <1>9. N * B = B * N /\ B * N \in Nat
    BY <1>1, <1>4, <1>7, SMT
  <1> QED BY <1>1, <1>4, <1>5, <1>7, <1>8, <1>9

-----------------------------------------------------------------------------
(* Pairs and bytes that hold a truth value *)

pair(s, b) == <<s, b>>

byte(bits, more) == [bits |-> bits, more |-> more]

LEMMA PairParts ==
  ASSUME NEW s, NEW b
  PROVE  pair(s, b)[1] = s /\ pair(s, b)[2] = b
  BY DEF pair

LEMMA PairType ==
  ASSUME NEW s \in Int, NEW b \in BOOLEAN
  PROVE  pair(s, b) \in Int \X BOOLEAN
  BY DEF pair

LEMMA ByteParts ==
  ASSUME NEW bits, NEW more
  PROVE  byte(bits, more).bits = bits /\ byte(bits, more).more = more
  BY DEF byte

LEMMA ByteType ==
  ASSUME NEW S, NEW bits \in SUBSET S, NEW more \in BOOLEAN
  PROVE  byte(bits, more) \in [bits : SUBSET S, more : BOOLEAN]
  BY DEF byte

-----------------------------------------------------------------------------
(* What from_ack_iter writes and parse takes *)

\* What the reader meets: as many bytes as were written, a continuation bit in all
\* but the last, and in each the acks of its part of the list.
FieldOf(n) ==
  /\ \A k \in 1 .. bytes_for(n) : header.bytes[k].more <=> k < bytes_for(n)
  /\ \A k \in 0 .. bytes_for(n) - 1, i \in 0 .. BitsPerByte - 1 :
       acks[BitsPerByte * k + i + 1] =
         <<wrapping_sub(header.ack_id, BitsPerByte * k + i), i \in header.bytes[k + 1].bits>>

\* parse stops behind the first byte without continuation bit.
LEMMA ParseStops ==
  ASSUME NEW ack_id, NEW S, NEW b1 \in Seq(S), NEW b2 \in Seq(S),
         Len(b1) \in 1 .. MaxAckBytes,
         \A k \in 1 .. Len(b1) : b1[k].more <=> k < Len(b1)
  PROVE  parse(ack_id, b1 \o b2) = [ack_id |-> ack_id, bytes |-> SubSeq(b1 \o b2, 1, Len(b1))]
  <1> DEFINE d == b1 \o b2
             last(k) == k = MaxAckBytes \/ ~ d[k].more
             n == CHOOSE k \in 1 .. Len(d) : last(k) /\ \A j \in 1 .. k - 1 : ~ last(j)
  <1>1. /\ d \in Seq(S) /\ Len(d) = Len(b1) + Len(b2) /\ Len(b2) \in Nat
        /\ Len(b1) \in Nat /\ MaxAckBytes \in Nat
        /\ \A k \in 1 .. Len(b1) : d[k] = b1[k]
    BY FieldAssumption
  <1> HIDE DEF d
  <1>2. last(Len(b1)) /\ Len(b1) \in 1 .. Len(d)
    BY <1>1
  <1>3. \A j \in 1 .. Len(b1) - 1 : ~ last(j)
    BY <1>1
  <1>4. \A k \in 1 .. Len(d) :
          (last(k) /\ \A j \in 1 .. k - 1 : ~ last(j)) => k = Len(b1)
    <2> TAKE k \in 1 .. Len(d)
    <2> HAVE last(k) /\ \A j \in 1 .. k - 1 : ~ last(j)
    <2>1. ~ k < Len(b1)
      BY <1>1, <1>3
    <2>2. ~ Len(b1) < k
      BY <1>1, <1>2
    <2> QED BY <1>1, <2>1, <2>2
  <1> HIDE DEF last
  <1>5. n = Len(b1)
    BY <1>2, <1>3, <1>4
  <1> QED BY <1>5 DEF parse, last, d

LEMMA FieldRead ==
  ASSUME Written
  PROVE  /\ num_acks \in 1 .. MaxAcks
         /\ Len(acks) = BitsPerByte * bytes_for(num_acks) /\ acks \in Seq(Int \X BOOLEAN)
         /\ Len(header.bytes) = bytes_for(num_acks)
         /\ FieldOf(num_acks)
  <1>1. PICK ack_id \in SeqIds, n \in 1 .. MaxAcks :
          \E present \in SUBSET {wrapping_sub(ack_id, i) : i \in 0 .. MaxAcks - 1} :
            /\ acks = ack_iter(ack_id, n, present)
            /\ num_acks = n
            /\ header = parse(from_ack_iter(n, acks).ack_id,
                              from_ack_iter(n, acks).bytes \o Payload)
    BY DEF Written
  <1>2. PICK present : /\ acks = ack_iter(ack_id, n, present)
                       /\ num_acks = n
                       /\ header = parse(from_ack_iter(n, acks).ack_id,
                                         from_ack_iter(n, acks).bytes \o Payload)
    BY <1>1
  <1> DEFINE B == BitsPerByte
             N == bytes_for(n)
             written == from_ack_iter(n, acks).bytes
             Bytes == [bits : SUBSET (0 .. B - 1), more : BOOLEAN]
  <1>3. /\ B \in Nat /\ B >= 1 /\ MaxAckBytes \in Nat
        /\ N \in 1 .. MaxAckBytes /\ N \in Nat /\ N * B = B * N /\ B * N \in Nat
        /\ ack_id \in Int /\ SeqMod \in Int
    BY FieldAssumption, WholeBytes, SeqModAssumption DEF SeqIds
  <1> HIDE DEF B, N
  <1>4. acks = [k \in 1 .. B * N |->
                  pair(wrapping_sub(ack_id, k - 1), wrapping_sub(ack_id, k - 1) \in present)]
    BY <1>2, <1>3 DEF ack_iter, pair, N, B
  <1>5. acks \in Seq(Int \X BOOLEAN) /\ Len(acks) = B * N
    <2>1. \A k \in 1 .. B * N :
            pair(wrapping_sub(ack_id, k - 1), wrapping_sub(ack_id, k - 1) \in present)
              \in Int \X BOOLEAN
      <3> TAKE k \in 1 .. B * N
      <3>1. wrapping_sub(ack_id, k - 1) \in Int
        BY <1>3 DEF wrapping_sub
      <3>2. (wrapping_sub(ack_id, k - 1) \in present) \in BOOLEAN
        BY SMT
      <3> QED BY <3>1, <3>2, PairType, Zenon
    <2> QED BY <1>3, <1>4, <2>1
  <1> DEFINE bits(k) == {i \in 0 .. B - 1 : /\ (k - 1) * B + i + 1 <= B * N
                                            /\ acks[(k - 1) * B + i + 1][2]}
  <1>6. written = [k \in 1 .. N |-> byte(bits(k), k * B < B * N)]
    BY <1>5 DEF from_ack_iter, byte, N, B
  <1>7. \A k \in 1 .. N : k * B < B * N <=> k < N
    BY <1>3, Products
  <1>8. written \in Seq(Bytes) /\ Len(written) = N
    <2>1. \A k \in 1 .. N : byte(bits(k), k * B < B * N) \in Bytes
      <3> TAKE k \in 1 .. N
      <3>1. (k * B < B * N) \in BOOLEAN
        BY SMT
      <3>2. bits(k) \in SUBSET (0 .. B - 1)
        BY Zenon
      <3> HIDE DEF bits
      <3> QED BY <3>1, <3>2, ByteType, Zenon
    <2> HIDE DEF bits, Bytes, written
    <2> QED BY <1>3, <1>6, <2>1
  <1>9. \A k \in 1 .. N : /\ written[k].more <=> k < N
                          /\ written[k].bits = bits(k)
    <2> TAKE k \in 1 .. N
    <2> HIDE DEF bits, written
    <2>1. written[k] = byte(bits(k), k * B < B * N)
      BY <1>6, Zenon
    <2>0. /\ byte(bits(k), k * B < B * N).bits = bits(k)
          /\ byte(bits(k), k * B < B * N).more = (k * B < B * N)
      BY ByteParts, Zenon
    <2>2. written[k].more = (k * B < B * N)
      BY <2>0, <2>1, Zenon
    <2>3. written[k].bits = bits(k)
      BY <2>0, <2>1, Zenon
    <2> QED BY <1>7, <2>2, <2>3, Zenon
  <1>10. Payload \in Seq(Bytes)
    BY <1>3 DEF Payload, B
  <1>11. header = [ack_id |-> from_ack_iter(n, acks).ack_id,
                   bytes |-> SubSeq(written \o Payload, 1, N)]
    <2> DEFINE id == from_ack_iter(n, acks).ack_id
    <2> HIDE DEF bits, Bytes, id
    <2>1. header = parse(id, written \o Payload)
      BY <1>2 DEF id
    <2> HIDE DEF written
    <2>2. Len(written) \in 1 .. MaxAckBytes /\ \A k \in 1 .. Len(written) : written[k].more <=> k < Len(written)
      BY <1>3, <1>8, <1>9
    <2>3. parse(id, written \o Payload) =
            [ack_id |-> id, bytes |-> SubSeq(written \o Payload, 1, Len(written))]
      BY <1>8, <1>10, <2>2, ParseStops
    <2> QED BY <1>8, <2>1, <2>3 DEF id
  <1>12. Len(header.bytes) = N /\ \A k \in 1 .. N : header.bytes[k] = written[k]
    <2> HIDE DEF written, Bytes
    <2>1. /\ written \o Payload \in Seq(Bytes)
          /\ Len(written \o Payload) = N + Len(Payload) /\ Len(Payload) \in Nat
          /\ \A k \in 1 .. N : (written \o Payload)[k] = written[k]
      BY <1>3, <1>8, <1>10
    <2> QED BY <1>3, <1>11, <2>1
  <1>13. 1 \in 1 .. B * N
    BY <1>3, Products
  <1>14. header.ack_id = ack_id
    <2>1. acks[1] = pair(wrapping_sub(ack_id, 1 - 1), wrapping_sub(ack_id, 1 - 1) \in present)
      BY <1>4, <1>13, Zenon
    <2>2. acks[1][1] = wrapping_sub(ack_id, 1 - 1)
      <3>1. pair(wrapping_sub(ack_id, 1 - 1), wrapping_sub(ack_id, 1 - 1) \in present)[1] =
              wrapping_sub(ack_id, 1 - 1)
        BY PairParts, Zenon
      <3> QED BY <2>1, <3>1, Zenon
    <2>3. header.ack_id = acks[1][1]
      BY <1>11 DEF from_ack_iter
    <2> QED BY <1>3, <2>2, <2>3 DEF wrapping_sub, SeqIds
  <1>15. ASSUME NEW k \in 0 .. N - 1, NEW i \in 0 .. B - 1
         PROVE  acks[B * k + i + 1] =
                  <<wrapping_sub(header.ack_id, B * k + i), i \in header.bytes[k + 1].bits>>
    <2>1. /\ B * k + B <= B * N /\ B * k \in Int /\ k * B = B * k
          /\ B * k >= B * 0 /\ B * 0 = 0 /\ k \in Int /\ i \in Int
      BY <1>3, Products, SMT
    <2>2. B * k + i + 1 \in 1 .. B * N
      BY <1>3, <2>1
    <2>5. k + 1 \in 1 .. N /\ (k + 1 - 1) * B + i + 1 = B * k + i + 1
      BY <1>3, <2>1
    <2>6. header.bytes[k + 1].bits = bits(k + 1)
      BY <1>9, <1>12, <2>5, Zenon
    <2>7. i \in header.bytes[k + 1].bits <=> acks[B * k + i + 1][2]
      BY <2>2, <2>5, <2>6
    <2>8. acks[B * k + i + 1] =
            pair(wrapping_sub(ack_id, B * k + i), wrapping_sub(ack_id, B * k + i) \in present)
      <3> DEFINE m == B * k + i + 1
                 x == B * k + i
      <3>1. m \in 1 .. B * N /\ m - 1 = x
        BY <1>3, <2>1, <2>2
      <3> HIDE DEF m, x
      <3>2. acks[m] = pair(wrapping_sub(ack_id, m - 1), wrapping_sub(ack_id, m - 1) \in present)
        BY <1>4, <3>1, Zenon
      <3>3. acks[m] = pair(wrapping_sub(ack_id, x), wrapping_sub(ack_id, x) \in present)
        BY <3>1, <3>2, Zenon
      <3> QED BY <3>3, Zenon DEF m, x
    <2>9. acks[B * k + i + 1][2] = (wrapping_sub(ack_id, B * k + i) \in present)
      <3>1. pair(wrapping_sub(ack_id, B * k + i), wrapping_sub(ack_id, B * k + i) \in present)[2] =
              (wrapping_sub(ack_id, B * k + i) \in present)
        BY PairParts, Zenon
      <3> QED BY <2>8, <3>1, Zenon
    <2>10. (i \in header.bytes[k + 1].bits) <=> (wrapping_sub(ack_id, B * k + i) \in present)
      BY <2>7, <2>9, Zenon
    <2>11. (i \in header.bytes[k + 1].bits) = (wrapping_sub(ack_id, B * k + i) \in present)
      BY <2>10, SMT
    <2> QED BY <1>14, <2>8, <2>11, Zenon DEF pair
  <1>16. FieldOf(n)
    BY <1>9, <1>12, <1>15 DEF FieldOf, N, B
  <1> QED BY <1>2, <1>5, <1>12, <1>16 DEF N, B

-----------------------------------------------------------------------------
(* The proof that FieldInv is inductive *)

LEMMA FieldInit == Init => FieldInv
  <1> SUFFICES ASSUME Init PROVE FieldInv
    OBVIOUS
  <1>1. Written
    BY DEF Init, Written
  <1>2. num_acks \in 1 .. MaxAcks
    BY <1>1, FieldRead
  <1>3. bytes_for(num_acks) \in 1 .. MaxAckBytes /\ BitsPerByte \in Nat \ {0} /\ MaxAckBytes \in Nat
    BY <1>2, WholeBytes, FieldAssumption
  <1>4. byte_offset = 0 /\ bit_offset = 0 /\ out = <<>>
    BY DEF Init
  <1>5. BitsPerByte * 0 + 0 = 0
    BY <1>3, SMT
  <1>6. Position
    BY <1>3, <1>4, <1>5 DEF Position
  <1>7. ReadSoFar
    BY <1>4 DEF ReadSoFar
  <1> QED BY <1>1, <1>6, <1>7 DEF FieldInv

\* One more ack is the next one of the list, and the offsets move on with it.
LEMMA NextKept == FieldInv /\ [next]_vars => FieldInv'
  <1> SUFFICES ASSUME FieldInv, [next]_vars PROVE FieldInv'
    OBVIOUS
  <1>1. CASE UNCHANGED vars
    <2>1. Written'
      BY <1>1 DEF FieldInv, Written, vars
    <2>2. Position'
      BY <1>1 DEF FieldInv, Position, vars
    <2>3. ReadSoFar'
      BY <1>1 DEF FieldInv, ReadSoFar, vars
    <2> QED BY <2>1, <2>2, <2>3 DEF FieldInv
  <1>2. CASE next
    <2> DEFINE B == BitsPerByte
               N == bytes_for(num_acks)
               b == header.bytes[byte_offset + 1]
               ack == <<wrapping_sub(header.ack_id, B * byte_offset + bit_offset),
                        bit_offset \in b.bits>>
    <2>1. /\ acks \in Seq(Int \X BOOLEAN) /\ Len(acks) = B * N
          /\ Len(header.bytes) = N /\ num_acks \in 1 .. MaxAcks
      BY FieldRead DEF FieldInv
    <2>2. FieldOf(num_acks)
      BY FieldRead DEF FieldInv
    <2>3. /\ B \in Nat /\ B >= 1 /\ MaxAckBytes \in Nat /\ N \in 1 .. MaxAckBytes
          /\ B * N \in Nat
      BY <2>1, WholeBytes, FieldAssumption
    <2>4. /\ ~ exhausted
          /\ out' = Append(out, ack)
          /\ acks' = acks /\ num_acks' = num_acks /\ header' = header
      BY <1>2, Zenon DEF next
    <2>5. IF more_bits
          THEN bit_offset' = bit_offset + 1 /\ byte_offset' = byte_offset
          ELSE IF b.more
          THEN bit_offset' = 0 /\ byte_offset' = byte_offset + 1
          ELSE bit_offset' = bit_offset /\ byte_offset' = MaxAckBytes
      BY <1>2, Zenon DEF next
    <2>6. /\ byte_offset \in 0 .. N - 1
          /\ bit_offset \in 0 .. B - 1
          /\ Len(out) = B * byte_offset + bit_offset
      BY <2>4 DEF FieldInv, Position, exhausted
    <2>7. /\ out \in Seq(Int \X BOOLEAN)
          /\ \A k \in 1 .. Len(out) : out[k] = acks[k]
      BY DEF FieldInv, ReadSoFar
    <2>8. acks[B * byte_offset + bit_offset + 1] = ack
      BY <2>2, <2>6, Zenon DEF FieldOf
    <2>9. b.more <=> byte_offset + 1 < N
      BY <2>2, <2>3, <2>6 DEF FieldOf
    <2>10. /\ B * byte_offset \in Int /\ B * byte_offset + B <= B * N
           /\ B * (byte_offset + 1) = B * byte_offset + B
      BY <2>3, <2>6, Products, SMT
    <2> HIDE DEF B, N, b, ack
    <2>11. /\ Len(out) \in Nat /\ Len(out) + 1 \in 1 .. Len(acks)
           /\ acks[Len(out) + 1] = ack
      <3>1. Len(out) \in Nat /\ Len(out) + 1 \in 1 .. Len(acks)
        <4>1. Len(out) \in Nat
          BY <2>7
        <4>2. Len(out) + 1 <= B * N
          BY <2>3, <2>6, <2>10
        <4> QED BY <2>1, <2>3, <4>1, <4>2
      <3>2. Len(out) + 1 = B * byte_offset + bit_offset + 1
        BY <2>6
      <3> QED BY <2>8, <3>1, <3>2, Zenon
    <2>12. ack \in Int \X BOOLEAN
      BY <2>1, <2>11
    <2>13. /\ out' \in Seq(Int \X BOOLEAN) /\ Len(out') = Len(out) + 1
           /\ \A k \in 1 .. Len(out') : out'[k] = acks[k]
      BY <2>4, <2>7, <2>11, <2>12
    <2>14. Written'
      BY <2>4, Zenon DEF FieldInv, Written
    <2>15. Position'
      <3>1. CASE more_bits
        BY <2>3, <2>4, <2>5, <2>6, <2>13, <3>1 DEF Position, more_bits, B, N
      <3>2. CASE ~ more_bits /\ b.more
        <4>1. byte_offset' = byte_offset + 1 /\ bit_offset' = 0 /\ bit_offset = B - 1
          BY <2>3, <2>5, <2>6, <3>2 DEF more_bits, B
        <4>2. Len(out') = B * byte_offset' + bit_offset'
          BY <2>3, <2>6, <2>10, <2>13, <4>1
        <4> QED BY <2>3, <2>4, <2>6, <2>9, <3>2, <4>1, <4>2 DEF Position, B, N
      <3>3. CASE ~ more_bits /\ ~ b.more
        <4>1. byte_offset' = MaxAckBytes /\ bit_offset = B - 1 /\ byte_offset + 1 = N
          BY <2>3, <2>5, <2>6, <2>9, <3>3 DEF more_bits, B
        <4>2. Len(out') = B * N
          BY <2>3, <2>6, <2>10, <2>13, <4>1
        <4> QED BY <2>4, <4>1, <4>2 DEF Position, B, N
      <3> QED BY <3>1, <3>2, <3>3
    <2>16. ReadSoFar'
      BY <2>4, <2>13 DEF ReadSoFar
    <2> QED BY <2>14, <2>15, <2>16 DEF FieldInv
  <1> QED BY <1>1, <1>2

-----------------------------------------------------------------------------
(* The theorems *)

LEMMA FieldAlways == Spec => []FieldInv
  BY FieldInit, NextKept, PTL DEF Spec

\* The peer's iterator yields the very acks that from_ack_iter was given, in their
\* order and to the last one, whatever the first number, the length of the field
\* and the packets received: also across the wrap of the numbers and across
\* the bytes' continuation bits.
THEOREM AcksReadAsWritten == Spec => []RoundTrip
  <1>1. FieldInv => RoundTrip
    <2> SUFFICES ASSUME FieldInv PROVE RoundTrip
      OBVIOUS
    <2> DEFINE N == bytes_for(num_acks)
    <2>1. /\ acks \in Seq(Int \X BOOLEAN) /\ Len(acks) = BitsPerByte * N
          /\ Len(header.bytes) = N /\ num_acks \in 1 .. MaxAcks
      BY FieldRead DEF FieldInv
    <2>2. /\ BitsPerByte \in Nat /\ BitsPerByte >= 1 /\ MaxAckBytes \in Nat
          /\ N \in 1 .. MaxAckBytes /\ BitsPerByte * N \in Nat
      BY <2>1, WholeBytes, FieldAssumption
    <2>3. /\ out \in Seq(Int \X BOOLEAN)
          /\ \A k \in 1 .. Len(out) : out[k] = acks[k]
      BY DEF FieldInv, ReadSoFar
    <2>4. byte_offset \in 0 .. N - 1 =>
            BitsPerByte * byte_offset \in Int /\ BitsPerByte * byte_offset + BitsPerByte <= BitsPerByte * N
      BY <2>2, Products
    <2> HIDE DEF N
    <2>5. Len(out) <= Len(acks) /\ Len(out) \in Nat
      <3>1. Len(out) \in Nat
        BY <2>3
      <3>2. Position
        BY DEF FieldInv
      <3>3. PICK whole \in Nat : whole = BitsPerByte * N
        BY <2>2
      <3>4. CASE byte_offset = MaxAckBytes /\ Len(out) = BitsPerByte * N
        BY <2>1, <3>1, <3>3, <3>4
      <3>5. CASE /\ byte_offset \in 0 .. N - 1 /\ bit_offset \in 0 .. BitsPerByte - 1
                 /\ Len(out) = BitsPerByte * byte_offset + bit_offset
        <4>1. PICK p \in Int : p = BitsPerByte * byte_offset /\ p + BitsPerByte <= whole
          BY <2>4, <3>3, <3>5
        <4>2. Len(out) = p + bit_offset /\ bit_offset \in 0 .. BitsPerByte - 1
          BY <3>5, <4>1
        <4> QED BY <2>1, <2>2, <3>1, <3>3, <4>1, <4>2
      <3> QED
        BY <3>2, <3>4, <3>5, Zenon DEF Position, N
    <2>6. exhausted => Len(out) = Len(acks)
      BY <2>1, <2>2 DEF FieldInv, Position, exhausted, N
    <2>7. out = SubSeq(acks, 1, Len(out))
      <3>1. PICK n \in Nat : n = Len(out) /\ n <= Len(acks)
        BY <2>5
      <3>2. \A j \in 1 .. n : j \in 1 .. Len(acks)
        BY <2>1, <2>2, <3>1
      <3>3. PICK part : part = SubSeq(acks, 1, n)
        OBVIOUS
      <3>4. /\ part \in Seq(Int \X BOOLEAN) /\ Len(part) = n
            /\ \A j \in 1 .. n : part[j] = acks[j]
        BY <2>1, <2>2, <3>1, <3>2, <3>3, SubSeqProperties
      <3>5. Len(out) = Len(part) /\ \A k \in 1 .. Len(out) : out[k] = part[k]
        BY <2>3, <3>1, <3>4, Zenon
      <3>6. out = part
        BY <2>3, <3>4, <3>5, SeqEqual, Zenon
      <3> QED
        BY <3>1, <3>3, <3>6
    <2>8. ASSUME exhausted PROVE out = acks
      <3>1. Len(out) = Len(acks) /\ \A k \in 1 .. Len(out) : out[k] = acks[k]
        BY <2>3, <2>6, <2>8
      <3> QED
        BY <2>1, <2>3, <3>1, SeqEqual, Zenon
    <2> QED BY <2>7, <2>8 DEF RoundTrip
  <1> QED BY <1>1, FieldAlways, PTL

\* parse takes exactly the bytes from_ack_iter wrote: none of the messages behind
\* the field, whatever their bits, and none too few.
THEOREM FieldCutExactly == Spec => []FieldDelimited
  <1>1. FieldInv => FieldDelimited
    BY FieldRead DEF FieldInv, FieldDelimited
  <1> QED BY <1>1, FieldAlways, PTL
=============================================================================
