-------------------------- MODULE WireFormatProofs --------------------------
(* A number that one host stores and another retrieves is the same number,
   for every number of 16 or of 32 bits and every pair of byte orders; and so
   is a datagram of any number of fields, as far as its first raw one. *)
EXTENDS WireFormat, SequenceTheorems, TLAPS

-----------------------------------------------------------------------------
(* Two bytes make a number, and a number two bytes. *)
LEMMA Halves ==
  ASSUME NEW c \in Bits16
  PROVE  /\ c \div 256 \in Byte /\ c % 256 \in Byte
         /\ 256 * (c \div 256) + (c % 256) = c
<1>1. c \in Int /\ 0 <= c /\ c <= 65535
  BY DEF Bits16
<1>2. c % 256 \in 0 .. 255
  BY <1>1
<1>3. 256 * (c \div 256) + (c % 256) = c
  BY <1>1
<1>4. c \div 256 \in Int /\ c % 256 \in Int
  BY <1>1
<1>5. c \div 256 \in 0 .. 255
  BY <1>1, <1>2, <1>3, <1>4
<1> QED
  BY <1>2, <1>3, <1>5 DEF Byte

LEMMA BytesOfNumber16 ==
  ASSUME NEW x \in Byte, NEW y \in Byte
  PROVE  Bytes16(Number16(<<x, y>>)) = <<x, y>>
<1>1. (256 * x + y) \div 256 = x /\ (256 * x + y) % 256 = y
  BY DEF Byte
<1> QED
  BY <1>1 DEF Bytes16, Number16

LEMMA Bytes16OfBits ==
  ASSUME NEW c \in Bits16
  PROVE  \E x, y \in Byte : Bytes16(c) = <<x, y>> /\ c = Number16(<<x, y>>)
<1>1. Number16(<<c \div 256, c % 256>>) = 256 * (c \div 256) + (c % 256)
  BY DEF Number16
<1> QED
  BY <1>1, Halves DEF Bytes16

(* memcpy of two bytes leaves them or swaps them. *)
LEMMA InMemory16 ==
  ASSUME NEW x \in Byte, NEW y \in Byte, NEW host \in Hosts
  PROVE  InMemory(host, <<x, y>>) =
           IF host = "big" THEN <<x, y>> ELSE <<y, x>>
<1>1. Len(<<x, y>>) = 2
  OBVIOUS
<1>2. Backwards(<<x, y>>) = <<y, x>>
  BY <1>1 DEF Backwards
<1> QED
  BY <1>2 DEF InMemory, Hosts

(* What goes into the datagram is the number, most significant byte first,
   from every host: store_bytes16. *)
LEMMA StoredBigEndian16 ==
  ASSUME NEW c \in Bits16, NEW host \in Hosts
  PROVE  store_bytes16(host, c) = Bytes16(c)
<1>1. PICK x, y \in Byte : Bytes16(c) = <<x, y>>
  BY Bytes16OfBits
<1>2. CASE host = "big"
  <2>1. swap16(host, c) = Number16(<<x, y>>)
    BY <1>1, <1>2, InMemory16 DEF swap16
  <2> QED
    <3>1. Bytes16(swap16(host, c)) = <<x, y>>
      BY <2>1, BytesOfNumber16
    <3> QED
      BY <1>1, <1>2, <3>1, InMemory16 DEF store_bytes16
<1>3. CASE host = "little"
  <2>1. swap16(host, c) = Number16(<<y, x>>)
    BY <1>1, <1>3, InMemory16 DEF swap16
  <2>2. Bytes16(swap16(host, c)) = <<y, x>>
    BY <2>1, BytesOfNumber16
  <2> QED
    BY <1>1, <1>3, <2>2, InMemory16 DEF store_bytes16
<1> QED
  BY <1>2, <1>3 DEF Hosts

(* retrieve_bytes16 makes the number of two bytes, most significant first, on
   every host. *)
LEMMA RetrievedBigEndian16 ==
  ASSUME NEW x \in Byte, NEW y \in Byte, NEW host \in Hosts
  PROVE  retrieve_bytes16(host, <<x, y>>) = Number16(<<x, y>>)
<1>1. CASE host = "big"
  <2>1. InMemory(host, <<x, y>>) = <<x, y>>
    BY <1>1, InMemory16
  <2>2. Bytes16(Number16(<<x, y>>)) = <<x, y>>
    BY BytesOfNumber16
  <2> QED
    BY <2>1, <2>2 DEF retrieve_bytes16, swap16
<1>2. CASE host = "little"
  <2>1. InMemory(host, <<x, y>>) = <<y, x>>
    BY <1>2, InMemory16
  <2>2. Bytes16(Number16(<<y, x>>)) = <<y, x>>
    BY BytesOfNumber16
  <2>3. InMemory(host, <<y, x>>) = <<x, y>>
    BY <1>2, InMemory16
  <2> QED
    BY <2>1, <2>2, <2>3 DEF retrieve_bytes16, swap16
<1> QED
  BY <1>1, <1>2 DEF Hosts

(* A header that knx_store_bytes16 puts into a datagram on one host is the
   header that smc_retrieve_header finds on the other. *)
THEOREM HeaderAgrees ==
  ASSUME NEW c \in Bits16, NEW from \in Hosts, NEW to \in Hosts
  PROVE  retrieve_bytes16(to, store_bytes16(from, c)) = c
<1>1. PICK x, y \in Byte : Bytes16(c) = <<x, y>> /\ c = Number16(<<x, y>>)
  BY Bytes16OfBits
<1> QED
  BY <1>1, StoredBigEndian16, RetrievedBigEndian16

-----------------------------------------------------------------------------
(* The same for four bytes: two halves of 16 bits. *)
LEMMA UpperAndLower ==
  ASSUME NEW c \in Bits32
  PROVE  \E upper, lower \in Bits16 :
           /\ c \div 65536 = upper /\ c % 65536 = lower
           /\ 65536 * upper + lower = c
<1> DEFINE upper == c \div 65536
           lower == c % 65536
<1>1. c \in Nat /\ upper \in Bits16
  BY DEF Bits32
<1>2. c \in Nat
  BY <1>1
<1>3. lower \in Int /\ 0 <= lower /\ lower <= 65535
  BY <1>2, SMT
<1>4. 65536 * upper + lower = c
  BY <1>2, SMT
<1> HIDE DEF lower
<1>5. lower \in Bits16
  BY <1>3, SMT DEF Bits16
<1> USE DEF lower
<1> QED
  BY <1>1, <1>4, <1>5

LEMMA UpperOfSum ==
  ASSUME NEW upper \in Int, 0 <= upper, upper <= 65535,
         NEW lower \in Int, 0 <= lower, lower <= 65535
  PROVE  /\ (65536 * upper + lower) \div 65536 = upper
         /\ (65536 * upper + lower) % 65536 = lower
  BY SMT

LEMMA BytesOfNumber32 ==
  ASSUME NEW x \in Byte, NEW y \in Byte, NEW z \in Byte, NEW w \in Byte
  PROVE  Bytes32(Number32(<<x, y, z, w>>)) = <<x, y, z, w>>
<1> DEFINE upper == 256 * x + y
           lower == 256 * z + w
<1>1. Number16(<<x, y>>) = upper /\ Number16(<<z, w>>) = lower
  BY DEF Number16
<1>2. Number32(<<x, y, z, w>>) = 65536 * upper + lower
  BY <1>1 DEF Number32
<1>3. /\ upper \in Int /\ 0 <= upper /\ upper <= 65535
      /\ lower \in Int /\ 0 <= lower /\ lower <= 65535
  BY SMT DEF Byte
<1>4. Bytes16(upper) = <<x, y>> /\ Bytes16(lower) = <<z, w>>
  BY <1>1, BytesOfNumber16
<1> HIDE DEF upper, lower
<1>5. (65536 * upper + lower) \div 65536 = upper
      /\ (65536 * upper + lower) % 65536 = lower
  BY <1>3, UpperOfSum
<1> QED
  BY <1>2, <1>4, <1>5 DEF Bytes32

LEMMA Bytes32OfBits ==
  ASSUME NEW c \in Bits32
  PROVE  \E x, y, z, w \in Byte :
           Bytes32(c) = <<x, y, z, w>> /\ c = Number32(<<x, y, z, w>>)
<1>1. PICK upper, lower \in Bits16 :
        /\ c \div 65536 = upper /\ c % 65536 = lower
        /\ 65536 * upper + lower = c
  BY UpperAndLower
<1>2. PICK x, y \in Byte : Bytes16(upper) = <<x, y>> /\ upper = Number16(<<x, y>>)
  BY Bytes16OfBits, Zenon
<1>3. PICK z, w \in Byte : Bytes16(lower) = <<z, w>> /\ lower = Number16(<<z, w>>)
  BY Bytes16OfBits, Zenon
<1>4. Bytes32(c) = <<x, y, z, w>>
  BY <1>1, <1>2, <1>3 DEF Bytes32
<1>5. c = Number32(<<x, y, z, w>>)
  BY <1>1, <1>2, <1>3 DEF Number32
<1> QED
  BY <1>4, <1>5, Zenon

LEMMA InMemory32 ==
  ASSUME NEW x \in Byte, NEW y \in Byte, NEW z \in Byte, NEW w \in Byte,
         NEW host \in Hosts
  PROVE  /\ host = "big" => InMemory(host, <<x, y, z, w>>) = <<x, y, z, w>>
         /\ host = "little" => InMemory(host, <<x, y, z, w>>) = <<w, z, y, x>>
<1>1. Len(<<x, y, z, w>>) = 4
  OBVIOUS
<1>2. Backwards(<<x, y, z, w>>) = <<w, z, y, x>>
  BY <1>1 DEF Backwards
<1> QED
  BY <1>2 DEF InMemory, Hosts

(* htonl undoes what memcpy from the number does: store_bytes32. *)
LEMMA StoredBigEndian32 ==
  ASSUME NEW c \in Bits32, NEW host \in Hosts
  PROVE  store_bytes32(host, c) = Bytes32(c)
<1>1. PICK x, y, z, w \in Byte : Bytes32(c) = <<x, y, z, w>>
  BY Bytes32OfBits
<1>2. CASE host = "big"
  <2>1. swap32(host, c) = Number32(<<x, y, z, w>>)
    BY <1>1, <1>2, InMemory32 DEF swap32
  <2>2. Bytes32(swap32(host, c)) = <<x, y, z, w>>
    BY <2>1, BytesOfNumber32
  <2> QED
    BY <1>1, <1>2, <2>2, InMemory32 DEF store_bytes32
<1>3. CASE host = "little"
  <2>1. swap32(host, c) = Number32(<<w, z, y, x>>)
    BY <1>1, <1>3, InMemory32 DEF swap32
  <2>2. Bytes32(swap32(host, c)) = <<w, z, y, x>>
    BY <2>1, BytesOfNumber32
  <2> QED
    BY <1>1, <1>3, <2>2, InMemory32 DEF store_bytes32
<1> QED
  BY <1>2, <1>3 DEF Hosts

LEMMA RetrievedBigEndian32 ==
  ASSUME NEW x \in Byte, NEW y \in Byte, NEW z \in Byte, NEW w \in Byte,
         NEW host \in Hosts
  PROVE  retrieve_bytes32(host, <<x, y, z, w>>) = Number32(<<x, y, z, w>>)
<1>1. CASE host = "big"
  <2>1. InMemory(host, <<x, y, z, w>>) = <<x, y, z, w>>
    BY <1>1, InMemory32
  <2>2. Bytes32(Number32(<<x, y, z, w>>)) = <<x, y, z, w>>
    BY BytesOfNumber32
  <2> QED
    BY <2>1, <2>2 DEF retrieve_bytes32, swap32
<1>2. CASE host = "little"
  <2>1. InMemory(host, <<x, y, z, w>>) = <<w, z, y, x>>
    BY <1>2, InMemory32
  <2>2. Bytes32(Number32(<<w, z, y, x>>)) = <<w, z, y, x>>
    BY BytesOfNumber32
  <2>3. InMemory(host, <<w, z, y, x>>) = <<x, y, z, w>>
    BY <1>2, InMemory32
  <2> QED
    BY <2>1, <2>2, <2>3 DEF retrieve_bytes32, swap32
<1> QED
  BY <1>1, <1>2 DEF Hosts

(* A number that knx_store_bytes32 puts into a datagram on one host is the
   number that smc_retrieve_bytes32 takes out on the other. *)
THEOREM NumberAgrees ==
  ASSUME NEW c \in Bits32, NEW from \in Hosts, NEW to \in Hosts
  PROVE  retrieve_bytes32(to, store_bytes32(from, c)) = c
<1>1. PICK x, y, z, w \in Byte :
        Bytes32(c) = <<x, y, z, w>> /\ c = Number32(<<x, y, z, w>>)
  BY Bytes32OfBits
<1> QED
  BY <1>1, StoredBigEndian32, RetrievedBigEndian32

-----------------------------------------------------------------------------
(* The bytes of one field. *)
LEMMA Wire8 ==
  ASSUME NEW f \in Field, f.kind = "bytes8"
  PROVE  f.value \in Byte /\ Wire(f) = <<f.value>> /\ Len(Wire(f)) = 1
<1>1. f.value \in Numbers8
  BY DEF Field
<1>2. f.value \in Byte
  BY <1>1, FieldsAssumption, Zenon
<1>3. Wire(f) = <<f.value>>
  BY DEF Wire
<1> QED
  BY <1>2, <1>3

LEMMA Wire16 ==
  ASSUME NEW f \in Field, f.kind = "bytes16"
  PROVE  /\ f.value \in Bits16 /\ Wire(f) = Bytes16(f.value)
         /\ Wire(f) \in Seq(Byte) /\ Len(Wire(f)) = 2
<1>1. f.value \in Numbers16
  BY DEF Field
<1>2. f.value \in Bits16
  BY <1>1, FieldsAssumption, Zenon
<1>3. Wire(f) = Bytes16(f.value)
  BY DEF Wire
<1>4. PICK x, y \in Byte : Bytes16(f.value) = <<x, y>>
  BY <1>2, Bytes16OfBits
<1> QED
  BY <1>2, <1>3, <1>4

LEMMA Wire32 ==
  ASSUME NEW f \in Field, f.kind = "bytes32"
  PROVE  /\ f.value \in Bits32 /\ Wire(f) = Bytes32(f.value)
         /\ Wire(f) \in Seq(Byte) /\ Len(Wire(f)) = 4
<1>1. f.value \in Numbers32
  BY DEF Field
<1>2. f.value \in Bits32
  BY <1>1, FieldsAssumption, Zenon
<1>3. Wire(f) = Bytes32(f.value)
  BY DEF Wire
<1>4. PICK x, y, z, w \in Byte : Bytes32(f.value) = <<x, y, z, w>>
  BY <1>2, Bytes32OfBits
<1> QED
  BY <1>2, <1>3, <1>4

LEMMA WireRaw ==
  ASSUME NEW f \in Field, f.kind = "raw"
  PROVE  Wire(f) = f.value /\ f.value \in Seq(Byte)
<1>1. f.value \in Raws
  BY DEF Field
<1> QED
  BY <1>1, FieldsAssumption DEF Wire

LEMMA WireBytes ==
  ASSUME NEW f \in Field
  PROVE  Wire(f) \in Seq(Byte) /\ Len(Wire(f)) \in Nat
<1>1. f.kind \in {"bytes8", "bytes16", "bytes32", "raw"}
  BY DEF Field
<1>2. Wire(f) \in Seq(Byte)
  <2>1. CASE f.kind = "bytes8"
    <3>1. f.value \in Byte /\ Wire(f) = <<f.value>>
      BY <2>1, Wire8
    <3> QED
      BY <3>1
  <2> QED
    BY <1>1, <2>1, Wire16, Wire32, WireRaw
<1> QED
  BY <1>2, LenProperties

-----------------------------------------------------------------------------
(* A stored field lies behind those stored before. *)
LEMMA LaidByStore ==
  ASSUME TypeOK, Laid, NEW f \in Field, got = <<>>, Len(fields) < MaxFields,
         fields' = Append(fields, f), buffer' = buffer \o Wire(f),
         UNCHANGED <<sender, receiver, b, got>>
  PROVE  TypeOK' /\ Laid'
<1> DEFINE n == Len(fields)
<1>1. /\ n \in Nat /\ Len(buffer) \in Nat
      /\ fields \in Seq(Field) /\ buffer \in Seq(Byte)
  BY LenProperties DEF TypeOK
<1>2. Wire(f) \in Seq(Byte) /\ Len(Wire(f)) \in Nat
  BY WireBytes
<1>3. /\ fields' \in Seq(Field) /\ Len(fields') = n + 1
      /\ \A k \in 1 .. n : fields'[k] = fields[k]
      /\ fields'[n + 1] = f
  BY <1>1, AppendProperties
<1>4. /\ buffer' \in Seq(Byte) /\ Len(buffer') = Len(buffer) + Len(Wire(f))
      /\ \A i \in 1 .. Len(buffer) : buffer'[i] = buffer[i]
      /\ \A i \in 1 .. Len(Wire(f)) : buffer'[Len(buffer) + i] = Wire(f)[i]
  BY <1>1, <1>2, ConcatProperties
<1>5. Len(got) = 0
  OBVIOUS
<1>6. TypeOK'
  <2>1. MaxFields \in Nat
    BY FieldsAssumption, Zenon
  <2>2. Len(fields') <= MaxFields
    BY <1>1, <1>3, <2>1
  <2> QED
    BY <1>1, <1>3, <1>4, <1>5, <2>2 DEF TypeOK
<1>7. PICK at \in [1 .. n + 1 -> 0 .. Len(buffer)] : Layout(at) /\ Cursor(at)
  BY DEF Laid
<1>a. /\ \A k \in 1 .. n + 1 : at[k] \in 0 .. Len(buffer)
      /\ at[1] = 0 /\ at[n + 1] = Len(buffer)
      /\ \A k \in 1 .. n :
           /\ at[k + 1] = at[k] + Len(Wire(fields[k]))
           /\ \A i \in 1 .. Len(Wire(fields[k])) : buffer[at[k] + i] = Wire(fields[k])[i]
  BY <1>7 DEF Layout
<1> HIDE DEF n
<1>8. PICK at2 : at2 = [k \in 1 .. n + 2 |-> IF k <= n + 1 THEN at[k] ELSE Len(buffer')]
  OBVIOUS
<1>9. /\ at2 \in [1 .. n + 2 -> 0 .. Len(buffer')]
      /\ at2[n + 2] = Len(buffer')
      /\ \A k \in 1 .. n + 1 : at2[k] = at[k]
  BY <1>1, <1>2, <1>4, <1>8
<1>10. Layout(at2)'
  <2>1. at2[1] = 0 /\ at2[Len(fields') + 1] = Len(buffer')
    BY <1>1, <1>3, <1>a, <1>9
  <2>2. ASSUME NEW k \in 1 .. n
        PROVE  /\ at2[k + 1] = at2[k] + Len(Wire(fields'[k]))
               /\ \A i \in 1 .. Len(Wire(fields'[k])) :
                    buffer'[at2[k] + i] = Wire(fields'[k])[i]
    <3>1. fields'[k] = fields[k] /\ at2[k] = at[k] /\ at2[k + 1] = at[k + 1]
      BY <1>1, <1>3, <1>9
    <3>2. at[k] \in 0 .. Len(buffer) /\ at[k + 1] \in 0 .. Len(buffer)
      <4>1. k \in 1 .. n + 1 /\ k + 1 \in 1 .. n + 1
        BY <1>1
      <4> QED
        BY <4>1, <1>a
    <3>3. at[k + 1] = at[k] + Len(Wire(fields[k]))
      BY <1>a
    <3>4. Len(Wire(fields[k])) \in Nat
      BY <1>1, ElementOfSeq, WireBytes
    <3>5. ASSUME NEW i \in 1 .. Len(Wire(fields[k]))
          PROVE  buffer'[at[k] + i] = Wire(fields[k])[i]
      <4>1. at[k] + i \in 1 .. Len(buffer)
        BY <1>1, <3>2, <3>3, <3>4
      <4>2. buffer[at[k] + i] = Wire(fields[k])[i]
        BY <1>a
      <4> QED
        BY <1>4, <4>1, <4>2
    <3> QED
      BY <3>1, <3>3, <3>5
  <2>3. /\ at2[(n + 1) + 1] = at2[n + 1] + Len(Wire(f))
        /\ \A i \in 1 .. Len(Wire(f)) : buffer'[at2[n + 1] + i] = Wire(f)[i]
    <3>1. at2[n + 1] = Len(buffer)
      BY <1>1, <1>a, <1>9
    <3>2. (n + 1) + 1 = n + 2
      BY <1>1
    <3> QED
      BY <1>4, <1>9, <3>1, <3>2
  <2>4. \A k \in 1 .. n + 1 :
           /\ at2[k + 1] = at2[k] + Len(Wire(fields'[k]))
           /\ \A i \in 1 .. Len(Wire(fields'[k])) :
                buffer'[at2[k] + i] = Wire(fields'[k])[i]
    <3> TAKE k \in 1 .. n + 1
    <3>0. k \in 1 .. n \/ k = n + 1
      BY <1>1
    <3>1. CASE k \in 1 .. n
      BY <2>2, <3>1
    <3>2. CASE k = n + 1
      BY <1>1, <1>3, <2>3, <3>2
    <3> QED
      BY <3>0, <3>1, <3>2
  <2> QED
    BY <1>3, <2>1, <2>4 DEF Layout
<1>11. Cursor(at2)'
  <2>1. at2[1] = at[1] /\ at[1] = 0
    BY <1>1, <1>a, <1>9
  <2>2. ~ RawBefore(1)
    BY DEF RawBefore
  <2>3. b = 0
    BY <1>5, <1>7, <2>1, <2>2 DEF Cursor
  <2> QED
    BY <1>5, <2>1, <2>3 DEF Cursor
<1>12. Laid'
  <2>1. at2 \in [1 .. Len(fields') + 1 -> 0 .. Len(buffer')]
    <3>1. Len(fields') + 1 = n + 2
      BY <1>1, <1>3
    <3> QED
      BY <1>9, <3>1
  <2> QED
    BY <2>1, <1>10, <1>11 DEF Laid
<1> QED
  BY <1>6, <1>12

LEMMA NothingGot ==
  ASSUME got = <<>>, UNCHANGED got
  PROVE  RoundTrip'
<1>1. DOMAIN got' = {}
  OBVIOUS
<1> QED
  BY <1>1 DEF RoundTrip

LEMMA StoreStep ==
  ASSUME IInv, NEW f \in Field, Store(f.kind, f.value, Wire(f))
  PROVE  IInv'
<1>1. f = [kind |-> f.kind, value |-> f.value]
  BY DEF Field
<1>2. /\ got = <<>> /\ Len(fields) < MaxFields
      /\ fields' = Append(fields, f) /\ buffer' = buffer \o Wire(f)
      /\ UNCHANGED <<sender, receiver, b, got>>
  BY <1>1 DEF Store
<1> QED
  BY <1>2, LaidByStore, NothingGot DEF IInv

LEMMA StoresStep ==
  ASSUME IInv, StoreBytes8 \/ StoreBytes16 \/ StoreBytes32 \/ StoreRaw
  PROVE  IInv'
<1>1. CASE StoreBytes8
  <2>1. PICK c \in Numbers8 : Store("bytes8", c, <<c>>)
    BY <1>1 DEF StoreBytes8
  <2> DEFINE f == [kind |-> "bytes8", value |-> c]
  <2>2. f \in Field /\ Wire(f) = <<c>>
    BY DEF Field, Wire
  <2> QED
    BY <2>1, <2>2, StoreStep
<1>2. CASE StoreBytes16
  <2>1. PICK c \in Numbers16 : Store("bytes16", c, store_bytes16(sender, c))
    BY <1>2 DEF StoreBytes16
  <2> DEFINE f == [kind |-> "bytes16", value |-> c]
  <2>2. f \in Field /\ f.kind = "bytes16" /\ f.value = c
    BY DEF Field
  <2>3. c \in Bits16 /\ Wire(f) = Bytes16(c)
    BY <2>2, Wire16
  <2>4. store_bytes16(sender, c) = Wire(f)
    BY <2>3, StoredBigEndian16 DEF IInv, TypeOK
  <2> HIDE DEF f
  <2> QED
    BY <2>1, <2>2, <2>4, StoreStep
<1>3. CASE StoreBytes32
  <2>1. PICK c \in Numbers32 : Store("bytes32", c, store_bytes32(sender, c))
    BY <1>3 DEF StoreBytes32
  <2> DEFINE f == [kind |-> "bytes32", value |-> c]
  <2>2. f \in Field /\ f.kind = "bytes32" /\ f.value = c
    BY DEF Field
  <2>3. c \in Bits32 /\ Wire(f) = Bytes32(c)
    BY <2>2, Wire32
  <2>4. store_bytes32(sender, c) = Wire(f)
    BY <2>3, StoredBigEndian32 DEF IInv, TypeOK
  <2> HIDE DEF f
  <2> QED
    BY <2>1, <2>2, <2>4, StoreStep
<1>4. CASE StoreRaw
  <2>1. PICK r \in Raws : Store("raw", r, r)
    BY <1>4 DEF StoreRaw
  <2> DEFINE f == [kind |-> "raw", value |-> r]
  <2>2. f \in Field /\ f.kind = "raw" /\ f.value = r
    BY DEF Field
  <2>3. Wire(f) = r
    BY <2>2, WireRaw
  <2> HIDE DEF f
  <2> QED
    BY <2>1, <2>2, <2>3, StoreStep
<1> QED
  BY <1>1, <1>2, <1>3, <1>4

-----------------------------------------------------------------------------
LEMMA PairOfBytes ==
  ASSUME NEW s \in Seq(Byte), Len(s) = 2
  PROVE  \E x, y \in Byte : s = <<x, y>>
<1>1. s[1] \in Byte /\ s[2] \in Byte
  BY ElementOfSeq
<1>2. s = <<s[1], s[2]>>
  OBVIOUS
<1> QED
  BY <1>1, <1>2, Zenon

LEMMA FourBytes ==
  ASSUME NEW s \in Seq(Byte), Len(s) = 4
  PROVE  \E x, y, z, w \in Byte : s = <<x, y, z, w>>
<1>1. s[1] \in Byte /\ s[2] \in Byte /\ s[3] \in Byte /\ s[4] \in Byte
  BY ElementOfSeq
<1>2. s = <<s[1], s[2], s[3], s[4]>>
  OBVIOUS
<1> QED
  BY <1>1, <1>2, Zenon

(* What is read at the cursor lies in the datagram; until a raw field has been
   read, it is the bytes of the field that comes next. *)
LEMMA ReadBytes ==
  ASSUME IInv, Len(got) < Len(fields),
         NEW f, f = fields[Len(got) + 1], NEW n, n = Len(Wire(f))
  PROVE  /\ f \in Field /\ n \in Nat
         /\ Read(n) \in Seq(Byte) /\ Len(Read(n)) = n
         /\ ~ RawBefore(Len(got) + 1) => Read(n) = Wire(f)
<1> DEFINE k == Len(got) + 1
<1>1. /\ Len(fields) \in Nat /\ Len(buffer) \in Nat /\ b \in Nat
      /\ fields \in Seq(Field) /\ buffer \in Seq(Byte)
      /\ Len(got) \in Nat
  BY LenProperties DEF IInv, TypeOK
<1>2. k \in 1 .. Len(fields)
  BY <1>1
<1>3. f \in Field
  BY <1>1, <1>2, ElementOfSeq
<1>4. Wire(f) \in Seq(Byte) /\ n \in Nat
  BY <1>3, WireBytes
<1>5. PICK at \in [1 .. Len(fields) + 1 -> 0 .. Len(buffer)] : Layout(at) /\ Cursor(at)
  BY DEF IInv, Laid
<1>6. /\ at[k] \in 0 .. Len(buffer) /\ at[k + 1] \in 0 .. Len(buffer)
      /\ at[k + 1] = at[k] + n
      /\ \A i \in 1 .. n : buffer[at[k] + i] = Wire(f)[i]
  <2>1. k \in 1 .. Len(fields) + 1 /\ k + 1 \in 1 .. Len(fields) + 1
    BY <1>1, <1>2
  <2>2. at[k] \in 0 .. Len(buffer) /\ at[k + 1] \in 0 .. Len(buffer)
    BY <1>5, <2>1
  <2> QED
    BY <1>2, <1>5, <2>2 DEF Layout
<1>7. b <= at[k] /\ (~ RawBefore(k) => b = at[k])
  BY <1>5 DEF Cursor
<1> HIDE DEF k
<1>8. \A i \in b + 1 .. b + n : i \in 1 .. Len(buffer) /\ buffer[i] \in Byte
  <2>1. \A i \in b + 1 .. b + n : i \in 1 .. Len(buffer)
    BY <1>1, <1>4, <1>6, <1>7
  <2> QED
    BY <1>1, <2>1, ElementOfSeq
<1>9. /\ Read(n) \in Seq(Byte) /\ Len(Read(n)) = n
      /\ \A i \in 1 .. n : Read(n)[i] = buffer[b + i]
  <2>1. /\ SubSeq(buffer, b + 1, b + n) \in Seq(Byte)
        /\ Len(SubSeq(buffer, b + 1, b + n)) =
             IF b + 1 <= b + n THEN (b + n) - (b + 1) + 1 ELSE 0
        /\ \A i \in 1 .. (b + n) - (b + 1) + 1 :
             SubSeq(buffer, b + 1, b + n)[i] = buffer[(b + 1) + i - 1]
    <3>1. b + 1 \in Int /\ b + n \in Int
      BY <1>1, <1>4
    <3>2. \A i \in b + 1 .. b + n : buffer[i] \in Byte
      BY <1>8
    <3> QED
      BY <3>1, <3>2, SubSeqProperties
  <2>2. (b + n) - (b + 1) + 1 = n /\ \A i \in 1 .. n : (b + 1) + i - 1 = b + i
    BY <1>1, <1>4
  <2> QED
    BY <1>1, <1>4, <2>1, <2>2 DEF Read
<1>10. ASSUME ~ RawBefore(k)
       PROVE  Read(n) = Wire(f)
  <2>1. \A i \in 1 .. n : Read(n)[i] = Wire(f)[i]
    BY <1>6, <1>7, <1>9, <1>10
  <2> QED
    BY <1>4, <1>9, <2>1, SeqEqual
<1> QED
  BY <1>3, <1>4, <1>9, <1>10 DEF k

(* The next field has been retrieved, by a cursor that moves n bytes. *)
LEMMA RetrieveStep ==
  ASSUME IInv, Len(got) < Len(fields),
         NEW f, f = fields[Len(got) + 1], NEW n \in Nat, NEW c,
         Retrieve(n, c),
         n <= Len(Wire(f)), f.kind # "raw" => n = Len(Wire(f)),
         f.kind = "raw" => c \in Seq(Byte),
         f.kind # "raw" => c \in Nat,
         ~ RawBefore(Len(got) + 1) => c = f.value
  PROVE  IInv'
<1> DEFINE k == Len(got) + 1
<1>1. /\ Len(fields) \in Nat /\ Len(buffer) \in Nat /\ b \in Nat
      /\ fields \in Seq(Field) /\ buffer \in Seq(Byte)
      /\ Len(got) \in Nat
  BY LenProperties DEF IInv, TypeOK
<1>2. k \in 1 .. Len(fields) /\ f \in Field /\ Len(Wire(f)) \in Nat
  BY <1>1, ElementOfSeq, WireBytes
<1>3. got' = Append(got, c) /\ b' = b + n /\ UNCHANGED <<sender, receiver, fields, buffer>>
  BY DEF Retrieve
<1>4. /\ Len(got') = k /\ got'[k] = c
      /\ \A j \in 1 .. Len(got) : got'[j] = got[j]
      /\ got' = [j \in 1 .. Len(got') |-> got'[j]]
      /\ DOMAIN got' = 1 .. k
  <2> DEFINE S == {got[j] : j \in 1 .. Len(got)} \cup {c}
  <2>1. got \in Seq(S)
    <3>1. got = [j \in 1 .. Len(got) |-> got[j]]
      BY DEF IInv, TypeOK
    <3>2. got \in [1 .. Len(got) -> S]
      BY <3>1
    <3> QED
      BY <1>1, <3>2, SeqDef
  <2>2. c \in S
    OBVIOUS
  <2> HIDE DEF S
  <2>3. /\ got' \in Seq(S) /\ Len(got') = k /\ got'[k] = c
        /\ \A j \in 1 .. Len(got) : got'[j] = got[j]
    BY <1>3, <2>1, <2>2, AppendProperties
  <2>4. got' \in [1 .. Len(got') -> S] /\ DOMAIN got' = 1 .. Len(got')
    BY <2>3, LenProperties
  <2> QED
    BY <2>3, <2>4
<1>5. \A j \in 1 .. k : j \in 1 .. Len(got) \/ j = k
  BY <1>1
<1>6. TypeOK'
  <2>1. \A j \in 1 .. Len(got') :
          got'[j] \in (IF fields'[j].kind = "raw" THEN Seq(Byte) ELSE Nat)
    <3> TAKE j \in 1 .. Len(got')
    <3>1. CASE j = k
      BY <1>3, <1>4, <3>1
    <3>2. CASE j \in 1 .. Len(got)
      BY <1>3, <1>4, <3>2 DEF IInv, TypeOK
    <3> QED
      BY <1>4, <1>5, <3>1, <3>2
  <2>2. Len(got') \in 0 .. Len(fields')
    BY <1>1, <1>2, <1>3, <1>4
  <2>3. b' \in Nat
    BY <1>1, <1>3
  <2>4. got' = [j \in 1 .. Len(got') |-> got'[j]]
    BY <1>4
  <2> QED
    BY <1>3, <2>1, <2>2, <2>3, <2>4 DEF IInv, TypeOK
<1>7. Laid'
  <2>1. PICK at \in [1 .. Len(fields) + 1 -> 0 .. Len(buffer)] : Layout(at) /\ Cursor(at)
    BY DEF IInv, Laid
  <2>2. Layout(at)'
    BY <1>3, <2>1 DEF Layout
  <2>3. at[k + 1] = at[k] + Len(Wire(f)) /\ at[k] \in Nat
    BY <1>1, <1>2, <2>1 DEF Layout
  <2>4. b <= at[k] /\ (~ RawBefore(k) => b = at[k])
    BY <2>1 DEF Cursor
  <2>5. RawBefore(Len(got) + 1)' <=> \E i \in 1 .. k : fields[i].kind = "raw"
    BY <1>1, <1>3, <1>4 DEF RawBefore
  <2>6. ~ RawBefore(Len(got) + 1)' => ~ RawBefore(k) /\ f.kind # "raw"
    BY <1>1, <1>2, <2>5 DEF RawBefore
  <2>7. b' <= at[k + 1]
    BY <1>1, <1>2, <1>3, <2>3, <2>4
  <2>8. ~ RawBefore(Len(got) + 1)' => b' = at[k + 1]
    BY <1>1, <1>2, <1>3, <2>3, <2>4, <2>6
  <2>9. Cursor(at)'
    <3>1. at[Len(got') + 1] = at[k + 1]
      BY <1>4
    <3> QED
      BY <2>7, <2>8, <3>1 DEF Cursor
  <2> QED
    BY <1>3, <2>1, <2>2, <2>9 DEF Laid
<1>8. RoundTrip'
  <2>1. ASSUME NEW j \in 1 .. k, \A i \in 1 .. j - 1 : fields[i].kind # "raw"
        PROVE  got'[j] = fields[j].value
    <3>1. CASE j = k
      BY <1>4, <2>1, <3>1 DEF RawBefore
    <3>2. CASE j \in 1 .. Len(got)
      <4>1. j \in DOMAIN got
        BY <3>2 DEF IInv, TypeOK
      <4> QED
        BY <1>4, <2>1, <3>2, <4>1 DEF IInv, RoundTrip
    <3> QED
      BY <1>5, <3>1, <3>2
  <2> QED
    BY <1>3, <1>4, <2>1 DEF RoundTrip
<1> QED
  BY <1>6, <1>7, <1>8 DEF IInv

LEMMA RetrievesStep ==
  ASSUME IInv,
         RetrieveBytes8 \/ RetrieveBytes16 \/ RetrieveBytes32 \/ RetrieveRaw
  PROVE  IInv'
<1> DEFINE f == fields[Len(got) + 1]
<1>1. Len(got) < Len(fields)
  BY DEF RetrieveBytes8, RetrieveBytes16, RetrieveBytes32, RetrieveRaw, Expected
<1>2. /\ f \in Field /\ Read(Len(Wire(f))) \in Seq(Byte)
      /\ Len(Read(Len(Wire(f)))) = Len(Wire(f)) /\ Len(Wire(f)) \in Nat
      /\ ~ RawBefore(Len(got) + 1) => Read(Len(Wire(f))) = Wire(f)
  BY <1>1, ReadBytes
<1>3. receiver \in Hosts
  BY DEF IInv, TypeOK
<1>4. CASE RetrieveBytes8
  <2>1. f.kind = "bytes8" /\ Retrieve(1, Read(1)[1])
    BY <1>4 DEF RetrieveBytes8, Expected
  <2>2. f.value \in Byte /\ Wire(f) = <<f.value>> /\ Len(Wire(f)) = 1
    BY <1>2, <2>1, Wire8
  <2>3. Read(1)[1] \in Byte
    BY <1>2, <2>2, ElementOfSeq
  <2>4. ~ RawBefore(Len(got) + 1) => Read(1)[1] = f.value
    BY <1>2, <2>2
  <2>5. Read(1)[1] \in Nat
    BY <2>3 DEF Byte
  <2>6. /\ 1 \in Nat /\ 1 <= Len(Wire(f)) /\ f.kind # "raw"
        /\ f.kind # "raw" => 1 = Len(Wire(f))
    BY <2>1, <2>2
  <2> HIDE DEF f
  <2> QED
    BY <1>1, <2>1, <2>4, <2>5, <2>6, RetrieveStep DEF f
<1>5. CASE RetrieveBytes16
  <2>1. f.kind = "bytes16" /\ Retrieve(2, retrieve_bytes16(receiver, Read(2)))
    BY <1>5 DEF RetrieveBytes16, Expected
  <2>2. f.value \in Bits16 /\ Wire(f) = Bytes16(f.value) /\ Len(Wire(f)) = 2
    BY <1>2, <2>1, Wire16
  <2>3. PICK x, y \in Byte : Read(2) = <<x, y>>
    BY <1>2, <2>2, PairOfBytes
  <2>4. retrieve_bytes16(receiver, Read(2)) = Number16(<<x, y>>)
    BY <1>3, <2>3, RetrievedBigEndian16
  <2>5. retrieve_bytes16(receiver, Read(2)) \in Nat
    BY <2>4 DEF Number16, Byte
  <2>6. ~ RawBefore(Len(got) + 1) => retrieve_bytes16(receiver, Read(2)) = f.value
    BY <1>2, <1>3, <2>2, StoredBigEndian16, HeaderAgrees
  <2>7. /\ 2 \in Nat /\ 2 <= Len(Wire(f)) /\ f.kind # "raw"
        /\ f.kind # "raw" => 2 = Len(Wire(f))
    BY <2>1, <2>2
  <2> HIDE DEF f
  <2> QED
    BY <1>1, <2>1, <2>5, <2>6, <2>7, RetrieveStep DEF f
<1>6. CASE RetrieveBytes32
  <2>1. f.kind = "bytes32" /\ Retrieve(4, retrieve_bytes32(receiver, Read(4)))
    BY <1>6 DEF RetrieveBytes32, Expected
  <2>2. f.value \in Bits32 /\ Wire(f) = Bytes32(f.value) /\ Len(Wire(f)) = 4
    BY <1>2, <2>1, Wire32
  <2>3. PICK x, y, z, w \in Byte : Read(4) = <<x, y, z, w>>
    BY <1>2, <2>2, FourBytes
  <2>4. retrieve_bytes32(receiver, Read(4)) = Number32(<<x, y, z, w>>)
    BY <1>3, <2>3, RetrievedBigEndian32
  <2>5. retrieve_bytes32(receiver, Read(4)) \in Nat
    BY <2>4 DEF Number32, Number16, Byte
  <2>6. ~ RawBefore(Len(got) + 1) => retrieve_bytes32(receiver, Read(4)) = f.value
    BY <1>2, <1>3, <2>2, StoredBigEndian32, NumberAgrees
  <2>7. /\ 4 \in Nat /\ 4 <= Len(Wire(f)) /\ f.kind # "raw"
        /\ f.kind # "raw" => 4 = Len(Wire(f))
    BY <2>1, <2>2
  <2> HIDE DEF f
  <2> QED
    BY <1>1, <2>1, <2>5, <2>6, <2>7, RetrieveStep DEF f
<1>7. CASE RetrieveRaw
  <2>1. f.kind = "raw" /\ Retrieve(0, Read(Len(f.value)))
    BY <1>7 DEF RetrieveRaw, Expected
  <2>2. Wire(f) = f.value
    BY <1>2, <2>1, WireRaw
  <2> HIDE DEF f
  <2> QED
    BY <1>1, <1>2, <2>1, <2>2, RetrieveStep DEF f
<1> QED
  BY <1>4, <1>5, <1>6, <1>7

-----------------------------------------------------------------------------
LEMMA InitInv == Init => IInv
<1> SUFFICES ASSUME Init PROVE IInv
  OBVIOUS
<1>1. fields = <<>> /\ buffer = <<>> /\ b = 0 /\ got = <<>>
  BY DEF Init
<1>2. Len(fields) = 0 /\ Len(buffer) = 0 /\ Len(got) = 0
  BY <1>1
<1>3. TypeOK
  <2>1. MaxFields \in Nat
    BY FieldsAssumption, Zenon
  <2>2. got = [k \in 1 .. Len(got) |-> got[k]]
    BY <1>1
  <2> QED
    BY <1>1, <1>2, <2>1, <2>2 DEF Init, TypeOK
<1>4. Laid
  <2>1. PICK at : at = [k \in 1 .. 1 |-> 0]
    OBVIOUS
  <2>2. at \in [1 .. Len(fields) + 1 -> 0 .. Len(buffer)] /\ at[1] = 0
    BY <1>2, <2>1
  <2>3. Layout(at) /\ Cursor(at)
    BY <1>1, <1>2, <2>2 DEF Layout, Cursor
  <2> QED
    BY <2>2, <2>3 DEF Laid
<1>5. RoundTrip
  BY <1>1 DEF RoundTrip
<1> QED
  BY <1>3, <1>4, <1>5 DEF IInv

LEMMA StutterStep ==
  ASSUME IInv, UNCHANGED vars
  PROVE  IInv'
  BY DEF IInv, TypeOK, Laid, Layout, Cursor, RawBefore, RoundTrip, vars

(* Every datagram, of any number of fields of any kinds, is at all times the
   big endian bytes of its fields, and the receiver's cursor stands where the
   next field begins until a raw field is read, and lags behind it afterwards,
   so that every read lies in the datagram: the store and retrieve helpers of
   knxNetwork.c. *)
THEOREM WireInvariant == Spec => []IInv
<1>1. ASSUME IInv, [Next]_vars
      PROVE  IInv'
  BY <1>1, StoresStep, RetrievesStep, StutterStep DEF Next, Done
<1> QED
  BY <1>1, InitInv, PTL DEF Spec

(* What a host retrieves is what the other stored, whatever the byte orders of
   the two, for all fields up to and including the first raw one. *)
THEOREM DatagramAgrees == Spec => []RoundTrip
<1>1. IInv => RoundTrip
  BY DEF IInv
<1> QED
  BY <1>1, WireInvariant, PTL
=============================================================================
