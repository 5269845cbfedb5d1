----------------------------- MODULE WireFormat -----------------------------
(***************************************************************************)
(* How the two daemons put numbers into a datagram and take them out again *)
(* (the store and retrieve helpers of knxNetwork.c, and their copies in    *)
(* smcNetwork.c): numbers are stored most significant byte first, whatever *)
(* the byte order of the host.  htons, htonl, ntohs and ntohl swap the     *)
(* bytes of a number on a little endian host and do nothing on a big       *)
(* endian one; memcpy copies the bytes of a number as the host keeps them. *)
(*                                                                         *)
(* A sender stores fields behind each other; the receiver, which knows     *)
(* their kinds, retrieves them in the same order.                          *)
(***************************************************************************)
EXTENDS Integers, Sequences

CONSTANTS
  Numbers8, Numbers16, Numbers32,   \* what is stored
  Raws,                             \* sequences of bytes that are stored raw
  MaxFields                         \* fields in a datagram

Byte == 0 .. 255
Bits16 == {c \in Nat : c <= 65535}
Bits32 == {c \in Nat : c \div 65536 \in Bits16}
Hosts == {"big", "little"}

ASSUME FieldsAssumption ==
  /\ Numbers8 \subseteq Byte
  /\ Numbers16 \subseteq Bits16
  /\ Numbers32 \subseteq Bits32
  /\ Raws \subseteq Seq(Byte) \ {<<>>}
  /\ MaxFields \in Nat

VARIABLES
  sender, receiver,   \* the byte orders of the two hosts
  fields,             \* what has been stored
  buffer,             \* the bytes stored; the sender's cursor is behind them
  b,                  \* how far the receiver's cursor has come
  got                 \* what has been retrieved

vars == <<sender, receiver, fields, buffer, b, got>>

KNX_PROTO_DISCOVERY_REQUEST == 16 * 256
KNX_PROTO_DISCOVERY_RESPONSE == 16 * 256 + 1
KNX_PROTO_STANDARD_PACKET == 16 * 256 + 2

-----------------------------------------------------------------------------
(* The bytes of a number, most significant first, and back. *)
Bytes16(c) == <<c \div 256, c % 256>>
Bytes32(c) ==
  LET upper == Bytes16(c \div 65536)
      lower == Bytes16(c % 65536)
  IN  <<upper[1], upper[2], lower[1], lower[2]>>
Number16(s) == 256 * s[1] + s[2]
Number32(s) == 65536 * Number16(<<s[1], s[2]>>) + Number16(<<s[3], s[4]>>)

Backwards(s) == [i \in 1 .. Len(s) |-> s[Len(s) + 1 - i]]

(* memcpy from a number, and to one. *)
InMemory(host, bytes) == IF host = "big" THEN bytes ELSE Backwards(bytes)

(* htons and ntohs, htonl and ntohl. *)
swap16(host, c) == Number16(InMemory(host, Bytes16(c)))
swap32(host, c) == Number32(InMemory(host, Bytes32(c)))

(* Mutant: no htons. *)
store_bytes16_native(host, c) == InMemory(host, Bytes16(c))

store_bytes16(host, c) == InMemory(host, Bytes16(swap16(host, c)))
store_bytes32(host, c) == InMemory(host, Bytes32(swap32(host, c)))
retrieve_bytes16(host, s) == swap16(host, Number16(InMemory(host, s)))
retrieve_bytes32(host, s) == swap32(host, Number32(InMemory(host, s)))

-----------------------------------------------------------------------------
Init ==
  /\ sender \in Hosts /\ receiver \in Hosts
  /\ fields = <<>> /\ buffer = <<>>
  /\ b = 0 /\ got = <<>>

Store(kind, c, bytes) ==
  /\ Len(fields) < MaxFields
  /\ got = <<>>
  /\ fields' = Append(fields, [kind |-> kind, value |-> c])
  /\ buffer' = buffer \o bytes
  /\ UNCHANGED <<sender, receiver, b, got>>

StoreBytes8 == \E c \in Numbers8 : Store("bytes8", c, <<c>>)
StoreBytes16 == \E c \in Numbers16 : Store("bytes16", c, store_bytes16(sender, c))
StoreBytes32 == \E c \in Numbers32 : Store("bytes32", c, store_bytes32(sender, c))
StoreRaw == \E r \in Raws : Store("raw", r, r)

(* The kind of the field that comes next, and the n bytes at the cursor. *)
Expected(kind) == Len(got) < Len(fields) /\ fields[Len(got) + 1].kind = kind
Read(n) == SubSeq(buffer, b + 1, b + n)

Retrieve(n, c) ==
  /\ got' = Append(got, c)
  /\ b' = b + n
  /\ UNCHANGED <<sender, receiver, fields, buffer>>

RetrieveBytes8 == Expected("bytes8") /\ Retrieve(1, Read(1)[1])

RetrieveBytes16 ==
  Expected("bytes16") /\ Retrieve(2, retrieve_bytes16(receiver, Read(2)))

(* Mutant: the cursor moves on as after 16 bits. *)
RetrieveBytes32Short ==
  Expected("bytes32") /\ Retrieve(2, retrieve_bytes32(receiver, Read(4)))

RetrieveBytes32 ==
  Expected("bytes32") /\ Retrieve(4, retrieve_bytes32(receiver, Read(4)))

(* A copy of the bytes; unlike the others it leaves the cursor where it is. *)
RetrieveRaw ==
  /\ Expected("raw")
  /\ Retrieve(0, Read(Len(fields[Len(got) + 1].value)))

(* The receiver has all fields. *)
Done == fields # <<>> /\ Len(got) = Len(fields) /\ UNCHANGED vars

Next ==
  \/ StoreBytes8 \/ StoreBytes16 \/ StoreBytes32 \/ StoreRaw
  \/ RetrieveBytes8 \/ RetrieveBytes16 \/ RetrieveBytes32 \/ RetrieveRaw
  \/ Done

Spec == Init /\ [][Next]_vars

-----------------------------------------------------------------------------
(* What is retrieved is what was stored, whatever the two byte orders, up to
   and including the first raw field: a datagram means the same to all hosts.
   What follows a raw field is read from the place where that field begins. *)
RoundTrip ==
  \A k \in DOMAIN got :
    (\A i \in 1 .. k - 1 : fields[i].kind # "raw") => got[k] = fields[k].value

-----------------------------------------------------------------------------
(* The bytes of a field in the datagram. *)
Wire(f) ==
  CASE f.kind = "bytes8"  -> <<f.value>>
    [] f.kind = "bytes16" -> Bytes16(f.value)
    [] f.kind = "bytes32" -> Bytes32(f.value)
    [] f.kind = "raw"     -> f.value

Field ==
  [kind : {"bytes8"}, value : Numbers8] \cup [kind : {"bytes16"}, value : Numbers16]
    \cup [kind : {"bytes32"}, value : Numbers32] \cup [kind : {"raw"}, value : Raws]

TypeOK ==
  /\ sender \in Hosts /\ receiver \in Hosts
  /\ fields \in Seq(Field) /\ Len(fields) <= MaxFields
  /\ buffer \in Seq(Byte) /\ b \in Nat
  /\ Len(got) \in 0 .. Len(fields) /\ got = [k \in 1 .. Len(got) |-> got[k]]
  /\ \A k \in 1 .. Len(got) :
       got[k] \in (IF fields[k].kind = "raw" THEN Seq(Byte) ELSE Nat)

RawBefore(k) == \E i \in 1 .. k - 1 : fields[i].kind = "raw"

(* The bytes of field k are those behind at[k], up to at[k + 1]. *)
Layout(at) ==
  /\ at[1] = 0 /\ at[Len(fields) + 1] = Len(buffer)
  /\ \A k \in 1 .. Len(fields) :
       /\ at[k + 1] = at[k] + Len(Wire(fields[k]))
       /\ \A i \in 1 .. Len(Wire(fields[k])) : buffer[at[k] + i] = Wire(fields[k])[i]

(* The receiver's cursor is where the next field begins; once a raw field has
   been read it stays behind, and what is read still lies in the datagram. *)
Cursor(at) ==
  /\ b <= at[Len(got) + 1]
  /\ ~ RawBefore(Len(got) + 1) => b = at[Len(got) + 1]

Laid ==
  \E at \in [1 .. Len(fields) + 1 -> 0 .. Len(buffer)] : Layout(at) /\ Cursor(at)

(* The inductive invariant behind RoundTrip: the fields lie behind each other
   in the datagram, each big endian whatever the sender, and the receiver's
   cursor keeps step with them until a raw field. *)
IInv == TypeOK /\ Laid /\ RoundTrip
=============================================================================
