---------------------------- MODULE BarrierPacket ----------------------------
(***************************************************************************)
(* The packets of the Barrier protocol and their encoding: packet_parse    *)
(* and packet_serialize of src/main/barrier/barrier_packet.c with the      *)
(* big-endian reads and writes of src/main/barrier/barrier_io.c.           *)
(*                                                                         *)
(* On the wire a packet is a length (four bytes, of what follows), a code  *)
(* (four letters) and data.  Which letters a code is made of is left out:  *)
(* it is the number of its type four times.                                *)
(***************************************************************************)
EXTENDS Integers, Sequences

Byte == 0..255

CodeLength == 4                   \* BARRIER_CODE_LEN
HeaderLength == 4 + CodeLength    \* BARRIER_HEADER_LEN

-----------------------------------------------------------------------------
(* Numbers.                                                                *)

(* io_read_u16_be, io_read_u32_be, at position p of a sequence of bytes *)
ReadU16(b, p) == b[p] * 256 + b[p + 1]
ReadU32(b, p) == ReadU16(b, p) * 65536 + ReadU16(b, p + 2)

(* Mutant of Signed: the cast to a signed type is missing. *)
SignedNot(n, half) == n

(* The casts of io_read_i16_be and io_read_i8. *)
Signed(n, half) == IF n < half THEN n ELSE n - 2 * half

(* io_write_u16_be, and io_write_i16_be: a negative number wraps *)
WriteU16(n) == <<(n \div 256) % 256, n % 256>>

(* io_write_u32_be *)
WriteU32(n) == WriteU16(n \div 65536) \o WriteU16(n)

-----------------------------------------------------------------------------
(* Types and fields.                                                       *)

(* packet_type_t *)
TypeNames == <<"QINF", "DINF", "CIAK", "CALV", "CNOP", "CINN", "COUT", "DMMV", "DMRM",
               "DMUP", "DMDN", "DMWM", "DKUP", "DKDN", "DKRP", "CCLP", "DCLP", "CBYE",
               "EUNK", "EBSY", "EBAD", "EICV", "CROP", "DSOP">>

Types == {TypeNames[i] : i \in 1..Len(TypeNames)}

Letters(i) == <<i, i, i, i>>

(* code_to_type *)
CodeToType(code) ==
    IF \E i \in 1..Len(TypeNames) : code = Letters(i)
    THEN TypeNames[code[1]] ELSE "UNKNOWN"

(* type_to_code, with "????" for what has no code *)
TypeToCode(type) ==
    IF type \in Types
    THEN Letters(CHOOSE i \in 1..Len(TypeNames) : TypeNames[i] = type) ELSE Letters(0)

(* A field of the data, at an offset. *)
U8(at) == [at |-> at, width |-> 1, signed |-> FALSE]
I8(at) == [at |-> at, width |-> 1, signed |-> TRUE]
U16(at) == [at |-> at, width |-> 2, signed |-> FALSE]
I16(at) == [at |-> at, width |-> 2, signed |-> TRUE]
U32(at) == [at |-> at, width |-> 4, signed |-> FALSE]

(* The fields of each type, as packet_parse and packet_serialize name them. *)
Fields(type) ==
    CASE type = "DINF" -> <<U16(0), U16(2), U16(4), U16(6), U16(8), U16(10), U16(12)>>
      [] type \in {"DMMV", "EICV"} -> <<U16(0), U16(2)>>
      [] type \in {"DMRM", "DMWM"} -> <<I16(0), I16(2)>>
      [] type \in {"DMUP", "DMDN"} -> <<I8(0)>>
      [] type = "CINN" -> <<U16(0), U16(2), U32(4), U16(8)>>
      [] type \in {"DKUP", "DKDN"} -> <<U16(0), U16(2), U16(4)>>
      [] type = "DKRP" -> <<U16(0), U16(2), U16(4), U16(6)>>
      [] type \in {"CCLP", "DCLP"} -> <<U8(0), U32(1)>>
      [] OTHER -> <<>>

(* Mutant of MinData: a byte less will do. *)
MinDataLess(type) ==
    CASE type = "DINF" -> 13
      [] type \in {"DMMV", "DMRM", "DMWM", "EICV"} -> 3
      [] OTHER -> 0

(* The data packet_parse asks for. *)
MinData(type) ==
    CASE type = "DINF" -> 14
      [] type \in {"DMMV", "DMRM", "DMWM", "EICV"} -> 4
      [] type \in {"DMUP", "DMDN"} -> 1
      [] type = "CINN" -> 10
      [] type \in {"DKUP", "DKDN"} -> 6
      [] type = "DKRP" -> 8
      [] type \in {"CCLP", "DCLP"} -> 5
      [] OTHER -> 0

(* The data packet_serialize makes room for: two bytes more than the       *)
(* fields of CINN take.                                                    *)
DataLength(type) == IF type = "CINN" THEN 12 ELSE MinData(type)

-----------------------------------------------------------------------------
(* packet_parse and packet_serialize.                                      *)

ReadRaw(f, data) ==
    CASE f.width = 1 -> data[f.at + 1]
      [] f.width = 2 -> ReadU16(data, f.at + 1)
      [] f.width = 4 -> ReadU32(data, f.at + 1)

ReadField(f, data) ==
    IF f.signed THEN Signed(ReadRaw(f, data), IF f.width = 1 THEN 128 ELSE 32768)
    ELSE ReadRaw(f, data)

WriteField(f, n) ==
    CASE f.width = 1 -> <<n % 256>>
      [] f.width = 2 -> WriteU16(n)
      [] f.width = 4 -> WriteU32(n)

(* ESP_ERR_INVALID_SIZE *)
Refused == [type |-> "refused", args |-> <<>>]

(* The length of the data, from the length of the packet. *)
DataOf(declared) == IF declared >= CodeLength THEN declared - CodeLength ELSE 0

(* packet_parse(buf, len, out), where buf may hold more than the packet.   *)
(* Of a CCLP only the length is looked at.                                 *)
Parse(buf, len) ==
    IF len < HeaderLength THEN Refused
    ELSE LET type == CodeToType(SubSeq(buf, 5, HeaderLength))
             data == SubSeq(buf, HeaderLength + 1, Len(buf))
             fields == IF type = "CCLP" THEN <<>> ELSE Fields(type)
         IN  IF DataOf(ReadU32(buf, 1)) < MinData(type) THEN Refused
             ELSE [type |-> type,
                   args |-> [i \in DOMAIN fields |-> ReadField(fields[i], data)]]

(* The field that the byte at an offset of the data belongs to. *)
Covers(f, offset) == f.at <= offset /\ offset < f.at + f.width

(* The byte at an offset of the data: part of a field, or what the buffer  *)
(* held before.                                                            *)
DataByte(pkt, offset, old) ==
    LET fields == Fields(pkt.type)
        covering == {i \in DOMAIN fields : Covers(fields[i], offset)}
    IN  IF covering = {} THEN old
        ELSE LET i == CHOOSE k \in covering : TRUE
             IN  WriteField(fields[i], pkt.args[i])[offset - fields[i].at + 1]

(* packet_serialize(pkt, buf, &out_len), where buf holds old: the bytes,   *)
(* or none for ESP_ERR_NO_MEM.                                             *)
Serialize(pkt, old) ==
    LET length == HeaderLength + DataLength(pkt.type)
        header == WriteU32(CodeLength + DataLength(pkt.type)) \o TypeToCode(pkt.type)
    IN  IF length > Len(old) THEN <<>>
        ELSE [i \in 1..length |->
                 IF i <= HeaderLength THEN header[i]
                 ELSE DataByte(pkt, i - HeaderLength - 1, old[i])]
=============================================================================
