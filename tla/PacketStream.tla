---------------------------- MODULE PacketStream ----------------------------
(***************************************************************************)
(* One connection to the server, byte by byte: the framing of handshake    *)
(* and read_packet and the replies of send_packet                          *)
(* (src/main/barrier/barrier_client.c) over tls_client_read and            *)
(* tls_client_write (src/main/network/tls_client.c), with the codec of     *)
(* BarrierPacket and the back-off of Reconnect.                            *)
(*                                                                         *)
(* What the two sides write arrives in order and in pieces of any size, at *)
(* any time; a connection may break at any time.  What the packets do to   *)
(* the actuator, and changes of the configuration, are BarrierClient's.    *)
(***************************************************************************)
EXTENDS BarrierPacket, SequencesExt, Reconnect

CONSTANTS
    BufferSize,     \* BARRIER_READ_BUF_SIZE and BARRIER_WRITE_BUF_SIZE
    MaxHello,       \* BARRIER_MAX_HELLO_LEN
    Hellos,         \* what the server may greet with, as bytes
    ServerPackets,  \* what it may send: a type, arguments and trailing bytes
    Name,           \* the device's name in the client's hello, as bytes
    Screen,         \* the width and height the client reports
    MaxSent         \* bound on the number of packets the server sends; after
                    \* them the client connects no more

Greeting == <<66, 97, 114, 114, 105, 101, 114>>     \* BARRIER_SERVER_HELLO
GreetingLength == 7                                 \* BARRIER_SERVER_HELLO_LEN
Version == <<1, 6>>                                 \* BARRIER_CLIENT_MAJOR, _MINOR
Word == 0..65535                                    \* a uint16_t
TooLong == 256 * 65536                              \* a length in all four bytes

ASSUME BufferAssumption ==
    /\ MaxHello \in Nat /\ MaxHello >= GreetingLength + 4 /\ MaxHello <= BufferSize
    /\ BufferSize \in Nat /\ BufferSize >= GreetingLength + 12 + Len(Name)
    /\ BufferSize >= HeaderLength + DataLength("DINF")
    /\ BufferSize < TooLong

ASSUME StreamAssumption ==
    /\ Hellos \subseteq Seq(Byte) /\ Name \in Seq(Byte)
    /\ Screen \in Word \X Word
    /\ MaxSent \in Nat

VARIABLES
    (* the connection *)
    open,        \* client->tls->connected
    incoming,    \* what the server wrote and the client has not read
    received,    \* what the client wrote in this session
    (* the client *)
    pc,
    header,      \* read_packet's header, as far as it is read
    offset,      \* how far the read buffer is filled
    want,        \* how far it has to be filled
    readBuf, writeBuf,
    length,      \* what is to be written of the write buffer
    retry,       \* reconnect.retry_count
    delay,       \* the delay the task is in
    (* ghosts *)
    sent,        \* the packets the server sent in this session
    total,       \* how many it sent in all
    got,         \* what packet_parse made of those that were handled
    stalled      \* a read_packet gave up in the middle of a packet

connectionVars == <<open, incoming, received>>
readVars == <<header, offset, want, readBuf>>
writeVars == <<writeBuf, length>>
backoffVars == <<retry, delay>>
ghostVars == <<sent, total, got, stalled>>
vars == <<pc, connectionVars, readVars, writeVars, backoffVars, ghostVars>>

Handshake == {"hellolength", "hello", "version"}
Session == {"header", "payload", "parse", "write"}
Pcs == {"connect", "writehello", "cleanup", "backoff"} \cup Handshake \cup Session

Zeros == [i \in 1..BufferSize |-> 0]

(* memcpy(&buf[at], bytes, Len(bytes)) *)
Overlay(buf, at, bytes) ==
    [i \in 1..BufferSize |->
        IF at < i /\ i <= at + Len(bytes) THEN bytes[i - at] ELSE buf[i]]

(* io_read_u32_be of a length.  All lengths of 2^24 and more count as the  *)
(* same: they are larger than any buffer.                                  *)
Declared(b) == IF b[1] # 0 THEN TooLong ELSE ReadU32(b, 1)

Init ==
    /\ pc = "connect"
    /\ open = FALSE /\ incoming = <<>> /\ received = <<>>
    /\ header = <<>> /\ offset = 0 /\ want = 0 /\ readBuf = Zeros
    /\ writeBuf = Zeros /\ length = 0
    /\ retry = 0 /\ delay = 0
    /\ sent = <<>> /\ total = 0 /\ got = <<>> /\ stalled = FALSE

-----------------------------------------------------------------------------
(* The server and the wire: how the protocol defines a packet.             *)

(* The sizes of a packet's arguments, which follow each other. *)
Widths(type) ==
    CASE type = "DINF" -> <<2, 2, 2, 2, 2, 2, 2>>
      [] type \in {"DMMV", "DMRM", "DMWM", "EICV"} -> <<2, 2>>
      [] type \in {"DMUP", "DMDN"} -> <<1>>
      [] type = "CINN" -> <<2, 2, 4, 2>>
      [] type \in {"DKUP", "DKDN"} -> <<2, 2, 2>>
      [] type = "DKRP" -> <<2, 2, 2, 2>>
      [] type \in {"CCLP", "DCLP"} -> <<1, 4>>
      [] OTHER -> <<>>

(* A number in w bytes, the most significant first. *)
BigEndian(n, w) == [i \in 1..w |-> (n \div (256 ^ (w - i))) % 256]

(* A packet's data: its arguments, and whatever trails them. *)
Data(pkt) ==
    FlattenSeq([i \in DOMAIN pkt.args |-> BigEndian(pkt.args[i], Widths(pkt.type)[i])])
    \o pkt.extra

Wire(pkt) == BigEndian(4 + Len(Data(pkt)), 4) \o TypeToCode(pkt.type) \o Data(pkt)

(* What a receiver should understand. *)
Meant(pkt) ==
    IF Len(pkt.args) < Len(Widths(pkt.type)) THEN Refused
    ELSE [type |-> pkt.type, args |-> IF pkt.type = "CCLP" THEN <<>> ELSE pkt.args]

(* A number fits a field. *)
Fits(n, f) ==
    IF f.signed THEN LET half == (256 ^ f.width) \div 2 IN -half <= n /\ n < half
    ELSE n >= 0 /\ n \div (256 ^ (f.width - 1)) < 256

(* The data of a packet that has all its arguments, here zeros. *)
Complete(type) ==
    Data([type |-> type, args |-> [i \in 1..Len(Widths(type)) |-> 0], extra |-> <<>>])

(* What servers send: numbers that fit their fields.  If arguments are     *)
(* missing the data is too short, not filled up with something else.       *)
ASSUME PacketAssumption ==
    \A pkt \in ServerPackets :
        /\ pkt.type \in Types \cup {"UNKNOWN"}
        /\ pkt.args \in Seq(Int) /\ pkt.extra \in Seq(Byte)
        /\ Len(pkt.args) <= Len(Widths(pkt.type))
        /\ \A i \in DOMAIN pkt.args : Fits(pkt.args[i], Fields(pkt.type)[i])
        /\ Len(pkt.args) < Len(Widths(pkt.type)) => Len(Data(pkt)) < Len(Complete(pkt.type))
        /\ Len(Data(pkt)) < TooLong

(* A greeting that the client accepts is as long as it says, or has the    *)
(* version behind it.                                                      *)
ASSUME HelloAssumption ==
    \A hello \in Hellos :
        LET declared == Declared(hello)
        IN  /\ declared \in GreetingLength..MaxHello
            /\ SubSeq(hello, 5, 4 + GreetingLength) = Greeting
            => Len(hello) = 4 + declared + (IF declared >= GreetingLength + 4 THEN 0 ELSE 4)

(* The server sends a packet, once it has the client's hello. *)
ServerSends(pkt) ==
    /\ open /\ pc \in Session /\ total < MaxSent
    /\ incoming' = incoming \o Wire(pkt)
    /\ sent' = Append(sent, pkt) /\ total' = total + 1
    /\ UNCHANGED <<pc, open, received, readVars, writeVars, backoffVars, got, stalled>>

-----------------------------------------------------------------------------
(* Connecting.                                                             *)

(* reconnect_delay *)
BackOff ==
    /\ delay' = Backoff(retry)
    /\ retry' = Counted(retry)
    /\ pc' = "backoff"

(* tls_read_full of n bytes.  As nothing else happens meanwhile it is one  *)
(* step; what one that fails leaves in the buffer is left out.             *)
TlsReadFull(n) ==
    /\ open /\ Len(incoming) >= n
    /\ readBuf' = Overlay(readBuf, 0, SubSeq(incoming, 1, n))
    /\ incoming' = SubSeq(incoming, n + 1, Len(incoming))

(* tls_client_connect, and the server greets *)
Connect(hello) ==
    /\ pc = "connect" /\ total < MaxSent
    /\ open' = TRUE /\ incoming' = hello
    /\ pc' = "hellolength"
    /\ UNCHANGED <<received, readVars, writeVars, backoffVars, ghostVars>>

ConnectFails ==
    /\ pc = "connect" /\ total < MaxSent
    /\ BackOff
    /\ UNCHANGED <<connectionVars, readVars, writeVars, ghostVars>>

(* The length of the hello; then the hello is read. *)
HelloLength ==
    /\ pc = "hellolength"
    /\ TlsReadFull(4)
    /\ IF Declared(readBuf') \in GreetingLength..MaxHello
       THEN want' = Declared(readBuf') /\ pc' = "hello" /\ UNCHANGED backoffVars
       ELSE BackOff /\ UNCHANGED want
    /\ UNCHANGED <<open, received, header, offset, writeVars, ghostVars>>

(* The client's hello. *)
ClientHello ==
    WriteU32(GreetingLength + 8 + Len(Name)) \o Greeting
    \o WriteU16(Version[1]) \o WriteU16(Version[2]) \o WriteU32(Len(Name)) \o Name

(* What is written next.  (That it does not fit, ESP_ERR_NO_MEM, cannot    *)
(* happen: BufferAssumption.)                                              *)
Send(bytes) ==
    /\ writeBuf' = Overlay(writeBuf, 0, bytes)
    /\ length' = Len(bytes)

(* The hello: if the version is not in it, it is read separately. *)
Hello ==
    /\ pc = "hello"
    /\ TlsReadFull(want)
    /\ IF SubSeq(readBuf', 1, GreetingLength) # Greeting
       THEN BackOff /\ UNCHANGED writeVars
       ELSE /\ IF want >= GreetingLength + 4
               THEN Send(ClientHello) /\ pc' = "writehello"
               ELSE pc' = "version" /\ UNCHANGED writeVars
            /\ UNCHANGED backoffVars
    /\ UNCHANGED <<open, received, header, offset, want, ghostVars>>

ReadVersion ==
    /\ pc = "version"
    /\ TlsReadFull(4)
    /\ Send(ClientHello) /\ pc' = "writehello"
    /\ UNCHANGED <<open, received, header, offset, want, backoffVars, ghostVars>>

(* The connection closes or breaks, a read takes 5 s, or a notification    *)
(* comes while it waits.                                                   *)
HandshakeFails ==
    /\ pc \in Handshake
    /\ open' \in BOOLEAN
    /\ BackOff
    /\ UNCHANGED <<incoming, received, readVars, writeVars, ghostVars>>

(* The delay is over.  Of the connection and of the calls that used it     *)
(* only the two buffers are left.                                          *)
BackoffOver ==
    /\ pc = "backoff"
    /\ open' = FALSE /\ incoming' = <<>> /\ received' = <<>>
    /\ header' = <<>> /\ offset' = 0 /\ want' = 0 /\ length' = 0 /\ delay' = 0
    /\ sent' = <<>> /\ got' = <<>> /\ stalled' = FALSE
    /\ pc' = "connect"
    /\ UNCHANGED <<readBuf, writeBuf, retry, total>>

-----------------------------------------------------------------------------
(* Writing: tls_client_write of the first length bytes of the buffer,      *)
(* which is one step for the same reason.                                  *)

Writing == {"writehello", "write"}

Delivered(n) == received' = received \o SubSeq(writeBuf, 1, n)

(* ESP_OK: the session begins, or goes on, with the next packet. *)
Sent ==
    /\ retry' = IF pc = "writehello" THEN 0 ELSE retry
    /\ header' = <<>>
    /\ pc' = "header"
    /\ UNCHANGED <<incoming, offset, want, readBuf, writeVars, delay, ghostVars>>

WriteDone ==
    /\ pc \in Writing
    /\ Delivered(length) /\ Sent
    /\ UNCHANGED open

(* Mutant of WriteTorn: the connection goes on. *)
WriteTornGoesOn(n) ==
    /\ pc \in Writing /\ n < length
    /\ Delivered(n) /\ Sent
    /\ UNCHANGED open

(* The connection closes or breaks after n bytes, which counts as sent. *)
WriteTorn(n) ==
    /\ pc \in Writing /\ n < length
    /\ Delivered(n) /\ Sent
    /\ open' = FALSE

(* After n bytes it does not take any more for 300 ms, which is an error. *)
WriteTimesOut(n) ==
    /\ pc \in Writing /\ n < length
    /\ Delivered(n)
    /\ open' = FALSE
    /\ IF pc = "writehello" THEN BackOff ELSE pc' = "cleanup" /\ UNCHANGED backoffVars
    /\ UNCHANGED <<incoming, readVars, writeVars, ghostVars>>

-----------------------------------------------------------------------------
(* read_packet.                                                            *)

(* The first loop, into the local header: a read returns n bytes. *)
ReadHeader(n) ==
    /\ pc = "header" /\ open
    /\ n <= 4 - Len(header) /\ n <= Len(incoming)
    /\ header' = header \o SubSeq(incoming, 1, n)
    /\ incoming' = SubSeq(incoming, n + 1, Len(incoming))
    /\ UNCHANGED <<pc, open, received, offset, want, readBuf, writeVars, backoffVars,
                   ghostVars>>

(* The second loop, into the read buffer. *)
ReadPayload(n) ==
    /\ pc = "payload" /\ open
    /\ n <= want - offset /\ n <= Len(incoming)
    /\ readBuf' = Overlay(readBuf, offset, SubSeq(incoming, 1, n))
    /\ offset' = offset + n
    /\ incoming' = SubSeq(incoming, n + 1, Len(incoming))
    /\ UNCHANGED <<pc, open, received, header, want, writeVars, backoffVars, ghostVars>>

(* Mutant of HeaderRead: the length includes the header. *)
HeaderReadAll ==
    /\ pc = "header" /\ Len(header) = 4
    /\ IF Declared(header) \in CodeLength..BufferSize
       THEN /\ readBuf' = Overlay(readBuf, 0, header)
            /\ offset' = 4 /\ want' = 4 + Declared(header)
            /\ pc' = "payload"
       ELSE pc' = "cleanup" /\ UNCHANGED <<readBuf, offset, want>>
    /\ UNCHANGED <<connectionVars, header, writeVars, backoffVars, ghostVars>>

(* The length prefix is there: it must be that of a packet that fits the   *)
(* buffer, where it is put in front of what follows.                       *)
HeaderRead ==
    /\ pc = "header" /\ Len(header) = 4
    /\ IF Declared(header) \in CodeLength..(BufferSize - 4)
       THEN /\ readBuf' = Overlay(readBuf, 0, header)
            /\ offset' = 4 /\ want' = 4 + Declared(header)
            /\ pc' = "payload"
       ELSE pc' = "cleanup" /\ UNCHANGED <<readBuf, offset, want>>
    /\ UNCHANGED <<connectionVars, header, writeVars, backoffVars, ghostVars>>

(* The payload is there too. *)
PayloadRead ==
    /\ pc = "payload" /\ offset = want
    /\ pc' = "parse"
    /\ UNCHANGED <<connectionVars, readVars, writeVars, backoffVars, ghostVars>>

(* ESP_ERR_TIMEOUT: nothing came for a while.  The call ends, and with it  *)
(* what it knew of a packet it was in the middle of; the next call begins  *)
(* with a header.                                                          *)
ReadTimesOut ==
    /\ pc \in {"header", "payload"} /\ open
    /\ stalled' = (stalled \/ pc = "payload" \/ header # <<>>)
    /\ header' = <<>> /\ pc' = "header"
    /\ UNCHANGED <<connectionVars, offset, want, readBuf, writeVars, backoffVars,
                   sent, total, got>>

(* The connection closes or breaks, or a notification comes. *)
ReadFails ==
    /\ pc \in {"header", "payload"}
    /\ open' \in (IF open THEN BOOLEAN ELSE {FALSE})
    /\ pc' = "cleanup"
    /\ UNCHANGED <<incoming, received, readVars, writeVars, backoffVars, ghostVars>>

(* The packet has been read, but EVENT_RECONNECT is set by now: the session *)
(* ends, and nobody handles it.                                            *)
Break ==
    /\ pc = "parse"
    /\ pc' = "cleanup"
    /\ UNCHANGED <<connectionVars, readVars, writeVars, backoffVars, ghostVars>>

(* What handle_packet answers. *)
Answered == {"QINF", "CALV"}

ReplyTo(type) ==
    IF type = "QINF"
    THEN [type |-> "DINF", args |-> <<0, 0, Screen[1], Screen[2], 0, 0, 0>>]
    ELSE [type |-> "CALV", args |-> <<>>]

EndsSession == {"refused", "CBYE", "EUNK", "EBSY", "EBAD", "EICV"}

(* packet_parse, then handle_packet: the reply is put into the write       *)
(* buffer, over what it held before.  A command that the actuator refuses  *)
(* ends the session too.                                                   *)
Handle ==
    LET packet == Parse(readBuf, want)
    IN  /\ pc = "parse"
        /\ got' = Append(got, packet)
        /\ IF packet.type \in Answered
           THEN Send(Serialize(ReplyTo(packet.type), writeBuf)) /\ pc' = "write"
           ELSE /\ pc' \in (IF packet.type \in EndsSession THEN {"cleanup"}
                            ELSE {"header", "cleanup"})
                /\ UNCHANGED writeVars
        /\ header' = <<>>
        /\ UNCHANGED <<connectionVars, offset, want, readBuf, backoffVars,
                       sent, total, stalled>>

(* The session is over. *)
Cleanup ==
    /\ pc = "cleanup"
    /\ open' = FALSE
    /\ BackOff
    /\ UNCHANGED <<incoming, received, readVars, writeVars, ghostVars>>

-----------------------------------------------------------------------------
ClientStep ==
    \/ \E hello \in Hellos : Connect(hello)
    \/ ConnectFails
    \/ HelloLength \/ Hello \/ ReadVersion \/ HandshakeFails \/ BackoffOver
    \/ WriteDone
    \/ \E n \in 0..BufferSize : WriteTorn(n) \/ WriteTimesOut(n)
    \/ \E n \in 1..4 : ReadHeader(n)
    \/ HeaderRead
    \/ \E n \in 1..BufferSize : ReadPayload(n)
    \/ PayloadRead \/ ReadTimesOut \/ ReadFails
    \/ Break \/ Handle \/ Cleanup

Next == ClientStep \/ \E pkt \in ServerPackets : ServerSends(pkt)

Spec == Init /\ [][Next]_vars

-----------------------------------------------------------------------------
(* The properties.                                                         *)

(* Every variable holds what its C type and its use allow; the buffer in   *)
(* particular is never asked to hold more than it can, whatever arrives.   *)
TypeOK ==
    /\ pc \in Pcs /\ open \in BOOLEAN
    /\ incoming \in Seq(Byte) /\ received \in Seq(Byte)
    /\ header \in Seq(Byte) /\ Len(header) <= 4
    /\ want \in 0..BufferSize /\ offset \in 0..BufferSize
    /\ pc = "payload" => offset <= want
    /\ readBuf \in [1..BufferSize -> Byte] /\ writeBuf \in [1..BufferSize -> Byte]
    /\ length \in 0..BufferSize
    /\ retry \in Retry /\ delay \in 0..MaxDelay
    /\ total \in 0..MaxSent /\ stalled \in BOOLEAN

(* What packet_parse reads of the buffer was written there by the read of  *)
(* this packet, and is not what a longer one left behind: also when the    *)
(* client is out of step and takes anything for a packet.                  *)
ReadsOnlyWhatCame ==
    pc = "parse" =>
        LET type == CodeToType(SubSeq(readBuf, 5, HeaderLength))
        IN  Parse(readBuf, want) # Refused =>
                \A i \in DOMAIN Fields(type) :
                    HeaderLength + Fields(type)[i].at + Fields(type)[i].width <= want

(* As long as no read gave up in the middle of a packet, the client takes  *)
(* the packets for what they were when they were sent, in order, without   *)
(* any lost or made up, and never waits for bytes that were not sent: in   *)
(* whatever pieces they come, whatever trails their data and whatever the  *)
(* buffer held before.                                                     *)
InStep ==
    ~stalled =>
        /\ IsPrefix(got, [i \in DOMAIN sent |-> Meant(sent[i])])
        /\ open /\ pc = "header" /\ header # <<>> => 4 - Len(header) <= Len(incoming)
        /\ open /\ pc = "payload" => want - offset <= Len(incoming)

(* What a server would have to receive: the hello, and the answers to the  *)
(* packets that were handled.                                              *)
Due ==
    LET Bytes(packet) ==
            IF packet.type \in Answered
            THEN LET reply == ReplyTo(packet.type)
                 IN  Wire([type |-> reply.type, args |-> reply.args, extra |-> <<>>])
            ELSE <<>>
        hello == BigEndian(GreetingLength + 8 + Len(Name), 4) \o Greeting
                 \o BigEndian(Version[1], 2) \o BigEndian(Version[2], 2)
                 \o BigEndian(Len(Name), 4) \o Name
    IN  hello \o FlattenSeq([i \in DOMAIN got |-> Bytes(got[i])])

(* The server never gets anything but that, and all of it between two      *)
(* packets: a write that stops half way is counted as sent by              *)
(* tls_client_write, so nothing may be written after it.                   *)
RepliesWhole ==
    /\ IsPrefix(received, Due)
    /\ open /\ pc \in {"header", "payload", "parse"} => received = Due

(* "Exponential backoff: base * 2^retry, capped at max": so it is for the  *)
(* first 29 attempts in a row that fail.  (The product of the 30th is 0 in *)
(* 32 bits, and so is every later one.)                                    *)
BackoffAsDocumented ==
    pc = "backoff" /\ retry \in 1..29 =>
        delay = IF retry <= 10 /\ BaseDelay * 2 ^ (retry - 1) < MaxDelay
                THEN BaseDelay * 2 ^ (retry - 1) ELSE MaxDelay
=============================================================================
