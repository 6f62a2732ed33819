--------------------------- MODULE MCPacketStream ---------------------------
(***************************************************************************)
(* An instance of PacketStream for TLC.                                    *)
(***************************************************************************)
EXTENDS PacketStream

(* 2^32 / 8: the values of a uint32_t in units of 8 ms. *)
Word32 == 536870912

Packet(type, args) == [type |-> type, args |-> args, extra |-> <<>>]

(* Numbers at the edges of their widths, data with more behind it, data    *)
(* that is too short, a packet too large for the buffer, one that nobody   *)
(* knows, one that is answered after a shorter and a longer one.           *)
SomePackets ==
    { Packet("QINF", <<>>), Packet("CALV", <<>>),
      Packet("DMWM", <<-1, 120>>), Packet("DMDN", <<-1>>),
      Packet("CINN", <<3, 256, 65536, 32768>>),
      Packet("CCLP", <<1, 7>>), Packet("EICV", <<1, 8>>),
      [type |-> "DMMV", args |-> <<5>>, extra |-> <<0>>],
      [type |-> "DKDN", args |-> <<97, 2, 65535>>, extra |-> <<0, 0>>],
      [type |-> "UNKNOWN", args |-> <<>>, extra |-> <<9>>],
      [type |-> "UNKNOWN", args |-> <<>>, extra |-> [i \in 1..20 |-> 1]] }

(* A hello with its version, one without, one that is too short and one    *)
(* of another program.                                                     *)
SomeHellos ==
    { BigEndian(11, 4) \o Greeting \o <<0, 1, 0, 8>>,
      BigEndian(8, 4) \o Greeting \o <<0, 0, 1, 0, 8>>,
      BigEndian(6, 4) \o SubSeq(Greeting, 1, 6),
      BigEndian(7, 4) \o Reverse(Greeting) }

OneLetter == <<101>>
SomeScreen == <<1920, 1080>>
=============================================================================
