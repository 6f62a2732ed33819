-------------------------- MODULE PacketStreamProofs --------------------------
(***************************************************************************)
(* Proofs about PacketStream for any server that keeps the protocol, any   *)
(* sizes of the pieces and any size of the buffer.                         *)
(*                                                                         *)
(* The codec comes first: what a number, an argument and a packet look     *)
(* like on the wire, and that packet_parse gives back what they meant      *)
(* (ParseGivesWhatWasMeant) and packet_serialize what the protocol asks    *)
(* for (RepliesSerialized).  Then the streams: what a sequence of packets  *)
(* comes to.  Then the steps, which keep two equations:                    *)
(*                                                                         *)
(*   Framed  what was read of a packet, and behind it what is under way,   *)
(*           is the stream of the packets that were not taken yet;         *)
(*   Owed    what was written, and behind it what is being written, is     *)
(*           the hello and the answers to the packets that were taken.     *)
(***************************************************************************)
EXTENDS PacketStream, ReconnectProofs, SequenceTheorems

-----------------------------------------------------------------------------
(* The codec.                                                              *)

(* The fields of a packet lie inside the data that is asked for. *)
LEMMA FieldsFit ==
  ASSUME NEW type, NEW i \in DOMAIN Fields(type)
  PROVE  /\ Fields(type)[i].at + Fields(type)[i].width <= MinData(type)
         /\ Fields(type)[i].at \in Nat /\ Fields(type)[i].width \in Nat
         /\ MinData(type) \in Nat
<1> USE DEF U8, I8, U16, I16, U32
<1>1. CASE type = "DINF"
  BY <1>1 DEF Fields, MinData
<1>2. CASE type \in {"DMMV", "EICV"}
  BY <1>2 DEF Fields, MinData
<1>3. CASE type \in {"DMRM", "DMWM"}
  BY <1>3 DEF Fields, MinData
<1>4. CASE type \in {"DMUP", "DMDN"}
  BY <1>4 DEF Fields, MinData
<1>5. CASE type = "CINN"
  BY <1>5 DEF Fields, MinData
<1>6. CASE type \in {"DKUP", "DKDN"}
  BY <1>6 DEF Fields, MinData
<1>7. CASE type = "DKRP"
  BY <1>7 DEF Fields, MinData
<1>8. CASE type \in {"CCLP", "DCLP"}
  BY <1>8 DEF Fields, MinData
<1>9. CASE type \notin {"DINF", "DMMV", "EICV", "DMRM", "DMWM", "DMUP", "DMDN", "CINN",
                        "DKUP", "DKDN", "DKRP", "CCLP", "DCLP"}
  <2>1. Fields(type) = <<>>
    BY <1>9 DEF Fields
  <2> QED
    BY <2>1
<1> QED
  BY <1>1, <1>2, <1>3, <1>4, <1>5, <1>6, <1>7, <1>8, <1>9

(* A packet that is not refused is as long as what it says, and that is    *)
(* as long as its data must be.                                            *)
LEMMA ParsedIsLongEnough ==
  ASSUME NEW buf, NEW len \in Nat, Parse(buf, len) # Refused, len = 4 + ReadU32(buf, 1),
         ReadU32(buf, 1) \in Nat,
         MinData(CodeToType(SubSeq(buf, 5, HeaderLength))) \in Nat
  PROVE  len >= HeaderLength + MinData(CodeToType(SubSeq(buf, 5, HeaderLength)))
<1> DEFINE type == CodeToType(SubSeq(buf, 5, HeaderLength))
<1>1. len >= HeaderLength
  BY DEF Parse, HeaderLength, CodeLength
<1>2. ~(DataOf(ReadU32(buf, 1)) < MinData(type))
  BY <1>1 DEF Parse
<1>3. DataOf(ReadU32(buf, 1)) = len - HeaderLength
  BY <1>1 DEF DataOf, HeaderLength, CodeLength
<1> HIDE DEF type
<1>4. MinData(type) \in Nat
  BY DEF type
<1>5. len >= HeaderLength + MinData(type)
  BY <1>1, <1>2, <1>3, <1>4 DEF HeaderLength, CodeLength
<1> QED
  BY <1>5 DEF type

-----------------------------------------------------------------------------
(* Joining sequences.                                                      *)

(* The table FlattenSeq is read off: the first i of some sequences, joined. *)
IsJoin(f, seqs) ==
    f = [i \in 1..Len(seqs) |-> IF i = 1 THEN seqs[i] ELSE f[i - 1] \o seqs[i]]

Joined(seqs) == CHOOSE f : IsJoin(f, seqs)

LEMMA JoinExists ==
  ASSUME NEW T, NEW seqs \in Seq(T), seqs # <<>>
  PROVE  IsJoin(Joined(seqs), seqs)
<1> DEFINE Upto(f, n) == f = [i \in 1..n |-> IF i = 1 THEN seqs[i] ELSE f[i - 1] \o seqs[i]]
           limit == Len(seqs) - 1
           S == {n \in 0..limit : \E f : Upto(f, n + 1)}
<1>1. limit \in Nat
  BY EmptySeq, LenProperties
<1>2. 0 \in S
  <2> DEFINE g == [i \in 1..1 |-> seqs[1]]
  <2>1. \A i \in 1..1 : i = 1
    OBVIOUS
  <2>2. g = [i \in 1..1 |-> IF i = 1 THEN seqs[i] ELSE g[i - 1] \o seqs[i]]
    BY <2>1
  <2>3. Upto(g, 1)
    BY <2>2
  <2>4. 0 \in 0..limit /\ 0 + 1 = 1
    BY <1>1
  <2> HIDE DEF limit, g
  <2> QED
    BY <2>3, <2>4
<1>3. ASSUME NEW n \in 0..(limit - 1), n \in S PROVE n + 1 \in S
  <2>1. PICK f : Upto(f, n + 1)
    BY <1>3
  <2> DEFINE g == [i \in 1..(n + 2) |-> IF i = n + 2 THEN f[n + 1] \o seqs[n + 2] ELSE f[i]]
  <2>2. \A i \in 1..(n + 1) : f[i] = IF i = 1 THEN seqs[i] ELSE f[i - 1] \o seqs[i]
    BY <2>1
  <2>3. /\ n + 2 \in 1..(n + 2) /\ n + 2 # 1 /\ n + 1 \in 1..(n + 2) /\ n + 1 # n + 2
        /\ n + 2 - 1 = n + 1
    BY <1>1
  <2>4. g[n + 2] = g[n + 1] \o seqs[n + 2]
    BY <2>3
  <2>5. ASSUME NEW i \in 1..(n + 1)
        PROVE  g[i] = IF i = 1 THEN seqs[i] ELSE g[i - 1] \o seqs[i]
    <3>1. i \in 1..(n + 2) /\ i # n + 2
      BY <1>1
    <3>2. CASE i = 1
      BY <2>2, <3>1, <3>2
    <3>3. CASE i # 1
      <4>1. i - 1 \in 1..(n + 2) /\ i - 1 # n + 2
        BY <1>1, <3>3
      <4>2. g[i] = f[i] /\ g[i - 1] = f[i - 1]
        BY <3>1, <4>1
      <4> HIDE DEF g
      <4> QED
        BY <2>2, <3>3, <4>2
    <3> QED
      BY <3>2, <3>3
  <2>6. \A i \in 1..(n + 2) : i = n + 2 \/ i \in 1..(n + 1)
    BY <1>1
  <2>7. g = [i \in 1..(n + 2) |-> g[i]]
    OBVIOUS
  <2> HIDE DEF g
  <2>8. ASSUME NEW i \in 1..(n + 2)
        PROVE  g[i] = IF i = 1 THEN seqs[i] ELSE g[i - 1] \o seqs[i]
    <3>1. CASE i = n + 2
      <4>1. i # 1 /\ i - 1 = n + 1
        BY <2>3, <3>1
      <4>2. g[i] = g[i - 1] \o seqs[i]
        BY <2>4, <3>1, <4>1
      <4> QED
        BY <4>1, <4>2
    <3> QED
      BY <2>5, <2>6, <3>1
  <2>9. Upto(g, n + 2)
    BY <2>7, <2>8
  <2>10. n + 1 + 1 = n + 2 /\ n + 1 \in 0..limit
    BY <1>1
  <2> QED
    BY <2>9, <2>10
<1> HIDE DEF S
<1>4. 0..limit \subseteq S
  BY <1>1, <1>2, <1>3, InductionUpTo
<1>5. limit \in S /\ limit + 1 = Len(seqs)
  BY <1>1, <1>4, LenProperties
<1>6. \E f : IsJoin(f, seqs)
  BY <1>5 DEF S, IsJoin
<1> QED
  BY <1>6 DEF Joined

LEMMA JoinSteps ==
  ASSUME NEW T, NEW seqs \in Seq(T), seqs # <<>>
  PROVE  /\ Joined(seqs)[1] = seqs[1]
         /\ \A i \in 1..(Len(seqs) - 1) :
                Joined(seqs)[i + 1] = Joined(seqs)[i] \o seqs[i + 1]
<1> DEFINE f == Joined(seqs)
           Entry(i) == IF i = 1 THEN seqs[i] ELSE f[i - 1] \o seqs[i]
<1>1. f = [i \in 1..Len(seqs) |-> Entry(i)]
  BY JoinExists DEF IsJoin
<1> HIDE DEF Entry, f
<1>2. \A i \in 1..Len(seqs) : f[i] = Entry(i)
  BY <1>1
<1>3. Len(seqs) \in Nat \ {0}
  BY EmptySeq, LenProperties
<1>4. /\ 1 \in 1..Len(seqs)
      /\ \A i \in 1..(Len(seqs) - 1) : i + 1 \in 1..Len(seqs) /\ i + 1 # 1 /\ i + 1 - 1 = i
  BY <1>3
<1>5. Entry(1) = seqs[1]
  BY DEF Entry
<1>6. ASSUME NEW i \in 1..(Len(seqs) - 1) PROVE Entry(i + 1) = f[i] \o seqs[i + 1]
  <2>1. PICK k \in 1..Len(seqs) : k = i + 1 /\ k # 1 /\ k - 1 = i
    BY <1>4
  <2>2. Entry(k) = f[k - 1] \o seqs[k]
    BY <2>1 DEF Entry
  <2> QED
    BY <2>1, <2>2
<1> QED
  BY <1>2, <1>4, <1>5, <1>6 DEF f

LEMMA FlattenIsJoined ==
  ASSUME NEW seqs, Len(seqs) # 0
  PROVE  FlattenSeq(seqs) = Joined(seqs)[Len(seqs)]
  BY DEF FlattenSeq, Joined, IsJoin

(* FlattenSeq goes by concatenation from the left ... *)
LEMMA FlattenEmpty == FlattenSeq(<<>>) = <<>>
  BY DEF FlattenSeq

LEMMA JoinedPrefix ==
  ASSUME NEW T, NEW seqs \in Seq(T), seqs # <<>>, NEW x \in T
  PROVE  \A i \in 1..Len(seqs) : Joined(Append(seqs, x))[i] = Joined(seqs)[i]
<1> DEFINE longer == Append(seqs, x)
           limit == Len(seqs) - 1
           S == {n \in 0..limit : Joined(longer)[n + 1] = Joined(seqs)[n + 1]}
<1>1. /\ longer \in Seq(T) /\ longer # <<>> /\ Len(longer) = Len(seqs) + 1
      /\ \A i \in 1..Len(seqs) : longer[i] = seqs[i]
  BY AppendProperties
<1> HIDE DEF longer
<1>2. Len(seqs) \in Nat \ {0}
  BY EmptySeq
<1>3. 0 \in S
  <2>1. Joined(longer)[1] = longer[1] /\ Joined(seqs)[1] = seqs[1]
    BY <1>1, JoinSteps
  <2>2. longer[1] = seqs[1] /\ 0 + 1 = 1 /\ 0 \in 0..limit
    BY <1>1, <1>2
  <2> QED
    BY <2>1, <2>2
<1>4. ASSUME NEW n \in 0..(limit - 1), n \in S PROVE n + 1 \in S
  <2>1. PICK k \in 1..(Len(seqs) - 1) : k = n + 1
    BY <1>2
  <2>2. k \in 1..(Len(longer) - 1) /\ k + 1 \in 1..Len(seqs) /\ k \in 0..limit
    BY <1>1, <1>2
  <2>3. Joined(longer)[k + 1] = Joined(longer)[k] \o longer[k + 1]
    BY <1>1, <2>2, JoinSteps
  <2>4. Joined(seqs)[k + 1] = Joined(seqs)[k] \o seqs[k + 1]
    BY <2>1, JoinSteps
  <2>5. Joined(longer)[k] = Joined(seqs)[k]
    BY <1>4, <2>1
  <2>6. longer[k + 1] = seqs[k + 1]
    BY <1>1, <2>2
  <2>7. k \in S
    BY <2>2, <2>3, <2>4, <2>5, <2>6
  <2> QED
    BY <2>1, <2>7
<1> HIDE DEF S
<1>5. 0..limit \subseteq S
  <2>1. limit \in Nat
    BY <1>2
  <2> HIDE DEF limit
  <2> QED
    BY <1>3, <1>4, <2>1, InductionUpTo
<1>6. ASSUME NEW i \in 1..Len(seqs) PROVE Joined(longer)[i] = Joined(seqs)[i]
  <2>1. PICK n \in 0..limit : i = n + 1
    <3>1. i - 1 \in 0..limit /\ i = (i - 1) + 1
      BY <1>2
    <3> QED
      BY <3>1
  <2> QED
    BY <1>5, <2>1 DEF S
<1> QED
  BY <1>6 DEF longer

LEMMA FlattenAppend ==
  ASSUME NEW A, NEW seqs \in Seq(Seq(A)), NEW x \in Seq(A)
  PROVE  FlattenSeq(Append(seqs, x)) = FlattenSeq(seqs) \o x
<1>1. /\ Append(seqs, x) \in Seq(Seq(A)) /\ Append(seqs, x) # <<>>
      /\ Len(Append(seqs, x)) = Len(seqs) + 1
      /\ Append(seqs, x)[Len(seqs) + 1] = x
  BY AppendProperties
<1>2. Len(seqs) \in Nat
  BY LenProperties
<1>3. FlattenSeq(Append(seqs, x)) = Joined(Append(seqs, x))[Len(seqs) + 1]
  <2>1. Len(Append(seqs, x)) # 0
    BY <1>1, <1>2
  <2> QED
    BY <1>1, <2>1, FlattenIsJoined
<1>4. CASE seqs = <<>>
  <2>1. Len(seqs) = 0 /\ Append(seqs, x)[1] = x
    BY <1>1, <1>4
  <2>2. Joined(Append(seqs, x))[1] = Append(seqs, x)[1]
    BY <1>1, JoinSteps
  <2>3. <<>> \o x = x
    BY ConcatEmptySeq
  <2> QED
    BY <1>3, <1>4, <2>1, <2>2, <2>3, FlattenEmpty
<1>5. CASE seqs # <<>>
  <2>1. Len(seqs) \in Nat \ {0}
    BY <1>5, EmptySeq
  <2>2. Len(seqs) \in 1..(Len(Append(seqs, x)) - 1) /\ Len(seqs) \in 1..Len(seqs)
    BY <1>1, <2>1
  <2>3. Joined(Append(seqs, x))[Len(seqs) + 1] = Joined(Append(seqs, x))[Len(seqs)] \o x
    BY <1>1, <2>2, JoinSteps
  <2>4. Joined(Append(seqs, x))[Len(seqs)] = Joined(seqs)[Len(seqs)]
    BY <1>5, <2>2, JoinedPrefix
  <2>5. FlattenSeq(seqs) = Joined(seqs)[Len(seqs)]
    BY <2>1, FlattenIsJoined
  <2> QED
    BY <1>3, <2>3, <2>4, <2>5
<1> QED
  BY <1>4, <1>5

(* A sequence is built by appending its elements in turn. *)
LEMMA PrefixGrows ==
  ASSUME NEW T, NEW s \in Seq(T), NEW n \in 0..(Len(s) - 1)
  PROVE  /\ SubSeq(s, 1, n) \in Seq(T) /\ Len(SubSeq(s, 1, n)) = n
         /\ s[n + 1] \in T
         /\ SubSeq(s, 1, n + 1) = Append(SubSeq(s, 1, n), s[n + 1])
<1>1. Len(s) \in Nat /\ n \in Nat /\ n + 1 \in 1..Len(s)
  BY LenProperties
<1>2. SubSeq(s, 1, n) \in Seq(T) /\ Len(SubSeq(s, 1, n)) = n /\ s[n + 1] \in T
  <2>1. \A i \in 1..n : s[i] \in T
    BY <1>1, ElementOfSeq
  <2> QED
    BY <1>1, <2>1, SubSeqProperties, ElementOfSeq
<1>3. SubSeq(s, 1, n + 1) = SubSeq(s, 1, n) \o <<s[n + 1]>>
  <2>1. 1 \in 1..Len(s) /\ n + 1 \in 1..Len(s) /\ n + 1 - 1 = n
    BY <1>1
  <2>2. SubSeq(s, 1, n + 1) = SubSeq(s, 1, n + 1 - 1) \o <<s[n + 1]>>
    BY <2>1, SubSeqRecursiveSecond
  <2> QED
    BY <2>1, <2>2
<1>4. Append(SubSeq(s, 1, n), s[n + 1]) = SubSeq(s, 1, n) \o <<s[n + 1]>>
  BY <1>2, AppendIsConcat
<1> QED
  BY <1>2, <1>3, <1>4

LEMMA FlattenType ==
  ASSUME NEW A, NEW seqs \in Seq(Seq(A))
  PROVE  FlattenSeq(seqs) \in Seq(A)
<1> DEFINE S == {n \in 0..Len(seqs) : FlattenSeq(SubSeq(seqs, 1, n)) \in Seq(A)}
<1>1. Len(seqs) \in Nat
  BY LenProperties
<1>2. 0 \in S
  <2>1. SubSeq(seqs, 1, 0) = <<>>
    BY SubSeqEmpty
  <2>2. FlattenSeq(SubSeq(seqs, 1, 0)) \in Seq(A)
    BY <2>1, EmptySeq, FlattenEmpty
  <2> QED
    BY <1>1, <2>2
<1>3. ASSUME NEW n \in 0..(Len(seqs) - 1), n \in S PROVE n + 1 \in S
  <2>1. /\ SubSeq(seqs, 1, n) \in Seq(Seq(A)) /\ seqs[n + 1] \in Seq(A)
        /\ SubSeq(seqs, 1, n + 1) = Append(SubSeq(seqs, 1, n), seqs[n + 1])
    BY PrefixGrows
  <2>2. FlattenSeq(SubSeq(seqs, 1, n + 1)) = FlattenSeq(SubSeq(seqs, 1, n)) \o seqs[n + 1]
    BY <2>1, FlattenAppend
  <2>3. FlattenSeq(SubSeq(seqs, 1, n)) \in Seq(A)
    BY <1>3
  <2>4. FlattenSeq(SubSeq(seqs, 1, n + 1)) \in Seq(A)
    BY <2>1, <2>2, <2>3, ConcatProperties
  <2>5. n + 1 \in 0..Len(seqs)
    BY <1>1
  <2> QED
    BY <2>4, <2>5
<1> HIDE DEF S
<1>4. Len(seqs) \in S
  <2>1. 0..Len(seqs) \subseteq S
    BY <1>1, <1>2, <1>3, InductionUpTo
  <2> QED
    BY <1>1, <2>1
<1>5. SubSeq(seqs, 1, Len(seqs)) = seqs
  BY SubSeqFull
<1> QED
  BY <1>4, <1>5 DEF S

(* ... and as well from the right. *)
LEMMA FlattenHead ==
  ASSUME NEW A, NEW seqs \in Seq(Seq(A)), seqs # <<>>
  PROVE  FlattenSeq(seqs) = seqs[1] \o FlattenSeq(Tail(seqs))
<1> DEFINE limit == Len(seqs) - 1
           S == {n \in 0..limit :
                   FlattenSeq(SubSeq(seqs, 1, n + 1)) =
                       seqs[1] \o FlattenSeq(SubSeq(seqs, 2, n + 1))}
<1>1. Len(seqs) \in Nat \ {0} /\ limit \in Nat
  BY EmptySeq
<1>2. seqs[1] \in Seq(A)
  BY <1>1, ElementOfSeq
<1>3. 0 \in S
  <2>1. SubSeq(seqs, 1, 0) = <<>> /\ SubSeq(seqs, 2, 1) = <<>>
    BY SubSeqEmpty
  <2>2. SubSeq(seqs, 1, 1) = Append(SubSeq(seqs, 1, 0), seqs[1])
    <3>1. PICK n \in 0..(Len(seqs) - 1) : n = 0 /\ n + 1 = 1
      BY <1>1
    <3>2. SubSeq(seqs, 1, n + 1) = Append(SubSeq(seqs, 1, n), seqs[n + 1])
      BY PrefixGrows
    <3> QED
      BY <3>1, <3>2
  <2>3. SubSeq(seqs, 1, 1) = Append(<<>>, seqs[1]) /\ <<>> \in Seq(Seq(A))
    BY <2>1, <2>2, EmptySeq
  <2>4. FlattenSeq(SubSeq(seqs, 1, 1)) = <<>> \o seqs[1]
    BY <1>2, <2>3, FlattenAppend, FlattenEmpty
  <2>5. <<>> \o seqs[1] = seqs[1] /\ seqs[1] \o <<>> = seqs[1]
    BY <1>2, ConcatEmptySeq
  <2>6. FlattenSeq(SubSeq(seqs, 1, 1)) = seqs[1] \o FlattenSeq(SubSeq(seqs, 2, 1))
    BY <2>1, <2>4, <2>5, FlattenEmpty
  <2>7. 0 \in 0..limit /\ 0 + 1 = 1
    BY <1>1
  <2> HIDE DEF limit
  <2> QED
    BY <2>6, <2>7
<1>4. ASSUME NEW n \in 0..(limit - 1), n \in S PROVE n + 1 \in S
  <2>1. PICK k \in 1..(Len(seqs) - 1) : k = n + 1
    BY <1>1
  <2>2. k + 1 \in 2..Len(seqs) /\ 2 \in 1..Len(seqs) /\ k + 1 - 1 = k /\ k \in 0..limit
        /\ k \in 0..(Len(seqs) - 1)
    BY <1>1, <2>1
  <2>3. /\ SubSeq(seqs, 1, k) \in Seq(Seq(A)) /\ seqs[k + 1] \in Seq(A)
        /\ SubSeq(seqs, 1, k + 1) = Append(SubSeq(seqs, 1, k), seqs[k + 1])
    BY <2>2, PrefixGrows
  <2>4. SubSeq(seqs, 2, k) \in Seq(Seq(A))
    <3>1. \A i \in 2..k : seqs[i] \in Seq(A)
      BY <1>1, ElementOfSeq
    <3> QED
      BY <3>1, SubSeqProperties
  <2>5. SubSeq(seqs, 2, k + 1) = Append(SubSeq(seqs, 2, k), seqs[k + 1])
    <3>1. SubSeq(seqs, 2, k + 1) = SubSeq(seqs, 2, k + 1 - 1) \o <<seqs[k + 1]>>
      BY <2>2, SubSeqRecursiveSecond
    <3>2. Append(SubSeq(seqs, 2, k), seqs[k + 1]) = SubSeq(seqs, 2, k) \o <<seqs[k + 1]>>
      BY <2>3, <2>4, AppendIsConcat
    <3> QED
      BY <2>2, <3>1, <3>2
  <2> DEFINE left == FlattenSeq(SubSeq(seqs, 1, k))
             right == FlattenSeq(SubSeq(seqs, 2, k))
  <2>6. left = seqs[1] \o right
    BY <1>4, <2>1
  <2>7. right \in Seq(A)
    BY <2>4, FlattenType
  <2>8. /\ FlattenSeq(SubSeq(seqs, 1, k + 1)) = left \o seqs[k + 1]
        /\ FlattenSeq(SubSeq(seqs, 2, k + 1)) = right \o seqs[k + 1]
    BY <2>3, <2>4, <2>5, FlattenAppend
  <2> HIDE DEF left, right
  <2>9. (seqs[1] \o right) \o seqs[k + 1] = seqs[1] \o (right \o seqs[k + 1])
    <3> HIDE DEF limit, S
    <3>1. PICK s \in Seq(A), t \in Seq(A), u \in Seq(A) :
              s = seqs[1] /\ t = right /\ u = seqs[k + 1]
      BY <1>2, <2>3, <2>7
    <3>2. (s \o t) \o u = s \o (t \o u)
      BY ConcatAssociative, SMTT(60)
    <3> QED
      BY <3>1, <3>2
  <2>10. FlattenSeq(SubSeq(seqs, 1, k + 1)) = seqs[1] \o FlattenSeq(SubSeq(seqs, 2, k + 1))
    BY <2>6, <2>8, <2>9
  <2>11. k \in S
    BY <2>2, <2>10
  <2> QED
    BY <2>1, <2>11
<1> HIDE DEF S
<1>5. limit \in S
  <2> HIDE DEF limit
  <2>1. 0..limit \subseteq S
    BY <1>1, <1>3, <1>4, InductionUpTo
  <2> QED
    BY <1>1, <2>1
<1>6. limit + 1 = Len(seqs)
  BY <1>1
<1>7. SubSeq(seqs, 1, Len(seqs)) = seqs /\ Tail(seqs) = SubSeq(seqs, 2, Len(seqs))
  BY SubSeqFull, TailIsSubSeq
<1> HIDE DEF limit
<1> QED
  BY <1>5, <1>6, <1>7 DEF S

(* Where an element of one of the sequences ends up. *)
Offsets(at, seqs) ==
    /\ at[1] = 0
    /\ \A i \in 1..Len(seqs) : at[i + 1] = at[i] + Len(seqs[i])

LEMMA FlattenAt ==
  ASSUME NEW A, NEW seqs \in Seq(Seq(A)), NEW at, Offsets(at, seqs)
  PROVE  /\ Len(FlattenSeq(seqs)) = at[Len(seqs) + 1]
         /\ \A i \in 1..Len(seqs) :
                /\ at[i] \in Nat /\ at[i] + Len(seqs[i]) <= Len(FlattenSeq(seqs))
                /\ \A j \in 1..Len(seqs[i]) : FlattenSeq(seqs)[at[i] + j] = seqs[i][j]
<1> DEFINE F(n) == FlattenSeq(SubSeq(seqs, 1, n))
           S == {n \in 0..Len(seqs) :
                   /\ Len(F(n)) = at[n + 1]
                   /\ \A i \in 1..n :
                         /\ at[i] \in Nat /\ at[i] + Len(seqs[i]) <= at[n + 1]
                         /\ \A j \in 1..Len(seqs[i]) : F(n)[at[i] + j] = seqs[i][j]}
<1>1. Len(seqs) \in Nat
  BY LenProperties
<1>2. 0 \in S
  <2>1. SubSeq(seqs, 1, 0) = <<>>
    BY SubSeqEmpty
  <2>2. Len(F(0)) = at[1]
    BY <2>1, EmptySeq, FlattenEmpty DEF Offsets
  <2>3. 0 \in 0..Len(seqs) /\ 0 + 1 = 1 /\ 1..0 = {}
    BY <1>1
  <2> HIDE DEF F
  <2> QED
    BY <2>2, <2>3
<1>3. ASSUME NEW n \in 0..(Len(seqs) - 1), n \in S PROVE n + 1 \in S
  <2>1. PICK m \in 1..Len(seqs) : m = n + 1
    BY <1>1
  <2>2. m - 1 = n /\ m \in 0..Len(seqs) /\ \A i \in 1..m : i \in 1..n \/ i = m
    BY <1>1, <2>1
  <2>3. /\ SubSeq(seqs, 1, n) \in Seq(Seq(A)) /\ seqs[m] \in Seq(A)
        /\ SubSeq(seqs, 1, m) = Append(SubSeq(seqs, 1, n), seqs[m])
    BY <2>1, PrefixGrows
  <2>4. F(m) = F(n) \o seqs[m] /\ F(n) \in Seq(A)
    BY <2>3, FlattenAppend, FlattenType
  <2> HIDE DEF F
  <2>5. PICK f \in Seq(A), x \in Seq(A) : f = F(n) /\ x = seqs[m] /\ F(m) = f \o x
    BY <2>3, <2>4
  <2>6. /\ Len(f) \in Nat /\ Len(x) \in Nat /\ Len(f) = at[m]
        /\ at[m + 1] = at[m] + Len(x)
    BY <1>3, <2>1, <2>5, LenProperties DEF Offsets
  <2>7. /\ Len(f \o x) = Len(f) + Len(x)
        /\ \A k \in 1..Len(f) + Len(x) :
              (f \o x)[k] = IF k <= Len(f) THEN f[k] ELSE x[k - Len(f)]
    BY ConcatProperties
  <2>8. ASSUME NEW i \in 1..n
        PROVE  /\ at[i] \in Nat /\ at[i] + Len(seqs[i]) <= at[m + 1]
               /\ \A j \in 1..Len(seqs[i]) : F(m)[at[i] + j] = seqs[i][j]
    <3>1. /\ at[i] \in Nat /\ at[i] + Len(seqs[i]) <= at[m]
          /\ \A j \in 1..Len(seqs[i]) : f[at[i] + j] = seqs[i][j]
      BY <1>3, <2>1, <2>5
    <3>2. Len(seqs[i]) \in Nat
      <4>1. seqs[i] \in Seq(A)
        BY <1>1, ElementOfSeq
      <4> QED
        BY <4>1, LenProperties
    <3>3. at[i] + Len(seqs[i]) <= at[m + 1]
      BY <2>6, <3>1, <3>2, SMTT(30)
    <3>4. ASSUME NEW j \in 1..Len(seqs[i]) PROVE (f \o x)[at[i] + j] = f[at[i] + j]
      <4>1. \A a, l, e, e2 \in Nat, k \in Int :
                k \in 1..l /\ a + l <= e => a + k \in 1..(e + e2) /\ a + k <= e
        OBVIOUS
      <4>2. at[i] + j \in 1..(Len(f) + Len(x)) /\ at[i] + j <= Len(f)
        <5>1. /\ at[i] \in Nat /\ Len(seqs[i]) \in Nat /\ Len(f) \in Nat /\ Len(x) \in Nat
              /\ at[i] + Len(seqs[i]) <= Len(f) /\ j \in 1..Len(seqs[i]) /\ j \in Int
          BY <2>6, <3>1, <3>2
        <5> QED
          BY <4>1, <5>1
      <4> QED
        BY <2>7, <4>2
    <3> QED
      BY <2>5, <3>1, <3>3, <3>4
  <2>9. /\ at[m] \in Nat /\ at[m] + Len(seqs[m]) <= at[m + 1]
        /\ \A j \in 1..Len(seqs[m]) : F(m)[at[m] + j] = seqs[m][j]
    <3>1. ASSUME NEW j \in 1..Len(x) PROVE (f \o x)[Len(f) + j] = x[j]
      <4>1. /\ Len(f) + j \in 1..Len(f) + Len(x) /\ ~(Len(f) + j <= Len(f))
            /\ Len(f) + j - Len(f) = j
        BY <2>6, SMTT(30)
      <4> QED
        BY <2>7, <4>1
    <3>2. at[m] \in Nat /\ at[m] + Len(x) <= at[m + 1]
      BY <2>6
    <3>3. \A j \in 1..Len(seqs[m]) : F(m)[at[m] + j] = seqs[m][j]
      BY <2>5, <2>6, <3>1
    <3> QED
      BY <2>5, <3>2, <3>3
  <2>10. Len(F(m)) = at[m + 1]
    BY <2>5, <2>6, <2>7
  <2>11. m \in S
    BY <2>2, <2>8, <2>9, <2>10
  <2> QED
    BY <2>1, <2>11
<1> HIDE DEF S
<1>4. Len(seqs) \in S
  <2>1. 0..Len(seqs) \subseteq S
    BY <1>1, <1>2, <1>3, InductionUpTo
  <2> QED
    BY <1>1, <2>1
<1>5. F(Len(seqs)) = FlattenSeq(seqs)
  BY SubSeqFull
<1> HIDE DEF F
<1> QED
  BY <1>4, <1>5 DEF S

-----------------------------------------------------------------------------
(* Numbers and their bytes.                                                *)

LEMMA Powers == 256 ^ 0 = 1 /\ 256 ^ 1 = 256 /\ 256 ^ 2 = 65536 /\ 256 ^ 3 = 16777216
  BY SMT

(* The bytes of a number. *)
LEMMA ByteAt ==
  ASSUME NEW n \in Int
  PROVE  BigEndian(n, 1)[1] = n % 256
<1>1. n \div 1 = n /\ 1 - 1 = 0 /\ 1 \in 1..1
  OBVIOUS
<1> QED
  BY <1>1, Powers, SMT DEF BigEndian

LEMMA ShortAt ==
  ASSUME NEW n \in Int
  PROVE  /\ BigEndian(n, 2)[1] = (n \div 256) % 256
         /\ BigEndian(n, 2)[2] = n % 256
<1>1. n \div 1 = n /\ 2 - 1 = 1 /\ 2 - 2 = 0 /\ 1 \in 1..2 /\ 2 \in 1..2
  OBVIOUS
<1> QED
  BY <1>1, Powers, SMT DEF BigEndian

LEMMA LongAt ==
  ASSUME NEW n \in Int
  PROVE  /\ BigEndian(n, 4)[1] = (n \div 16777216) % 256
         /\ BigEndian(n, 4)[2] = (n \div 65536) % 256
         /\ BigEndian(n, 4)[3] = (n \div 256) % 256
         /\ BigEndian(n, 4)[4] = n % 256
<1>1. n \div 1 = n /\ 4 - 1 = 3 /\ 4 - 2 = 2 /\ 4 - 3 = 1 /\ 4 - 4 = 0
      /\ \A i \in {1, 2, 3, 4} : i \in 1..4
  OBVIOUS
<1> QED
  BY <1>1, Powers, SMT DEF BigEndian

LEMMA BigEndianType ==
  ASSUME NEW n \in Int, NEW w \in {1, 2, 4}
  PROVE  BigEndian(n, w) \in Seq(Byte) /\ Len(BigEndian(n, w)) = w
<1>1. \A i \in 1..w : w - i \in 0..3
  OBVIOUS
<1>2. \A k \in 0..3 : 256 ^ k \in Nat \ {0}
  <2> TAKE k \in 0..3
  <2>1. CASE k = 0
    BY <2>1, Powers, SMT
  <2>2. CASE k = 1
    BY <2>2, Powers, SMT
  <2>3. CASE k = 2
    BY <2>3, Powers, SMT
  <2>4. CASE k = 3
    BY <2>4, Powers, SMT
  <2> QED
    BY <2>1, <2>2, <2>3, <2>4
<1>3. \A k \in Nat \ {0} : (n \div k) % 256 \in Byte
  BY DEF Byte
<1>4. BigEndian(n, w) \in [1..w -> Byte]
  BY <1>1, <1>2, <1>3 DEF BigEndian
<1>5. w \in Nat
  OBVIOUS
<1> QED
  BY <1>4, <1>5

(* The fields of a packet follow each other as the protocol says. *)
Laid(fields, widths, size) ==
    /\ Len(fields) = Len(widths) /\ Len(fields) \in Nat
    /\ DOMAIN fields = 1..Len(fields)
    /\ \A i \in 1..Len(fields) :
          /\ fields[i].at \in Nat /\ fields[i].width \in {1, 2, 4}
          /\ fields[i].signed => fields[i].width \in {1, 2}
          /\ widths[i] = fields[i].width
          /\ i = 1 => fields[i].at = 0
          /\ i < Len(fields) => fields[i + 1].at = fields[i].at + fields[i].width
          /\ i = Len(fields) => size = fields[i].at + fields[i].width
    /\ Len(fields) = 0 => size = 0

LEMMA Layout == \A type : Laid(Fields(type), Widths(type), MinData(type))
<1> TAKE type
<1> USE DEF U8, I8, U16, I16, U32
<1>1. CASE type = "DINF"
  <2>1. /\ Fields(type) = <<U16(0), U16(2), U16(4), U16(6), U16(8), U16(10), U16(12)>>
        /\ Widths(type) = <<2, 2, 2, 2, 2, 2, 2>> /\ MinData(type) = 14
    BY <1>1 DEF Fields, Widths, MinData
  <2>2. Laid(<<U16(0), U16(2), U16(4), U16(6), U16(8), U16(10), U16(12)>>, <<2, 2, 2, 2, 2, 2, 2>>, 14)
    BY DEF Laid
  <2> QED
    BY <2>1, <2>2
<1>2. CASE type \in {"DMMV", "EICV"}
  <2>1. /\ Fields(type) = <<U16(0), U16(2)>>
        /\ Widths(type) = <<2, 2>> /\ MinData(type) = 4
    BY <1>2 DEF Fields, Widths, MinData
  <2>2. Laid(<<U16(0), U16(2)>>, <<2, 2>>, 4)
    BY DEF Laid
  <2> QED
    BY <2>1, <2>2
<1>3. CASE type \in {"DMRM", "DMWM"}
  <2>1. /\ Fields(type) = <<I16(0), I16(2)>>
        /\ Widths(type) = <<2, 2>> /\ MinData(type) = 4
    BY <1>3 DEF Fields, Widths, MinData
  <2>2. Laid(<<I16(0), I16(2)>>, <<2, 2>>, 4)
    BY DEF Laid
  <2> QED
    BY <2>1, <2>2
<1>4. CASE type \in {"DMUP", "DMDN"}
  <2>1. /\ Fields(type) = <<I8(0)>>
        /\ Widths(type) = <<1>> /\ MinData(type) = 1
    BY <1>4 DEF Fields, Widths, MinData
  <2>2. Laid(<<I8(0)>>, <<1>>, 1)
    BY DEF Laid
  <2> QED
    BY <2>1, <2>2
<1>5. CASE type = "CINN"
  <2>1. /\ Fields(type) = <<U16(0), U16(2), U32(4), U16(8)>>
        /\ Widths(type) = <<2, 2, 4, 2>> /\ MinData(type) = 10
    BY <1>5 DEF Fields, Widths, MinData
  <2>2. Laid(<<U16(0), U16(2), U32(4), U16(8)>>, <<2, 2, 4, 2>>, 10)
    BY DEF Laid
  <2> QED
    BY <2>1, <2>2
<1>6. CASE type \in {"DKUP", "DKDN"}
  <2>1. /\ Fields(type) = <<U16(0), U16(2), U16(4)>>
        /\ Widths(type) = <<2, 2, 2>> /\ MinData(type) = 6
    BY <1>6 DEF Fields, Widths, MinData
  <2>2. Laid(<<U16(0), U16(2), U16(4)>>, <<2, 2, 2>>, 6)
    BY DEF Laid
  <2> QED
    BY <2>1, <2>2
<1>7. CASE type = "DKRP"
  <2>1. /\ Fields(type) = <<U16(0), U16(2), U16(4), U16(6)>>
        /\ Widths(type) = <<2, 2, 2, 2>> /\ MinData(type) = 8
    BY <1>7 DEF Fields, Widths, MinData
  <2>2. Laid(<<U16(0), U16(2), U16(4), U16(6)>>, <<2, 2, 2, 2>>, 8)
    BY DEF Laid
  <2> QED
    BY <2>1, <2>2
<1>8. CASE type \in {"CCLP", "DCLP"}
  <2>1. /\ Fields(type) = <<U8(0), U32(1)>>
        /\ Widths(type) = <<1, 4>> /\ MinData(type) = 5
    BY <1>8 DEF Fields, Widths, MinData
  <2>2. Laid(<<U8(0), U32(1)>>, <<1, 4>>, 5)
    BY DEF Laid
  <2> QED
    BY <2>1, <2>2
<1>9. CASE type \notin {"DINF", "DMMV", "EICV", "DMRM", "DMWM", "DMUP", "DMDN", "CINN",
                        "DKUP", "DKDN", "DKRP", "CCLP", "DCLP"}
  <2>1. Fields(type) = <<>> /\ Widths(type) = <<>> /\ MinData(type) = 0
    BY <1>9 DEF Fields, Widths, MinData
  <2> QED
    BY <2>1 DEF Laid
<1> QED
  BY <1>1, <1>2, <1>3, <1>4, <1>5, <1>6, <1>7, <1>8, <1>9

(* Taking a number apart and putting it together again. *)
LEMMA ByteBack ==
  ASSUME NEW n \in Int
  PROVE  /\ 0 <= n /\ n < 256 => n % 256 = n
         /\ -128 <= n /\ n < 128 => Signed(n % 256, 128) = n
  BY SMT DEF Signed

IsDivided(n, q, r) ==
    q \in Int /\ r \in 0..255 /\ q = n \div 256 /\ r = n % 256 /\ n = 256 * q + r

LEMMA DivMod256 ==
  ASSUME NEW n \in Int
  PROVE  \E q, r : IsDivided(n, q, r)
<1>1. n \div 256 \in Int /\ n % 256 \in 0..255
  BY SMT
<1>2. PICK q \in Int, r \in 0..255 : q = n \div 256 /\ r = n % 256
  BY <1>1, SMT
<1>3. n = 256 * q + r
  BY <1>2, SMT
<1>4. IsDivided(n, q, r)
  BY <1>2, <1>3 DEF IsDivided
<1> QED
  BY <1>4

LEMMA DivAgain ==
  ASSUME NEW n \in Int
  PROVE  /\ n \div 65536 = (n \div 256) \div 256
         /\ n \div 16777216 = ((n \div 256) \div 256) \div 256
  BY SMT

LEMMA ShortBack ==
  ASSUME NEW n \in Int, NEW b1, NEW b2, b1 = (n \div 256) % 256, b2 = n % 256
  PROVE  /\ 0 <= n /\ n \div 256 < 256 => b1 * 256 + b2 = n
         /\ -32768 <= n /\ n < 32768 => Signed(b1 * 256 + b2, 32768) = n
<1>1. PICK q \in Int, r \in 0..255 : q = n \div 256 /\ r = n % 256 /\ n = 256 * q + r
  BY DivMod256 DEF IsDivided
<1>2. b1 = q % 256 /\ b2 = r
  BY <1>1
<1>3. ASSUME 0 <= n, q < 256 PROVE b1 * 256 + b2 = n
  <2>1. q \in 0..255
    BY <1>1, <1>3, SMT
  <2>2. b1 = q
    BY <1>2, <2>1, SMT
  <2> QED
    BY <1>1, <1>2, <2>1, <2>2, SMT
<1>4. ASSUME -32768 <= n, n < 32768 PROVE Signed(b1 * 256 + b2, 32768) = n
  <2>1. q \in -128..127
    BY <1>1, <1>4, SMT
  <2>2. b1 = IF q >= 0 THEN q ELSE q + 256
    BY <1>2, <2>1, SMT
  <2> QED
    BY <1>1, <1>2, <1>4, <2>1, <2>2, SMT DEF Signed
<1> QED
  BY <1>1, <1>3, <1>4, SMT

LEMMA LongBack ==
  ASSUME NEW n \in Int, 0 <= n, n \div 16777216 < 256, NEW b1, NEW b2, NEW b3, NEW b4,
         b1 = (n \div 16777216) % 256, b2 = (n \div 65536) % 256,
         b3 = (n \div 256) % 256, b4 = n % 256
  PROVE  (b1 * 256 + b2) * 65536 + (b3 * 256 + b4) = n
<1>1. PICK q1 \in Int, r1 \in 0..255 : q1 = n \div 256 /\ r1 = n % 256 /\ n = 256 * q1 + r1
  BY DivMod256 DEF IsDivided
<1>2. PICK q2 \in Int, r2 \in 0..255 : q2 = q1 \div 256 /\ r2 = q1 % 256 /\ q1 = 256 * q2 + r2
  BY DivMod256 DEF IsDivided
<1>3. PICK q3 \in Int, r3 \in 0..255 : q3 = q2 \div 256 /\ r3 = q2 % 256 /\ q2 = 256 * q3 + r3
  BY DivMod256 DEF IsDivided
<1>4. n \div 65536 = q2 /\ n \div 16777216 = q3
  BY <1>1, <1>2, <1>3, DivAgain, SMT
<1>5. q3 \in 0..255
  BY <1>1, <1>2, <1>3, <1>4, SMT
<1>6. b1 = q3 /\ b2 = r3 /\ b3 = r2 /\ b4 = r1
  BY <1>1, <1>2, <1>3, <1>4, <1>5, SMT
<1> QED
  BY <1>1, <1>2, <1>3, <1>5, <1>6, SMT

(* The bytes of a number stand where its field is. *)
Stands(data, f, n) ==
    \A j \in 1..f.width : data[f.at + j] = BigEndian(n, f.width)[j]

(* A field says what was put there, if that fits. *)
LEMMA FieldReadsBack ==
  ASSUME NEW data, NEW f, f.at \in Nat, f.width \in {1, 2, 4},
         f.signed => f.width \in {1, 2},
         NEW n \in Int, Fits(n, f), Stands(data, f, n)
  PROVE  ReadField(f, data) = n
<1>1. CASE f.width = 1
  <2>1. data[f.at + 1] = n % 256
    <3>1. 1 \in 1..f.width
      BY <1>1
    <3>2. BigEndian(n, 1)[1] = n % 256
      BY ByteAt
    <3> QED
      BY <1>1, <3>1, <3>2 DEF Stands
  <2>2. ReadRaw(f, data) = n % 256
    BY <1>1, <2>1 DEF ReadRaw
  <2>3. CASE f.signed
    <3>1. -128 <= n /\ n < 128
      BY <1>1, <2>3, Powers, SMT DEF Fits
    <3>2. Signed(n % 256, 128) = n
      BY <3>1, ByteBack
    <3> QED
      BY <1>1, <2>2, <2>3, <3>2 DEF ReadField
  <2>4. CASE ~f.signed
    <3>1. 0 <= n /\ n < 256
      <4>1. n >= 0 /\ n \div (256 ^ (1 - 1)) < 256
        BY <1>1, <2>4 DEF Fits
      <4>2. 256 ^ (1 - 1) = 1
        BY Powers, SMT
      <4> QED
        BY <4>1, <4>2, SMT
    <3>2. n % 256 = n
      BY <3>1, ByteBack
    <3> QED
      BY <2>2, <2>4, <3>2 DEF ReadField
  <2> QED
    BY <2>3, <2>4
<1>2. CASE f.width = 2
  <2>1. data[f.at + 1] = (n \div 256) % 256 /\ data[f.at + 2] = n % 256
    <3>1. 1 \in 1..f.width /\ 2 \in 1..f.width
      BY <1>2
    <3>2. BigEndian(n, 2)[1] = (n \div 256) % 256 /\ BigEndian(n, 2)[2] = n % 256
      BY ShortAt
    <3> QED
      BY <1>2, <3>1, <3>2 DEF Stands
  <2> DEFINE b1 == data[f.at + 1]
             b2 == data[f.at + 2]
  <2>2. ReadRaw(f, data) = b1 * 256 + b2
    <3>1. f.at + 1 + 1 = f.at + 2
      OBVIOUS
    <3> QED
      BY <1>2, <3>1 DEF ReadRaw, ReadU16
  <2> HIDE DEF b1, b2
  <2>3. b1 = (n \div 256) % 256 /\ b2 = n % 256
    BY <2>1 DEF b1, b2
  <2>4. CASE f.signed
    <3>1. -32768 <= n /\ n < 32768
      BY <1>2, <2>4, Powers, SMT DEF Fits
    <3>2. Signed(b1 * 256 + b2, 32768) = n
      BY <2>3, <3>1, ShortBack, SMT
    <3> QED
      BY <1>2, <2>2, <2>4, <3>2 DEF ReadField
  <2>5. CASE ~f.signed
    <3>1. 0 <= n /\ n \div 256 < 256
      <4>1. n >= 0 /\ n \div (256 ^ (2 - 1)) < 256
        BY <1>2, <2>5 DEF Fits
      <4>2. 256 ^ (2 - 1) = 256
        BY Powers, SMT
      <4> QED
        BY <4>1, <4>2, SMT
    <3>2. b1 * 256 + b2 = n
      BY <2>3, <3>1, ShortBack, SMT
    <3> QED
      BY <2>2, <2>5, <3>2 DEF ReadField
  <2> QED
    BY <2>4, <2>5
<1>3. CASE f.width = 4
  <2>0. ~f.signed
    BY <1>3
  <2>1. /\ data[f.at + 1] = (n \div 16777216) % 256 /\ data[f.at + 2] = (n \div 65536) % 256
        /\ data[f.at + 3] = (n \div 256) % 256 /\ data[f.at + 4] = n % 256
    <3>1. \A j \in {1, 2, 3, 4} : j \in 1..f.width
      BY <1>3
    <3>2. \A j \in {1, 2, 3, 4} : data[f.at + j] = BigEndian(n, 4)[j]
      BY <1>3, <3>1 DEF Stands
    <3> QED
      BY <3>2, LongAt, SMT
  <2> DEFINE b1 == data[f.at + 1]
             b2 == data[f.at + 2]
             b3 == data[f.at + 3]
             b4 == data[f.at + 4]
  <2>2. ReadRaw(f, data) = (b1 * 256 + b2) * 65536 + (b3 * 256 + b4)
    <3>1. f.at + 1 + 1 = f.at + 2 /\ f.at + 1 + 2 = f.at + 3 /\ f.at + 1 + 2 + 1 = f.at + 4
      OBVIOUS
    <3>2. ReadRaw(f, data) = ReadU32(data, f.at + 1)
      BY <1>3 DEF ReadRaw
    <3>3. ReadU32(data, f.at + 1) = ReadU16(data, f.at + 1) * 65536 + ReadU16(data, f.at + 3)
      BY <3>1, SMT DEF ReadU32
    <3>4. ReadU16(data, f.at + 1) = b1 * 256 + b2 /\ ReadU16(data, f.at + 3) = b3 * 256 + b4
      <4>1. f.at + 3 + 1 = f.at + 4
        OBVIOUS
      <4> QED
        BY <3>1, <4>1 DEF ReadU16
    <3> HIDE DEF b1, b2, b3, b4
    <3> QED
      BY <3>2, <3>3, <3>4, SMT
  <2> HIDE DEF b1, b2, b3, b4
  <2>3. /\ b1 = (n \div 16777216) % 256 /\ b2 = (n \div 65536) % 256
        /\ b3 = (n \div 256) % 256 /\ b4 = n % 256
    BY <2>1, SMT DEF b1, b2, b3, b4
  <2>4. 0 <= n /\ n \div 16777216 < 256
    <3>1. n >= 0 /\ n \div (256 ^ (4 - 1)) < 256
      BY <1>3, <2>0 DEF Fits
    <3>2. 256 ^ (4 - 1) = 16777216
      BY Powers, SMT
    <3> QED
      BY <3>1, <3>2, SMT
  <2>5. (b1 * 256 + b2) * 65536 + (b3 * 256 + b4) = n
    BY <2>3, <2>4, LongBack, SMT
  <2> QED
    BY <2>0, <2>2, <2>5, SMT DEF ReadField
<1> QED
  BY <1>1, <1>2, <1>3

(* The letters of a code give its type back. *)
LEMMA CodesGiveTypes ==
  ASSUME NEW type \in Types \cup {"UNKNOWN"}
  PROVE  CodeToType(TypeToCode(type)) = type /\ TypeToCode(type) \in Seq(Byte)
         /\ Len(TypeToCode(type)) = 4
<1>1. Len(TypeNames) = 24
  BY DEF TypeNames
<1>2. \A i, k \in Int : Letters(i) = Letters(k) => i = k
  BY DEF Letters
<1>3. CASE type \in Types
  <2> DEFINE i == CHOOSE k \in 1..Len(TypeNames) : TypeNames[k] = type
  <2>1. i \in 1..Len(TypeNames) /\ TypeNames[i] = type
    BY <1>3 DEF Types
  <2> HIDE DEF i
  <2>2. TypeToCode(type) = Letters(i)
    BY <1>3 DEF TypeToCode, i
  <2>3. Letters(i)[1] = i
    BY DEF Letters
  <2>4. CodeToType(Letters(i)) = TypeNames[i]
    BY <2>1, <2>3 DEF CodeToType
  <2>5. Letters(i) \in Seq(Byte) /\ Len(Letters(i)) = 4
    BY <1>1, <2>1 DEF Letters, Byte
  <2> QED
    BY <2>1, <2>2, <2>4, <2>5
<1>4. CASE type \notin Types
  <2>1. TypeToCode(type) = Letters(0) /\ type = "UNKNOWN"
    BY <1>4 DEF TypeToCode
  <2>2. \A i \in 1..Len(TypeNames) : Letters(0) # Letters(i)
    BY <1>1, <1>2
  <2>3. CodeToType(Letters(0)) = "UNKNOWN"
    BY <2>2 DEF CodeToType
  <2>4. Letters(0) \in Seq(Byte) /\ Len(Letters(0)) = 4
    BY DEF Letters, Byte
  <2> QED
    BY <2>1, <2>3, <2>4
<1> QED
  BY <1>3, <1>4

(* The arguments of a packet, in bytes. *)
Pieces(args, type) == [i \in DOMAIN args |-> BigEndian(args[i], Widths(type)[i])]

LEMMA PiecesType ==
  ASSUME NEW type, NEW args \in Seq(Int), Len(args) <= Len(Widths(type))
  PROVE  /\ Pieces(args, type) \in Seq(Seq(Byte)) /\ Len(Pieces(args, type)) = Len(args)
         /\ Len(args) \in Nat
         /\ \A i \in 1..Len(args) :
               /\ Widths(type)[i] = Fields(type)[i].width
               /\ Pieces(args, type)[i] = BigEndian(args[i], Fields(type)[i].width)
               /\ Len(Pieces(args, type)[i]) = Fields(type)[i].width
<1>1. Laid(Fields(type), Widths(type), MinData(type))
  BY Layout
<1>2. Len(args) \in Nat /\ DOMAIN args = 1..Len(args) /\ \A i \in 1..Len(args) : args[i] \in Int
  BY LenProperties, ElementOfSeq
<1>3. \A i \in 1..Len(args) :
          Widths(type)[i] \in {1, 2, 4} /\ Widths(type)[i] = Fields(type)[i].width
  <2> DEFINE fields == Fields(type)
             widths == Widths(type)
  <2>0. Laid(fields, widths, MinData(type)) /\ Len(args) <= Len(widths)
    BY <1>1
  <2> HIDE DEF fields, widths
  <2>1. /\ Len(fields) = Len(widths) /\ Len(fields) \in Nat
        /\ \A i \in 1..Len(fields) : /\ fields[i].width \in {1, 2, 4}
                                     /\ widths[i] = fields[i].width
    BY <2>0 DEF Laid
  <2>2. \A i \in 1..Len(args) : i \in 1..Len(fields)
    BY <1>2, <2>0, <2>1
  <2>3. \A i \in 1..Len(args) : widths[i] \in {1, 2, 4} /\ widths[i] = fields[i].width
    BY <2>1, <2>2
  <2> QED
    BY <2>3 DEF fields, widths
<1>4. \A i \in 1..Len(args) :
          /\ BigEndian(args[i], Widths(type)[i]) \in Seq(Byte)
          /\ Len(BigEndian(args[i], Widths(type)[i])) = Widths(type)[i]
  BY <1>2, <1>3, BigEndianType
<1>5. \A i \in 1..Len(args) : Pieces(args, type)[i] = BigEndian(args[i], Widths(type)[i])
  BY <1>2 DEF Pieces
<1>6. Pieces(args, type) \in [1..Len(args) -> Seq(Byte)]
  BY <1>2, <1>4 DEF Pieces
<1>7. Pieces(args, type) \in Seq(Seq(Byte)) /\ Len(Pieces(args, type)) = Len(args)
  BY <1>2, <1>6, IsASeq, LenProperties
<1> QED
  BY <1>2, <1>3, <1>4, <1>5, <1>7

(* Every argument stands where its field is, and they take what they       *)
(* should.                                                                 *)
LEMMA ArgumentsStand ==
  ASSUME NEW type, NEW args \in Seq(Int), Len(args) <= Len(Widths(type))
  PROVE  /\ FlattenSeq(Pieces(args, type)) \in Seq(Byte)
         /\ Len(args) = Len(Widths(type)) => Len(FlattenSeq(Pieces(args, type))) = MinData(type)
         /\ \A i \in 1..Len(args) :
               /\ Fields(type)[i].at + Fields(type)[i].width <= Len(FlattenSeq(Pieces(args, type)))
               /\ Stands(FlattenSeq(Pieces(args, type)), Fields(type)[i], args[i])
<1> DEFINE fields == Fields(type)
           seqs == Pieces(args, type)
           End(i) == IF i = 0 THEN 0 ELSE fields[i].at + fields[i].width
           at == [i \in 1..(Len(args) + 1) |-> End(i - 1)]
<1>1. Laid(fields, Widths(type), MinData(type))
  BY Layout
<1>2. /\ seqs \in Seq(Seq(Byte)) /\ Len(seqs) = Len(args) /\ Len(args) \in Nat
      /\ \A i \in 1..Len(args) :
            /\ seqs[i] = BigEndian(args[i], fields[i].width) /\ Len(seqs[i]) = fields[i].width
  BY PiecesType
<1> HIDE DEF seqs, fields
<1>3. /\ Len(fields) = Len(Widths(type)) /\ Len(args) <= Len(fields) /\ Len(fields) \in Nat
      /\ \A i \in 1..Len(fields) :
            /\ fields[i].at \in Nat /\ fields[i].width \in {1, 2, 4}
            /\ i = 1 => fields[i].at = 0
            /\ i < Len(fields) => fields[i + 1].at = fields[i].at + fields[i].width
            /\ i = Len(fields) => MinData(type) = fields[i].at + fields[i].width
      /\ Len(fields) = 0 => MinData(type) = 0
  BY <1>1 DEF Laid
<1>4. \A i \in 1..Len(args) : End(i - 1) = fields[i].at
  <2> TAKE i \in 1..Len(args)
  <2>1. i \in 1..Len(fields)
    BY <1>2, <1>3
  <2>2. CASE i = 1
    BY <1>3, <2>1, <2>2
  <2>3. CASE i # 1
    <3>1. PICK k \in 1..Len(fields) : k = i - 1 /\ k < Len(fields) /\ k # 0 /\ k + 1 = i
      BY <2>1, <2>3, <1>3
    <3>2. fields[i].at = fields[k].at + fields[k].width
      BY <1>3, <3>1
    <3> QED
      BY <3>1, <3>2
  <2> QED
    BY <2>2, <2>3
<1> HIDE DEF End
<1>5. \A i \in 1..Len(args) : at[i] = fields[i].at
  <2> TAKE i \in 1..Len(args)
  <2>1. i \in 1..(Len(args) + 1)
    BY <1>2
  <2> QED
    BY <1>4, <2>1
<1>6. \A i \in 1..Len(args) : at[i + 1] = fields[i].at + fields[i].width
  <2> TAKE i \in 1..Len(args)
  <2>1. i + 1 \in 1..(Len(args) + 1) /\ i + 1 - 1 = i /\ i # 0
    BY <1>2
  <2>2. at[i + 1] = End(i)
    BY <2>1
  <2> QED
    BY <2>1, <2>2 DEF End
<1>7. at[1] = 0
  <2>1. 1 \in 1..(Len(args) + 1) /\ 1 - 1 = 0
    BY <1>2
  <2>2. at[1] = End(0)
    BY <2>1
  <2> QED
    BY <2>2 DEF End
<1> HIDE DEF at
<1>8. Offsets(at, seqs)
  <2>1. \A i \in 1..Len(seqs) : at[i + 1] = at[i] + Len(seqs[i])
    BY <1>2, <1>5, <1>6
  <2> QED
    BY <1>7, <2>1 DEF Offsets
<1>9. /\ Len(FlattenSeq(seqs)) = at[Len(seqs) + 1]
      /\ \A i \in 1..Len(seqs) :
            /\ at[i] \in Nat /\ at[i] + Len(seqs[i]) <= Len(FlattenSeq(seqs))
            /\ \A j \in 1..Len(seqs[i]) : FlattenSeq(seqs)[at[i] + j] = seqs[i][j]
  BY <1>2, <1>8, FlattenAt
<1>10. FlattenSeq(seqs) \in Seq(Byte)
  BY <1>2, FlattenType
<1>11. ASSUME Len(args) = Len(Widths(type)) PROVE Len(FlattenSeq(seqs)) = MinData(type)
  <2>1. CASE Len(args) = 0
    <3>1. at[Len(seqs) + 1] = 0
      BY <1>2, <1>7, <2>1
    <3> QED
      BY <1>3, <1>9, <1>11, <2>1, <3>1
  <2>2. CASE Len(args) # 0
    <3>1. PICK i \in 1..Len(args) : i = Len(args)
      BY <1>2, <2>2
    <3>2. i \in 1..Len(fields) /\ i = Len(fields)
      BY <1>3, <1>11, <3>1
    <3>3. at[i + 1] = MinData(type)
      BY <1>3, <1>6, <3>2
    <3> QED
      BY <1>2, <1>9, <3>1, <3>3
  <2> QED
    BY <2>1, <2>2
<1>12. ASSUME NEW i \in 1..Len(args)
       PROVE  /\ fields[i].at + fields[i].width <= Len(FlattenSeq(seqs))
              /\ Stands(FlattenSeq(seqs), fields[i], args[i])
  <2>1. at[i] = fields[i].at /\ i \in 1..Len(seqs)
    BY <1>2, <1>5
  <2>2. Len(seqs[i]) = fields[i].width /\ seqs[i] = BigEndian(args[i], fields[i].width)
    BY <1>2
  <2> QED
    BY <1>9, <2>1, <2>2 DEF Stands
<1> QED
  BY <1>10, <1>11, <1>12 DEF fields, seqs

(* Concatenation, part by part. *)
LEMMA Halves ==
  ASSUME NEW A, NEW s \in Seq(A), NEW t \in Seq(A)
  PROVE  /\ s \o t \in Seq(A) /\ Len(s \o t) = Len(s) + Len(t)
         /\ Len(s) \in Nat /\ Len(t) \in Nat
         /\ \A k \in 1..Len(s) : (s \o t)[k] = s[k]
         /\ \A k \in 1..Len(t) : (s \o t)[Len(s) + k] = t[k]
<1>1. Len(s) \in Nat /\ Len(t) \in Nat
  BY LenProperties
<1>2. /\ s \o t \in Seq(A) /\ Len(s \o t) = Len(s) + Len(t)
      /\ \A k \in 1..Len(s) + Len(t) :
            (s \o t)[k] = IF k <= Len(s) THEN s[k] ELSE t[k - Len(s)]
  BY ConcatProperties
<1>3. \A k \in 1..Len(s) : (s \o t)[k] = s[k]
  <2>1. \A k \in 1..Len(s) : k \in 1..Len(s) + Len(t) /\ k <= Len(s)
    BY <1>1
  <2> QED
    BY <1>2, <2>1
<1>4. \A k \in 1..Len(t) : (s \o t)[Len(s) + k] = t[k]
  <2>1. \A k \in 1..Len(t) : /\ Len(s) + k \in 1..Len(s) + Len(t)
                             /\ ~(Len(s) + k <= Len(s)) /\ Len(s) + k - Len(s) = k
    BY <1>1
  <2> QED
    BY <1>2, <2>1
<1> QED
  BY <1>1, <1>2, <1>3, <1>4

(* A packet as somebody may put it on the wire. *)
Sendable(pkt) ==
    /\ pkt.type \in Types \cup {"UNKNOWN"}
    /\ pkt.args \in Seq(Int) /\ Len(pkt.args) <= Len(Widths(pkt.type))
    /\ pkt.extra \in Seq(Byte)

LEMMA DataShape ==
  ASSUME NEW pkt, Sendable(pkt)
  PROVE  /\ Data(pkt) \in Seq(Byte) /\ Len(Data(pkt)) \in Nat
         /\ Len(pkt.args) = Len(Widths(pkt.type)) =>
                Len(Data(pkt)) = MinData(pkt.type) + Len(pkt.extra)
         /\ \A i \in 1..Len(pkt.args) :
               /\ Fields(pkt.type)[i].at + Fields(pkt.type)[i].width <= Len(Data(pkt))
               /\ Stands(Data(pkt), Fields(pkt.type)[i], pkt.args[i])
<1> DEFINE flat == FlattenSeq(Pieces(pkt.args, pkt.type))
           fields == Fields(pkt.type)
<1>1. /\ flat \in Seq(Byte)
      /\ Len(pkt.args) = Len(Widths(pkt.type)) => Len(flat) = MinData(pkt.type)
      /\ \A i \in 1..Len(pkt.args) : /\ fields[i].at + fields[i].width <= Len(flat)
                                     /\ Stands(flat, fields[i], pkt.args[i])
  BY ArgumentsStand DEF Sendable
<1>2. Data(pkt) = flat \o pkt.extra
  BY DEF Data, Pieces
<1>3. /\ \A i \in 1..Len(fields) : fields[i].at \in Nat /\ fields[i].width \in Nat
      /\ Len(pkt.args) <= Len(fields) /\ Len(pkt.args) \in Nat /\ Len(fields) \in Nat
  <2>1. Laid(Fields(pkt.type), Widths(pkt.type), MinData(pkt.type))
    BY Layout
  <2>2. Len(pkt.args) \in Nat
    BY LenProperties DEF Sendable
  <2> HIDE DEF fields
  <2>3. Laid(fields, Widths(pkt.type), MinData(pkt.type))
    BY <2>1 DEF fields
  <2>4. Len(fields) = Len(Widths(pkt.type)) /\ Len(fields) \in Nat
        /\ \A i \in 1..Len(fields) : fields[i].at \in Nat /\ fields[i].width \in {1, 2, 4}
    BY <2>3 DEF Laid
  <2> QED
    BY <2>2, <2>4 DEF Sendable
<1> HIDE DEF flat, fields
<1>4. /\ Data(pkt) \in Seq(Byte) /\ Len(Data(pkt)) = Len(flat) + Len(pkt.extra)
      /\ Len(flat) \in Nat /\ Len(pkt.extra) \in Nat
      /\ \A k \in 1..Len(flat) : Data(pkt)[k] = flat[k]
  <2>1. pkt.extra \in Seq(Byte)
    BY DEF Sendable
  <2> QED
    BY <1>1, <1>2, <2>1, Halves
<1>5. ASSUME NEW i \in 1..Len(pkt.args)
      PROVE  /\ fields[i].at + fields[i].width <= Len(Data(pkt))
             /\ Stands(Data(pkt), fields[i], pkt.args[i])
  <2>1. fields[i].at \in Nat /\ fields[i].width \in Nat
    BY <1>3
  <2>2. fields[i].at + fields[i].width <= Len(flat) /\ Stands(flat, fields[i], pkt.args[i])
    BY <1>1
  <2>3. \A j \in 1..fields[i].width : fields[i].at + j \in 1..Len(flat)
    BY <1>4, <2>1, <2>2, SMTT(30)
  <2>4. ASSUME NEW j \in 1..fields[i].width
        PROVE  Data(pkt)[fields[i].at + j] = BigEndian(pkt.args[i], fields[i].width)[j]
    <3>1. flat[fields[i].at + j] = BigEndian(pkt.args[i], fields[i].width)[j]
      BY <2>2 DEF Stands
    <3> QED
      BY <1>4, <2>3, <3>1
  <2>5. fields[i].at + fields[i].width <= Len(Data(pkt))
    <3>1. \A x, y, z \in Nat : x <= y => x <= y + z
      OBVIOUS
    <3>2. fields[i].at + fields[i].width \in Nat
      BY <2>1
    <3> QED
      BY <1>4, <2>2, <3>1, <3>2
  <2> QED
    BY <2>4, <2>5 DEF Stands
<1>6. Len(pkt.args) = Len(Widths(pkt.type)) => Len(Data(pkt)) = MinData(pkt.type) + Len(pkt.extra)
  BY <1>1, <1>4
<1> QED
  BY <1>4, <1>5, <1>6 DEF fields

(* On the wire: its length, its code and its data. *)
LEMMA WireShape ==
  ASSUME NEW pkt, Sendable(pkt)
  PROVE  /\ Wire(pkt) \in Seq(Byte) /\ Len(Wire(pkt)) = HeaderLength + Len(Data(pkt))
         /\ \A i \in 1..4 : Wire(pkt)[i] = BigEndian(4 + Len(Data(pkt)), 4)[i]
         /\ \A i \in 1..4 : Wire(pkt)[4 + i] = TypeToCode(pkt.type)[i]
         /\ \A k \in 1..Len(Data(pkt)) : Wire(pkt)[HeaderLength + k] = Data(pkt)[k]
<1>1. Data(pkt) \in Seq(Byte) /\ Len(Data(pkt)) \in Nat
  BY DataShape
<1>2. TypeToCode(pkt.type) \in Seq(Byte) /\ Len(TypeToCode(pkt.type)) = 4
  BY CodesGiveTypes DEF Sendable
<1>3. /\ BigEndian(4 + Len(Data(pkt)), 4) \in Seq(Byte)
      /\ Len(BigEndian(4 + Len(Data(pkt)), 4)) = 4
  BY <1>1, BigEndianType
<1>4. PICK a \in Seq(Byte), b \in Seq(Byte), c \in Seq(Byte) :
          a = BigEndian(4 + Len(Data(pkt)), 4) /\ b = TypeToCode(pkt.type) /\ c = Data(pkt)
  BY <1>1, <1>2, <1>3
<1>5. /\ a \o b \in Seq(Byte) /\ Len(a \o b) = 8
      /\ \A k \in 1..4 : (a \o b)[k] = a[k] /\ (a \o b)[4 + k] = b[k]
  <2>1. Len(a) = 4 /\ Len(b) = 4 /\ 4 + 4 = 8
    BY <1>2, <1>3, <1>4
  <2>2. /\ a \o b \in Seq(Byte) /\ Len(a \o b) = Len(a) + Len(b)
        /\ \A k \in 1..Len(a) : (a \o b)[k] = a[k]
        /\ \A k \in 1..Len(b) : (a \o b)[Len(a) + k] = b[k]
    BY Halves
  <2> QED
    BY <2>1, <2>2
<1>6. PICK d \in Seq(Byte) : d = a \o b
  BY <1>5
<1>7. /\ d \o c \in Seq(Byte) /\ Len(d \o c) = 8 + Len(c)
      /\ \A k \in 1..8 : (d \o c)[k] = d[k]
      /\ \A k \in 1..Len(c) : (d \o c)[8 + k] = c[k]
  <2>1. Len(d) = 8
    BY <1>5, <1>6
  <2>2. /\ d \o c \in Seq(Byte) /\ Len(d \o c) = Len(d) + Len(c)
        /\ \A k \in 1..Len(d) : (d \o c)[k] = d[k]
        /\ \A k \in 1..Len(c) : (d \o c)[Len(d) + k] = c[k]
    BY Halves
  <2> QED
    BY <2>1, <2>2
<1>8. \A i \in 1..4 : (d \o c)[i] = a[i] /\ (d \o c)[4 + i] = b[i]
  <2>1. \A i \in 1..4 : i \in 1..8 /\ 4 + i \in 1..8
    OBVIOUS
  <2> QED
    BY <1>5, <1>6, <1>7, <2>1
<1>10. Wire(pkt) = d \o c
  BY <1>4, <1>6 DEF Wire
<1>11. HeaderLength = 8
  BY DEF HeaderLength, CodeLength
<1> QED
  BY <1>4, <1>7, <1>8, <1>10, <1>11

(* The length in front of it is read back. *)
LEMMA LengthReadsBack ==
  ASSUME NEW n \in Nat, n < TooLong, NEW buf, \A i \in 1..4 : buf[i] = BigEndian(n, 4)[i]
  PROVE  ReadU32(buf, 1) = n /\ Declared(buf) = n
<1>1. /\ BigEndian(n, 4)[1] = (n \div 16777216) % 256
      /\ BigEndian(n, 4)[2] = (n \div 65536) % 256
      /\ BigEndian(n, 4)[3] = (n \div 256) % 256
      /\ BigEndian(n, 4)[4] = n % 256
  BY LongAt, SMT
<1>2. /\ buf[1] = BigEndian(n, 4)[1] /\ buf[2] = BigEndian(n, 4)[2]
      /\ buf[3] = BigEndian(n, 4)[3] /\ buf[4] = BigEndian(n, 4)[4]
  OBVIOUS
<1>3. n < 16777216
  BY SMT DEF TooLong
<1>4. n \div 16777216 = 0
  BY <1>3, SMT
<1>5. buf[1] = 0
  BY <1>1, <1>2, <1>4, SMT
<1>6. PICK b1, b2, b3, b4 : b1 = buf[1] /\ b2 = buf[2] /\ b3 = buf[3] /\ b4 = buf[4]
  OBVIOUS
<1>7. (b1 * 256 + b2) * 65536 + (b3 * 256 + b4) = n
  <2>1. /\ b1 = (n \div 16777216) % 256 /\ b2 = (n \div 65536) % 256
        /\ b3 = (n \div 256) % 256 /\ b4 = n % 256
    BY <1>1, <1>2, <1>6, SMT
  <2>2. n \div 16777216 < 256
    BY <1>4, SMT
  <2> QED
    BY <2>1, <2>2, LongBack, SMT
<1>8. ReadU32(buf, 1) = (buf[1] * 256 + buf[2]) * 65536 + (buf[3] * 256 + buf[4])
  <2>1. 1 + 1 = 2 /\ 1 + 2 = 3 /\ 3 + 1 = 4
    OBVIOUS
  <2> QED
    BY <2>1, SMT DEF ReadU32, ReadU16
<1>9. ReadU32(buf, 1) = n
  BY <1>6, <1>7, <1>8, SMT
<1> QED
  BY <1>5, <1>9 DEF Declared

LEMMA FirstOfLong ==
  ASSUME NEW n \in Int
  PROVE  BigEndian(n, 4)[1] = (n \div 16777216) % 256
<1>1. 4 - 1 = 3 /\ 1 \in 1..4
  OBVIOUS
<1> QED
  BY <1>1, Powers, SMT DEF BigEndian

(* A length that needs the fourth byte. *)
LEMMA LongLength ==
  ASSUME NEW n \in Nat, n >= TooLong, n < TooLong + 4,
         NEW buf, buf[1] = BigEndian(n, 4)[1]
  PROVE  Declared(buf) = TooLong
<1>1. BigEndian(n, 4)[1] = (n \div 16777216) % 256
  BY FirstOfLong, SMT
<1>2. n >= 16777216 /\ n < 16777216 + 4
  BY SMT DEF TooLong
<1>3. n \div 16777216 = 1
  BY <1>2, SMT
<1>4. buf[1] = 1
  BY <1>1, <1>3, SMT
<1> QED
  BY <1>4 DEF Declared

(* A packet that keeps the protocol. *)
WellFormed(pkt) ==
    /\ Sendable(pkt)
    /\ \A i \in DOMAIN pkt.args : Fits(pkt.args[i], Fields(pkt.type)[i])
    /\ Len(pkt.args) < Len(Widths(pkt.type)) => Len(Data(pkt)) < MinData(pkt.type)

(* What packet_parse asks for is what the arguments take. *)
LEMMA CompleteLength ==
  ASSUME NEW type \in Types \cup {"UNKNOWN"}
  PROVE  Len(Complete(type)) = MinData(type)
<1> DEFINE zeros == [i \in 1..Len(Widths(type)) |-> 0]
           pkt == [type |-> type, args |-> zeros, extra |-> <<>>]
<1>1. Len(Widths(type)) \in Nat
  BY Layout DEF Laid
<1>2. zeros \in [1..Len(Widths(type)) -> Int]
  OBVIOUS
<1>3. zeros \in Seq(Int) /\ Len(zeros) = Len(Widths(type))
  BY <1>1, <1>2, IsASeq, LenProperties
<1>4. <<>> \in Seq(Byte) /\ Len(<<>>) = 0
  BY EmptySeq
<1> HIDE DEF zeros
<1>5. pkt.type = type /\ pkt.args = zeros /\ pkt.extra = <<>>
  OBVIOUS
<1>6. Complete(type) = Data(pkt)
  BY DEF Complete, zeros
<1> HIDE DEF pkt
<1>7. Sendable(pkt)
  BY <1>1, <1>3, <1>4, <1>5 DEF Sendable
<1>8. Len(Data(pkt)) = MinData(type) + 0
  BY <1>3, <1>4, <1>5, <1>7, DataShape
<1>9. MinData(type) \in Nat
  BY DEF MinData
<1> QED
  BY <1>6, <1>8, <1>9

LEMMA ServersPackets ==
  ASSUME NEW pkt \in ServerPackets
  PROVE  WellFormed(pkt) /\ Len(Data(pkt)) < TooLong
<1>1. /\ Sendable(pkt) /\ Len(Data(pkt)) < TooLong
      /\ \A i \in DOMAIN pkt.args : Fits(pkt.args[i], Fields(pkt.type)[i])
      /\ Len(pkt.args) < Len(Widths(pkt.type)) => Len(Data(pkt)) < Len(Complete(pkt.type))
  BY PacketAssumption DEF Sendable
<1>2. Len(Complete(pkt.type)) = MinData(pkt.type)
  BY <1>1, CompleteLength DEF Sendable
<1> QED
  BY <1>1, <1>2 DEF WellFormed

(* What the buffer holds of a packet. *)
Holds(buf, pkt) ==
    /\ \A i \in 1..4 : buf[i] = BigEndian(4 + Len(Data(pkt)), 4)[i]
    /\ \A i \in 1..4 : buf[4 + i] = TypeToCode(pkt.type)[i]
    /\ \A k \in 1..Len(Data(pkt)) : buf[HeaderLength + k] = Data(pkt)[k]

LEMMA BufferHolds ==
  ASSUME NEW pkt, Sendable(pkt), NEW buf,
         \A k \in 1..Len(Wire(pkt)) : buf[k] = Wire(pkt)[k]
  PROVE  Holds(buf, pkt)
<1>1. /\ Len(Wire(pkt)) = 8 + Len(Data(pkt)) /\ Len(Data(pkt)) \in Nat
      /\ \A i \in 1..4 : Wire(pkt)[i] = BigEndian(4 + Len(Data(pkt)), 4)[i]
      /\ \A i \in 1..4 : Wire(pkt)[4 + i] = TypeToCode(pkt.type)[i]
      /\ \A k \in 1..Len(Data(pkt)) : Wire(pkt)[8 + k] = Data(pkt)[k]
  BY WireShape, DataShape DEF HeaderLength, CodeLength
<1>2. \A i \in 1..4 : i \in 1..Len(Wire(pkt)) /\ 4 + i \in 1..Len(Wire(pkt))
  BY <1>1
<1>3. \A k \in 1..Len(Data(pkt)) : 8 + k \in 1..Len(Wire(pkt))
  BY <1>1
<1>4. HeaderLength = 8
  BY DEF HeaderLength, CodeLength
<1> QED
  BY <1>1, <1>2, <1>3, <1>4 DEF Holds

(* packet_parse of a buffer that holds a packet, and perhaps more behind   *)
(* it, gives what was meant.                                               *)
LEMMA ParseGivesWhatWasMeant ==
  ASSUME NEW pkt, WellFormed(pkt), NEW buf \in [1..BufferSize -> Byte],
         NEW len \in 0..BufferSize, len = HeaderLength + Len(Data(pkt)), Holds(buf, pkt)
  PROVE  Parse(buf, len) = Meant(pkt)
<1>1. BufferSize \in Nat /\ BufferSize < TooLong
  BY BufferAssumption
<1>2. Len(Data(pkt)) \in Nat /\ Len(Data(pkt)) + 8 <= BufferSize
  BY <1>1, DataShape DEF WellFormed, HeaderLength, CodeLength
<1>3. ReadU32(buf, 1) = 4 + Len(Data(pkt))
  <2>1. PICK n \in Nat : n = 4 + Len(Data(pkt)) /\ n < TooLong
    BY <1>1, <1>2, SMT DEF TooLong
  <2>2. \A i \in 1..4 : buf[i] = BigEndian(n, 4)[i]
    BY <2>1 DEF Holds
  <2> QED
    BY <2>1, <2>2, LengthReadsBack
<1>4. DataOf(ReadU32(buf, 1)) = Len(Data(pkt))
  BY <1>2, <1>3 DEF DataOf, CodeLength
<1>5. buf \in Seq(Byte) /\ Len(buf) = BufferSize
  BY <1>1
<1>6. CodeToType(SubSeq(buf, 5, HeaderLength)) = pkt.type
  <2>1. /\ CodeToType(TypeToCode(pkt.type)) = pkt.type
        /\ TypeToCode(pkt.type) \in Seq(Byte) /\ Len(TypeToCode(pkt.type)) = 4
    BY CodesGiveTypes DEF WellFormed, Sendable
  <2>2. \A i \in 5..8 : buf[i] \in Byte
    BY <1>1, <1>2
  <2>3. /\ SubSeq(buf, 5, 8) \in Seq(Byte) /\ Len(SubSeq(buf, 5, 8)) = 4
        /\ \A i \in 1..4 : SubSeq(buf, 5, 8)[i] = buf[5 + i - 1]
    BY <2>2, SubSeqProperties
  <2>4. \A i \in 1..4 : 5 + i - 1 = 4 + i
    OBVIOUS
  <2>5. \A i \in 1..4 : SubSeq(buf, 5, 8)[i] = TypeToCode(pkt.type)[i]
    BY <2>3, <2>4 DEF Holds
  <2>6. SubSeq(buf, 5, 8) = TypeToCode(pkt.type)
    BY <2>1, <2>3, <2>5, SeqEqual
  <2>7. HeaderLength = 8
    BY DEF HeaderLength, CodeLength
  <2> QED
    BY <2>1, <2>6, <2>7
<1> DEFINE data == SubSeq(buf, HeaderLength + 1, Len(buf))
           fields == IF pkt.type = "CCLP" THEN <<>> ELSE Fields(pkt.type)
<1>7. Parse(buf, len) =
          IF Len(Data(pkt)) < MinData(pkt.type) THEN Refused
          ELSE [type |-> pkt.type, args |-> [i \in DOMAIN fields |-> ReadField(fields[i], data)]]
  <2>1. ~(len < HeaderLength)
    BY <1>2 DEF HeaderLength, CodeLength
  <2> QED
    BY <1>4, <1>6, <2>1 DEF Parse
<1>8. \A k \in 1..Len(Data(pkt)) : data[k] = Data(pkt)[k]
  <2>1. HeaderLength = 8
    BY DEF HeaderLength, CodeLength
  <2>2. \A i \in 9..BufferSize : buf[i] \in Byte
    BY <1>1
  <2>3. \A i \in 1..(BufferSize - 9 + 1) : SubSeq(buf, 9, BufferSize)[i] = buf[9 + i - 1]
    BY <1>1, <2>2, SubSeqProperties
  <2>4. \A k \in 1..Len(Data(pkt)) : k \in 1..(BufferSize - 9 + 1) /\ 9 + k - 1 = 8 + k
    BY <1>1, <1>2
  <2>5. data = SubSeq(buf, 9, BufferSize)
    BY <1>5, <2>1
  <2> HIDE DEF data
  <2> QED
    BY <2>1, <2>3, <2>4, <2>5 DEF Holds
<1> HIDE DEF data
<1>9. /\ Len(Fields(pkt.type)) = Len(Widths(pkt.type)) /\ Len(Fields(pkt.type)) \in Nat
      /\ DOMAIN Fields(pkt.type) = 1..Len(Fields(pkt.type))
      /\ \A i \in 1..Len(Fields(pkt.type)) :
            /\ Fields(pkt.type)[i].at \in Nat /\ Fields(pkt.type)[i].width \in {1, 2, 4}
            /\ Fields(pkt.type)[i].signed => Fields(pkt.type)[i].width \in {1, 2}
  <2> DEFINE f == Fields(pkt.type)
  <2>1. Laid(f, Widths(pkt.type), MinData(pkt.type))
    BY Layout
  <2> HIDE DEF f
  <2>2. /\ Len(f) = Len(Widths(pkt.type)) /\ Len(f) \in Nat /\ DOMAIN f = 1..Len(f)
        /\ \A i \in 1..Len(f) : /\ f[i].at \in Nat /\ f[i].width \in {1, 2, 4}
                                /\ f[i].signed => f[i].width \in {1, 2}
    BY <2>1 DEF Laid
  <2> QED
    BY <2>2 DEF f
<1>10. CASE Len(pkt.args) < Len(Widths(pkt.type))
  <2>1. Len(Data(pkt)) < MinData(pkt.type)
    BY <1>10 DEF WellFormed
  <2> QED
    BY <1>7, <1>10, <2>1 DEF Meant
<1>11. CASE ~(Len(pkt.args) < Len(Widths(pkt.type)))
  <2>1. /\ pkt.args \in Seq(Int) /\ Len(pkt.args) \in Nat
        /\ DOMAIN pkt.args = 1..Len(pkt.args) /\ Len(pkt.args) <= Len(Widths(pkt.type))
        /\ pkt.extra \in Seq(Byte) /\ Len(pkt.extra) \in Nat
    BY LenProperties DEF WellFormed, Sendable
  <2>2. Len(pkt.args) = Len(Widths(pkt.type)) /\ Len(pkt.args) = Len(Fields(pkt.type))
    BY <1>9, <1>11, <2>1
  <2>3. /\ Len(Data(pkt)) = MinData(pkt.type) + Len(pkt.extra)
        /\ \A i \in 1..Len(pkt.args) :
              /\ Fields(pkt.type)[i].at + Fields(pkt.type)[i].width <= Len(Data(pkt))
              /\ Stands(Data(pkt), Fields(pkt.type)[i], pkt.args[i])
    BY <2>2, DataShape DEF WellFormed
  <2>4. ~(Len(Data(pkt)) < MinData(pkt.type))
    <3>1. MinData(pkt.type) \in Nat
      BY DEF MinData
    <3> QED
      BY <2>1, <2>3, <3>1
  <2>5. Meant(pkt) = [type |-> pkt.type, args |-> IF pkt.type = "CCLP" THEN <<>> ELSE pkt.args]
    BY <1>11 DEF Meant
  <2>6. ASSUME NEW i \in 1..Len(pkt.args)
        PROVE  ReadField(Fields(pkt.type)[i], data) = pkt.args[i]
    <3>1. PICK f : f = Fields(pkt.type)[i]
      OBVIOUS
    <3>2. /\ f.at \in Nat /\ f.width \in {1, 2, 4}
          /\ f.signed => f.width \in {1, 2}
      BY <1>9, <2>2, <3>1
    <3>3. pkt.args[i] \in Int /\ Fits(pkt.args[i], f)
      BY <2>1, <3>1, ElementOfSeq DEF WellFormed
    <3>4. f.at + f.width <= Len(Data(pkt)) /\ Stands(Data(pkt), f, pkt.args[i])
      BY <2>3, <3>1
    <3>5. Stands(data, f, pkt.args[i])
      <4>1. \A j \in 1..f.width : f.at + j \in 1..Len(Data(pkt))
        BY <1>2, <3>2, <3>4
      <4> QED
        BY <1>8, <3>4, <4>1 DEF Stands
    <3>6. PICK n \in Int : n = pkt.args[i]
      BY <3>3
    <3> QED
      BY <3>1, <3>2, <3>3, <3>5, <3>6, FieldReadsBack
  <2>7. CASE pkt.type = "CCLP"
    <3>1. [i \in DOMAIN fields |-> ReadField(fields[i], data)] = <<>>
      BY <2>7
    <3> QED
      BY <1>7, <2>4, <2>5, <2>7, <3>1
  <2>8. CASE pkt.type # "CCLP"
    <3>1. fields = Fields(pkt.type) /\ DOMAIN fields = 1..Len(pkt.args)
      BY <1>9, <2>2, <2>8
    <3>2. pkt.args = [i \in 1..Len(pkt.args) |-> pkt.args[i]]
      BY <2>1, LenProperties
    <3> HIDE DEF fields
    <3>3. [i \in DOMAIN fields |-> ReadField(fields[i], data)]
          = [i \in 1..Len(pkt.args) |-> pkt.args[i]]
      BY <2>6, <3>1
    <3> QED
      BY <1>7, <2>4, <2>5, <2>8, <3>2, <3>3
  <2> QED
    BY <2>7, <2>8
<1> QED
  BY <1>10, <1>11

LEMMA WritesBigEndian ==
  ASSUME NEW n \in Int
  PROVE  /\ WriteU16(n) = BigEndian(n, 2) /\ WriteU32(n) = BigEndian(n, 4)
         /\ WriteU16(n) \in Seq(Byte) /\ Len(WriteU16(n)) = 2
         /\ WriteU32(n) \in Seq(Byte) /\ Len(WriteU32(n)) = 4
<1> DEFINE h == n \div 65536
<1>0. n \div 256 \in Int /\ h \in Int
  BY SMT
<1>1. h \div 256 = n \div 16777216
  BY SMT
<1>2. \A m \in Int : m % 256 \in Byte
  BY SMT DEF Byte
<1>3. /\ BigEndian(n, 2) \in Seq(Byte) /\ Len(BigEndian(n, 2)) = 2
      /\ BigEndian(n, 4) \in Seq(Byte) /\ Len(BigEndian(n, 4)) = 4
  BY BigEndianType
<1>4. BigEndian(n, 2)[1] = (n \div 256) % 256 /\ BigEndian(n, 2)[2] = n % 256
  BY ShortAt
<1>5. /\ BigEndian(n, 4)[1] = (h \div 256) % 256
      /\ BigEndian(n, 4)[2] = h % 256
      /\ BigEndian(n, 4)[3] = (n \div 256) % 256
      /\ BigEndian(n, 4)[4] = n % 256
  <2>1. n \div 1 = n /\ 4 - 1 = 3 /\ 4 - 2 = 2 /\ 4 - 3 = 1 /\ 4 - 4 = 0
        /\ \A i \in {1, 2, 3, 4} : i \in 1..4
    OBVIOUS
  <2> QED
    BY <1>1, <2>1, Powers, SMT DEF BigEndian
<1>6. /\ WriteU16(n) \in Seq(Byte) /\ Len(WriteU16(n)) = 2
      /\ WriteU16(n)[1] = (n \div 256) % 256 /\ WriteU16(n)[2] = n % 256
  BY <1>0, <1>2 DEF WriteU16
<1>7. WriteU16(n) = BigEndian(n, 2)
  <2>1. \A i \in 1..2 : WriteU16(n)[i] = BigEndian(n, 2)[i]
    <3>1. \A i \in 1..2 : i = 1 \/ i = 2
      OBVIOUS
    <3> QED
      BY <1>4, <1>6, <3>1
  <2> QED
    BY <1>3, <1>6, <2>1, SeqEqual
<1> HIDE DEF h
<1>8. /\ WriteU16(h) \in Seq(Byte) /\ Len(WriteU16(h)) = 2
      /\ WriteU16(h)[1] = (h \div 256) % 256 /\ WriteU16(h)[2] = h % 256
  <2>1. h \div 256 \in Int
    BY <1>0
  <2> QED
    BY <1>0, <1>2, <2>1 DEF WriteU16
<1>9. PICK a \in Seq(Byte), b \in Seq(Byte) : a = WriteU16(h) /\ b = WriteU16(n)
  BY <1>6, <1>8
<1>10. WriteU32(n) = a \o b
  BY <1>9, SMT DEF WriteU32, h
<1>11. /\ a \o b \in Seq(Byte) /\ Len(a \o b) = Len(a) + Len(b)
       /\ \A k \in 1..Len(a) : (a \o b)[k] = a[k]
       /\ \A k \in 1..Len(b) : (a \o b)[Len(a) + k] = b[k]
  BY Halves
<1>12. Len(a) = 2 /\ Len(b) = 2 /\ 2 + 1 = 3 /\ 2 + 2 = 4 /\ 1 \in 1..2 /\ 2 \in 1..2
  BY <1>6, <1>8, <1>9
<1>13. /\ (a \o b)[1] = a[1] /\ (a \o b)[2] = a[2] /\ (a \o b)[3] = b[1] /\ (a \o b)[4] = b[2]
       /\ Len(a \o b) = 4
  BY <1>11, <1>12
<1>14. a \o b = BigEndian(n, 4)
  <2>1. \A i \in 1..4 : i = 1 \/ i = 2 \/ i = 3 \/ i = 4
    OBVIOUS
  <2>2. \A i \in 1..4 : (a \o b)[i] = BigEndian(n, 4)[i]
    BY <1>5, <1>6, <1>8, <1>9, <1>13, <2>1
  <2>3. PICK d \in Seq(Byte), e \in Seq(Byte) : d = a \o b /\ e = BigEndian(n, 4)
    BY <1>3, <1>11
  <2>4. Len(d) = Len(e) /\ \A i \in 1..Len(d) : d[i] = e[i]
    BY <1>3, <1>13, <2>2, <2>3
  <2>5. d = e
    BY <2>4, SeqEqual
  <2> QED
    BY <2>3, <2>5
<1> QED
  BY <1>3, <1>6, <1>7, <1>10, <1>14

(* What is to be received for a packet that is answered. *)
Reply(type) == [type |-> ReplyTo(type).type, args |-> ReplyTo(type).args, extra |-> <<>>]

LEMMA RepliesSendable ==
  ASSUME NEW type \in Answered
  PROVE  /\ Sendable(Reply(type)) /\ Len(Data(Reply(type))) = MinData(Reply(type).type)
         /\ Reply(type).type \in {"DINF", "CALV"}
         /\ Reply(type).type = "DINF" =>
               /\ Len(Reply(type).args) = 7
               /\ \A i \in 1..7 : Reply(type).args[i] \in Int
<1>1. "DINF" \in Types /\ "CALV" \in Types
  <2>1. TypeNames[2] = "DINF" /\ TypeNames[4] = "CALV" /\ Len(TypeNames) = 24
    BY DEF TypeNames
  <2>2. 2 \in 1..24 /\ 4 \in 1..24
    OBVIOUS
  <2> QED
    BY <2>1, <2>2 DEF Types
<1>2. Screen[1] \in Int /\ Screen[2] \in Int
  <2>1. Word \subseteq Int
    BY SMT DEF Word
  <2> QED
    BY <2>1, StreamAssumption
<1>3. CASE type = "QINF"
  <2> DEFINE args == <<0, 0, Screen[1], Screen[2], 0, 0, 0>>
  <2>1. Reply(type) = [type |-> "DINF", args |-> args, extra |-> <<>>]
    BY <1>3 DEF Reply, ReplyTo
  <2>2. args \in Seq(Int) /\ Len(args) = 7
    BY <1>2
  <2> HIDE DEF args
  <2>3. Widths("DINF") = <<2, 2, 2, 2, 2, 2, 2>> /\ MinData("DINF") = 14
    BY DEF Widths, MinData
  <2>4. Len(Widths("DINF")) = 7
    BY <2>3
  <2>5. Sendable(Reply(type))
    BY <1>1, <2>1, <2>2, <2>4, EmptySeq DEF Sendable
  <2>6. Len(Data(Reply(type))) = MinData("DINF") + 0
    <3>1. Len(Reply(type).args) = Len(Widths(Reply(type).type)) /\ Len(Reply(type).extra) = 0
      BY <2>1, <2>2, <2>4
    <3> QED
      BY <2>1, <2>5, <3>1, DataShape
  <2>7. Len(Data(Reply(type))) = MinData("DINF")
    BY <2>3, <2>6
  <2>8. \A i \in 1..7 : args[i] \in Int
    BY <2>2, ElementOfSeq
  <2> QED
    BY <2>1, <2>2, <2>5, <2>7, <2>8
<1>4. CASE type # "QINF"
  <2>1. Reply(type) = [type |-> "CALV", args |-> <<>>, extra |-> <<>>]
    BY <1>4 DEF Reply, ReplyTo, Answered
  <2>2. Widths("CALV") = <<>> /\ MinData("CALV") = 0 /\ Len(<<>>) = 0
    BY DEF Widths, MinData
  <2>3. Sendable(Reply(type))
    BY <1>1, <2>1, <2>2, EmptySeq DEF Sendable
  <2>4. Len(Data(Reply(type))) = MinData("CALV") + 0
    <3>1. Len(Reply(type).args) = Len(Widths(Reply(type).type)) /\ Len(Reply(type).extra) = 0
      BY <2>1, <2>2
    <3> QED
      BY <2>1, <2>3, <3>1, DataShape
  <2> QED
    BY <2>1, <2>2, <2>3, <2>4
<1> QED
  BY <1>3, <1>4

(* Every byte of the client's screen information lies in one field. *)
ScreenInfo(pkt) == pkt.type = "DINF" /\ \A i \in 1..7 : pkt.args[i] \in Int

InOneField(pkt, k, byte) ==
    \E i \in 1..7, j \in 1..2 :
        /\ Fields("DINF")[i].at + j = k + 1 /\ Fields("DINF")[i].width = 2
        /\ byte = BigEndian(pkt.args[i], 2)[j]

LEMMA ScreenByte ==
  ASSUME NEW pkt, ScreenInfo(pkt), NEW k \in 0..13, NEW old
  PROVE  InOneField(pkt, k, DataByte(pkt, k, old))
<1> DEFINE fields == Fields("DINF")
<1>1. DOMAIN fields = 1..7 /\ \A i \in 1..7 : fields[i] = U16(2 * (i - 1))
  <2>1. fields = <<U16(0), U16(2), U16(4), U16(6), U16(8), U16(10), U16(12)>>
    BY DEF Fields
  <2> HIDE DEF fields
  <2> QED
    BY <2>1
<1> HIDE DEF fields
<1>2. \A i \in 1..7 : fields[i].at = 2 * (i - 1) /\ fields[i].width = 2
  BY <1>1 DEF U16
<1>3. PICK i \in 1..7, j \in 1..2 : k + 1 = 2 * (i - 1) + j
  OBVIOUS
<1>4. \A m \in 1..7 : Covers(fields[m], k) <=> m = i
  <2> TAKE m \in 1..7
  <2>1. Covers(fields[m], k) <=> 2 * (m - 1) <= k /\ k < 2 * (m - 1) + 2
    BY <1>2 DEF Covers
  <2> QED
    BY <1>3, <2>1
<1>5. {m \in DOMAIN fields : Covers(fields[m], k)} = {i}
  BY <1>1, <1>4
<1>6. (CHOOSE m \in {i} : TRUE) = i
  OBVIOUS
<1>7. DataByte(pkt, k, old) = WriteField(fields[i], pkt.args[i])[k - fields[i].at + 1]
  BY <1>5, <1>6 DEF DataByte, fields, ScreenInfo
<1>8. k - fields[i].at + 1 = j
  BY <1>2, <1>3
<1>9. WriteField(fields[i], pkt.args[i]) = WriteU16(pkt.args[i])
  BY <1>2 DEF WriteField
<1>10. WriteU16(pkt.args[i]) = BigEndian(pkt.args[i], 2)
  <2>1. pkt.args[i] \in Int
    BY DEF ScreenInfo
  <2> QED
    BY <2>1, WritesBigEndian
<1>11. fields[i].at + j = k + 1 /\ fields[i].width = 2
  BY <1>2, <1>3
<1>12. DataByte(pkt, k, old) = BigEndian(pkt.args[i], 2)[j]
  BY <1>7, <1>8, <1>9, <1>10
<1> QED
  BY <1>11, <1>12 DEF fields, InOneField

(* packet_serialize writes a reply as the protocol defines it, whatever    *)
(* the buffer held before.                                                 *)
LEMMA RepliesSerialized ==
  ASSUME NEW type \in Answered, NEW old \in [1..BufferSize -> Byte]
  PROVE  /\ Serialize(ReplyTo(type), old) = Wire(Reply(type))
         /\ Wire(Reply(type)) \in Seq(Byte) /\ Len(Wire(Reply(type))) <= BufferSize
<1> DEFINE pkt == ReplyTo(type)
           reply == Reply(type)
           wire == Wire(reply)
           size == MinData(pkt.type)
<1>1. /\ BufferSize \in Nat /\ BufferSize >= 22
      /\ old \in Seq(Byte) /\ Len(old) = BufferSize
  <2>1. BufferSize \in Nat /\ BufferSize >= HeaderLength + DataLength("DINF")
    BY BufferAssumption
  <2>2. HeaderLength + DataLength("DINF") = 22
    BY DEF HeaderLength, CodeLength, DataLength, MinData
  <2> QED
    BY <2>1, <2>2
<1>2. /\ Sendable(reply) /\ Len(Data(reply)) = MinData(reply.type)
      /\ reply.type \in {"DINF", "CALV"}
      /\ reply.type = "DINF" => Len(reply.args) = 7 /\ \A i \in 1..7 : reply.args[i] \in Int
  BY RepliesSendable
<1>3. pkt.type = reply.type /\ pkt.args = reply.args
  BY DEF Reply
<1> HIDE DEF pkt, reply
<1>4. /\ size \in {0, 14} /\ DataLength(pkt.type) = size
      /\ pkt.type = "CALV" => size = 0
  BY <1>2, <1>3 DEF DataLength, MinData
<1>5. Len(Data(reply)) = size
  BY <1>2, <1>3
<1> HIDE DEF size
<1>6. HeaderLength = 8 /\ CodeLength = 4
  BY DEF HeaderLength, CodeLength
<1>7. /\ wire \in Seq(Byte) /\ Len(wire) = 8 + size
      /\ \A i \in 1..4 : wire[i] = BigEndian(4 + size, 4)[i]
      /\ \A i \in 1..4 : wire[4 + i] = TypeToCode(reply.type)[i]
      /\ \A k \in 1..size : wire[8 + k] = Data(reply)[k]
  BY <1>2, <1>5, <1>6, WireShape
<1> HIDE DEF wire
<1> DEFINE lead == WriteU32(4 + size) \o TypeToCode(pkt.type)
<1>8. \A i \in 1..8 : lead[i] = wire[i]
  <2>1. 4 + size \in Int
    BY <1>4
  <2>2. WriteU32(4 + size) = BigEndian(4 + size, 4) /\ WriteU32(4 + size) \in Seq(Byte)
        /\ Len(WriteU32(4 + size)) = 4
    BY <2>1, WritesBigEndian
  <2>3. TypeToCode(pkt.type) \in Seq(Byte) /\ Len(TypeToCode(pkt.type)) = 4
    BY <1>2, <1>3, CodesGiveTypes DEF Sendable
  <2>4. PICK a \in Seq(Byte), b \in Seq(Byte) :
            a = WriteU32(4 + size) /\ b = TypeToCode(pkt.type)
    BY <2>2, <2>3
  <2>5. /\ \A k \in 1..Len(a) : (a \o b)[k] = a[k]
        /\ \A k \in 1..Len(b) : (a \o b)[Len(a) + k] = b[k]
    BY Halves
  <2>6. Len(a) = 4 /\ Len(b) = 4
    BY <2>2, <2>3, <2>4
  <2>7. \A k \in 1..4 : (a \o b)[k] = a[k] /\ (a \o b)[4 + k] = b[k]
    BY <2>5, <2>6
  <2>8. \A k \in 1..4 : lead[k] = wire[k] /\ lead[4 + k] = wire[4 + k]
    <3>1. lead = a \o b
      BY <2>4
    <3>2. \A k \in 1..4 : wire[k] = a[k]
      BY <1>7, <2>2, <2>4
    <3>3. \A k \in 1..4 : wire[4 + k] = b[k]
      BY <1>3, <1>7, <2>4
    <3> HIDE DEF lead
    <3> QED
      BY <2>7, <3>1, <3>2, <3>3
  <2>9. \A i \in 1..8 : i \in 1..4 \/ \E k \in 1..4 : i = 4 + k
    <3>1. \A i \in 1..8 : i \in 1..4 \/ (i - 4 \in 1..4 /\ i = 4 + (i - 4))
      OBVIOUS
    <3> QED
      BY <3>1
  <2> HIDE DEF lead
  <2> QED
    BY <2>8, <2>9
<1>9. ASSUME NEW i \in 9..(8 + size) PROVE DataByte(pkt, i - 9, old[i]) = wire[i]
  <2>1. size = 14 /\ pkt.type = "DINF"
    BY <1>2, <1>3, <1>4
  <2>2. PICK k \in 0..13 : k = i - 9
    BY <2>1
  <2>3. \A m \in 1..7 : pkt.args[m] \in Int
    BY <1>2, <1>3, <2>1
  <2>4. PICK m \in 1..7, j \in 1..2 :
            /\ Fields("DINF")[m].at + j = k + 1 /\ Fields("DINF")[m].width = 2
            /\ DataByte(pkt, k, old[i]) = BigEndian(pkt.args[m], 2)[j]
    <3>1. PICK o : o = old[i]
      OBVIOUS
    <3>2. \E m \in 1..7, j \in 1..2 :
              /\ Fields("DINF")[m].at + j = k + 1 /\ Fields("DINF")[m].width = 2
              /\ DataByte(pkt, k, o) = BigEndian(pkt.args[m], 2)[j]
      <4>1. ScreenInfo(pkt)
        BY <2>1, <2>3 DEF ScreenInfo
      <4>2. InOneField(pkt, k, DataByte(pkt, k, o))
        BY <4>1, ScreenByte
      <4> QED
        BY <4>2 DEF InOneField
    <3> QED
      BY <3>1, <3>2
  <2>5. Stands(Data(reply), Fields("DINF")[m], reply.args[m])
    <3>1. Len(reply.args) = 7 /\ reply.type = "DINF"
      BY <1>2, <1>3, <2>1
    <3>2. \A l \in 1..Len(reply.args) :
              Stands(Data(reply), Fields(reply.type)[l], reply.args[l])
      BY <1>2, DataShape
    <3> QED
      BY <3>1, <3>2
  <2>6. Data(reply)[k + 1] = BigEndian(reply.args[m], 2)[j]
    BY <2>4, <2>5 DEF Stands
  <2>7. k + 1 \in 1..size /\ 8 + (k + 1) = i
    BY <2>1, <2>2
  <2>8. wire[i] = Data(reply)[k + 1]
    BY <1>7, <2>7
  <2> QED
    BY <1>3, <2>2, <2>4, <2>6, <2>8
<1> DEFINE Entry(i) == IF i <= 8 THEN lead[i] ELSE DataByte(pkt, i - 8 - 1, old[i])
<1>10. Serialize(pkt, old) = [i \in 1..(8 + size) |-> Entry(i)]
  <2>1. ~(8 + size > Len(old))
    BY <1>1, <1>4
  <2> QED
    BY <1>4, <1>6, <2>1 DEF Serialize
<1>11. \A i \in 1..(8 + size) : Entry(i) = wire[i]
  <2> HIDE DEF lead
  <2> TAKE i \in 1..(8 + size)
  <2>1. CASE i <= 8
    <3>1. i \in 1..8
      BY <2>1
    <3> QED
      BY <1>8, <2>1, <3>1
  <2>2. CASE ~(i <= 8)
    <3>1. i \in 9..(8 + size) /\ i - 8 - 1 = i - 9
      BY <1>4, <2>2
    <3> QED
      BY <1>9, <2>2, <3>1
  <2> QED
    BY <2>1, <2>2
<1> HIDE DEF Entry
<1>12. wire = [i \in 1..(8 + size) |-> wire[i]]
  <2>1. wire \in [1..Len(wire) -> Byte]
    BY <1>7, LenProperties
  <2> QED
    BY <1>7, <2>1
<1>13. Serialize(pkt, old) = wire
  BY <1>10, <1>11, <1>12
<1>14. Len(wire) <= BufferSize
  BY <1>1, <1>4, <1>7
<1> QED
  BY <1>7, <1>13, <1>14 DEF pkt, reply, wire

(* The hello, as the protocol defines it. *)
Hail == BigEndian(GreetingLength + 8 + Len(Name), 4) \o Greeting
        \o BigEndian(Version[1], 2) \o BigEndian(Version[2], 2)
        \o BigEndian(Len(Name), 4) \o Name

LEMMA HailShape ==
  ClientHello = Hail /\ Hail \in Seq(Byte) /\ Len(Hail) <= BufferSize
<1>1. Name \in Seq(Byte) /\ Len(Name) \in Nat
  BY StreamAssumption, LenProperties
<1>2. Version[1] = 1 /\ Version[2] = 6 /\ GreetingLength = 7
  BY DEF Version, GreetingLength
<1>3. Greeting \in Seq(Byte) /\ Len(Greeting) = 7
  BY DEF Greeting, Byte
<1>4. BufferSize \in Nat /\ BufferSize >= 19 + Len(Name)
  BY BufferAssumption DEF GreetingLength
<1>5. PICK n \in Int, l \in Int : n = GreetingLength + 8 + Len(Name) /\ l = Len(Name)
  BY <1>1, <1>2
<1>6. /\ WriteU32(n) = BigEndian(n, 4) /\ WriteU32(l) = BigEndian(l, 4)
      /\ WriteU16(1) = BigEndian(1, 2) /\ WriteU16(6) = BigEndian(6, 2)
      /\ WriteU32(n) \in Seq(Byte) /\ Len(WriteU32(n)) = 4
      /\ WriteU32(l) \in Seq(Byte) /\ Len(WriteU32(l)) = 4
      /\ WriteU16(1) \in Seq(Byte) /\ Len(WriteU16(1)) = 2
      /\ WriteU16(6) \in Seq(Byte) /\ Len(WriteU16(6)) = 2
  <2>1. 1 \in Int /\ 6 \in Int
    OBVIOUS
  <2> QED
    BY <2>1, WritesBigEndian
<1>7. PICK a \in Seq(Byte), b \in Seq(Byte), c \in Seq(Byte), d \in Seq(Byte), e \in Seq(Byte),
           f \in Seq(Byte) :
          /\ a = WriteU32(n) /\ b = Greeting /\ c = WriteU16(1) /\ d = WriteU16(6)
          /\ e = WriteU32(l) /\ f = Name
  BY <1>1, <1>3, <1>6
<1>8. ClientHello = a \o b \o c \o d \o e \o f /\ Hail = a \o b \o c \o d \o e \o f
  BY <1>2, <1>5, <1>6, <1>7 DEF ClientHello, Hail
<1>9. /\ Len(a) = 4 /\ Len(b) = 7 /\ Len(c) = 2 /\ Len(d) = 2 /\ Len(e) = 4
      /\ Len(f) = Len(Name)
  BY <1>3, <1>6, <1>7
<1>10. PICK s \in Seq(Byte) : s = a \o b /\ Len(s) = Len(a) + Len(b)
  <2>1. a \o b \in Seq(Byte) /\ Len(a \o b) = Len(a) + Len(b)
    BY Halves
  <2> QED
    BY <2>1
<1>11. PICK t \in Seq(Byte) : t = s \o c /\ Len(t) = Len(s) + Len(c)
  <2>1. s \o c \in Seq(Byte) /\ Len(s \o c) = Len(s) + Len(c)
    BY Halves
  <2> QED
    BY <2>1
<1>12. PICK u \in Seq(Byte) : u = t \o d /\ Len(u) = Len(t) + Len(d)
  <2>1. t \o d \in Seq(Byte) /\ Len(t \o d) = Len(t) + Len(d)
    BY Halves
  <2> QED
    BY <2>1
<1>13. PICK v \in Seq(Byte) : v = u \o e /\ Len(v) = Len(u) + Len(e)
  <2>1. u \o e \in Seq(Byte) /\ Len(u \o e) = Len(u) + Len(e)
    BY Halves
  <2> QED
    BY <2>1
<1>14. v \o f \in Seq(Byte) /\ Len(v \o f) = Len(v) + Len(f)
  BY Halves
<1>15. Len(v \o f) <= BufferSize
  BY <1>1, <1>4, <1>9, <1>10, <1>11, <1>12, <1>13, <1>14
<1> QED
  BY <1>8, <1>10, <1>11, <1>12, <1>13, <1>14, <1>15

-----------------------------------------------------------------------------
(* Sequences: taking off the front, cancelling, prefixes.                  *)

LEMMA TakeOff ==
  ASSUME NEW A, NEW s \in Seq(A), NEW n \in 0..Len(s)
  PROVE  /\ SubSeq(s, 1, n) \in Seq(A) /\ Len(SubSeq(s, 1, n)) = n
         /\ SubSeq(s, n + 1, Len(s)) \in Seq(A) /\ Len(SubSeq(s, n + 1, Len(s))) = Len(s) - n
         /\ SubSeq(s, 1, n) \o SubSeq(s, n + 1, Len(s)) = s
         /\ \A i \in 1..n : SubSeq(s, 1, n)[i] = s[i]
         /\ \A i \in 1..(Len(s) - n) : SubSeq(s, n + 1, Len(s))[i] = s[n + i]
<1>1. Len(s) \in Nat /\ n \in Nat /\ \A i \in 1..Len(s) : s[i] \in A
  BY LenProperties, ElementOfSeq
<1>2. /\ SubSeq(s, 1, n) \in Seq(A) /\ Len(SubSeq(s, 1, n)) = IF 1 <= n THEN n - 1 + 1 ELSE 0
      /\ \A i \in 1..(n - 1 + 1) : SubSeq(s, 1, n)[i] = s[1 + i - 1]
  <2>1. \A i \in 1..n : s[i] \in A
    BY <1>1
  <2> QED
    BY <1>1, <2>1, SubSeqProperties
<1>3. /\ SubSeq(s, n + 1, Len(s)) \in Seq(A)
      /\ Len(SubSeq(s, n + 1, Len(s)))
            = IF n + 1 <= Len(s) THEN Len(s) - (n + 1) + 1 ELSE 0
      /\ \A i \in 1..(Len(s) - (n + 1) + 1) :
            SubSeq(s, n + 1, Len(s))[i] = s[n + 1 + i - 1]
  <2>1. PICK m \in Int : m = n + 1
    BY <1>1
  <2>2. \A i \in m..Len(s) : s[i] \in A
    BY <1>1, <2>1
  <2>3. /\ SubSeq(s, m, Len(s)) \in Seq(A)
        /\ Len(SubSeq(s, m, Len(s))) = IF m <= Len(s) THEN Len(s) - m + 1 ELSE 0
        /\ \A i \in 1..(Len(s) - m + 1) : SubSeq(s, m, Len(s))[i] = s[m + i - 1]
    BY <1>1, <2>2, SubSeqProperties
  <2> QED
    BY <2>1, <2>3
<1>4. Len(SubSeq(s, 1, n)) = n /\ Len(SubSeq(s, n + 1, Len(s))) = Len(s) - n
  <2>1. (IF 1 <= n THEN n - 1 + 1 ELSE 0) = n
    BY <1>1
  <2>2. (IF n + 1 <= Len(s) THEN Len(s) - (n + 1) + 1 ELSE 0) = Len(s) - n
    BY <1>1
  <2> QED
    BY <1>2, <1>3, <2>1, <2>2
<1>5. \A i \in 1..n : SubSeq(s, 1, n)[i] = s[i]
  <2>1. \A i \in 1..n : i \in 1..(n - 1 + 1) /\ 1 + i - 1 = i
    BY <1>1
  <2> QED
    BY <1>2, <2>1
<1>6. \A i \in 1..(Len(s) - n) : SubSeq(s, n + 1, Len(s))[i] = s[n + i]
  <2>1. \A i \in 1..(Len(s) - n) : i \in 1..(Len(s) - (n + 1) + 1) /\ n + 1 + i - 1 = n + i
    BY <1>1
  <2> QED
    BY <1>3, <2>1
<1>7. SubSeq(s, 1, n) \o SubSeq(s, n + 1, Len(s)) = SubSeq(s, 1, Len(s))
  <2>1. 1 \in 1..(Len(s) + 1) /\ n \in (1 - 1)..Len(s) /\ Len(s) \in n..Len(s)
    BY <1>1
  <2> QED
    BY <2>1, ConcatAdjacentSubSeq
<1>8. SubSeq(s, 1, Len(s)) = s
  BY SubSeqFull
<1> QED
  BY <1>2, <1>3, <1>4, <1>5, <1>6, <1>7, <1>8

LEMMA Cancelling ==
  ASSUME NEW A, NEW s \in Seq(A), NEW t \in Seq(A), NEW u \in Seq(A), NEW v \in Seq(A)
  PROVE  s \o t = u \o v /\ Len(s) = Len(u) => s = u /\ t = v
<1>1. /\ s \o t \in Seq(A) /\ Len(s \o t) = Len(s) + Len(t)
      /\ \A k \in 1..Len(s) : (s \o t)[k] = s[k]
      /\ \A k \in 1..Len(t) : (s \o t)[Len(s) + k] = t[k]
  BY Halves
<1>2. /\ u \o v \in Seq(A) /\ Len(u \o v) = Len(u) + Len(v)
      /\ \A k \in 1..Len(u) : (u \o v)[k] = u[k]
      /\ \A k \in 1..Len(v) : (u \o v)[Len(u) + k] = v[k]
  BY Halves
<1>3. SUFFICES ASSUME s \o t = u \o v, Len(s) = Len(u) PROVE s = u /\ t = v
  OBVIOUS
<1>0. Len(s) \in Nat /\ Len(t) \in Nat /\ Len(u) \in Nat /\ Len(v) \in Nat
  BY LenProperties
<1>4. PICK w : w = s \o t /\ w = u \o v
  BY <1>3
<1>5. Len(t) = Len(v)
  BY <1>0, <1>1, <1>2, <1>3, <1>4
<1>6. \A k \in 1..Len(s) : s[k] = u[k]
  BY <1>1, <1>2, <1>3, <1>4
<1>7. \A k \in 1..Len(t) : t[k] = v[k]
  BY <1>1, <1>2, <1>3, <1>4, <1>5
<1> QED
  BY <1>3, <1>5, <1>6, <1>7, SeqEqual

(* The beginning of a sequence that has it as a part. *)
LEMMA PrefixOfConcat ==
  ASSUME NEW A, NEW s \in Seq(A), NEW t \in Seq(A)
  PROVE  IsPrefix(s, s \o t)
<1>1. /\ s \o t \in Seq(A) /\ Len(s) \in Nat /\ Len(t) \in Nat
      /\ Len(s \o t) = Len(s) + Len(t)
      /\ \A k \in 1..Len(s) : (s \o t)[k] = s[k]
  BY Halves
<1>2. SubSeq(s, 1, Len(s)) = s
  BY SubSeqFull
<1>3. PICK r \in Seq(A) : r = s \o t
  BY <1>1
<1>4. Len(s) \in 0..Len(r)
  BY <1>1, <1>3
<1>5. /\ SubSeq(r, 1, Len(s)) \in Seq(A) /\ Len(SubSeq(r, 1, Len(s))) = Len(s)
      /\ \A i \in 1..Len(s) : SubSeq(r, 1, Len(s))[i] = r[i]
  BY <1>4, TakeOff
<1>6. \A i \in 1..Len(s) : SubSeq(r, 1, Len(s))[i] = s[i]
  BY <1>1, <1>3, <1>5
<1>7. SubSeq(r, 1, Len(s)) = s
  BY <1>5, <1>6, SeqEqual
<1>8. Len(s) <= Len(s \o t)
  BY <1>1
<1> QED
  BY <1>2, <1>3, <1>7, <1>8 DEF IsPrefix

LEMMA PrefixElements ==
  ASSUME NEW A, NEW s \in Seq(A), NEW B, NEW t \in Seq(B), Len(s) <= Len(t),
         \A i \in 1..Len(s) : s[i] = t[i]
  PROVE  IsPrefix(s, t)
<1>1. Len(s) \in Nat /\ Len(t) \in Nat
  BY LenProperties
<1>2. Len(s) \in 0..Len(t)
  BY <1>1
<1>3. /\ SubSeq(t, 1, Len(s)) \in Seq(B) /\ Len(SubSeq(t, 1, Len(s))) = Len(s)
      /\ \A i \in 1..Len(s) : SubSeq(t, 1, Len(s))[i] = t[i]
  BY <1>2, TakeOff
<1>4. s \in Seq(A \cup B) /\ SubSeq(t, 1, Len(s)) \in Seq(A \cup B)
  <2>1. A \subseteq A \cup B /\ B \subseteq A \cup B
    OBVIOUS
  <2> QED
    BY <1>3, <2>1, SeqMonotonic
<1>5. \A i \in 1..Len(s) : SubSeq(t, 1, Len(s))[i] = s[i]
  BY <1>3
<1>6. SubSeq(t, 1, Len(s)) = s
  BY <1>3, <1>4, <1>5, SeqEqual
<1>7. SubSeq(s, 1, Len(s)) = s
  BY SubSeqFull
<1> QED
  BY <1>6, <1>7 DEF IsPrefix

-----------------------------------------------------------------------------
(* The buffers.                                                            *)

Buffer == [1..BufferSize -> Byte]

LEMMA BufferSub ==
  ASSUME NEW buf \in Buffer, NEW n \in 0..BufferSize
  PROVE  /\ SubSeq(buf, 1, n) \in Seq(Byte) /\ Len(SubSeq(buf, 1, n)) = n
         /\ \A i \in 1..n : SubSeq(buf, 1, n)[i] = buf[i]
<1>1. BufferSize \in Nat
  BY BufferAssumption
<1>2. buf \in Seq(Byte) /\ Len(buf) = BufferSize
  BY <1>1 DEF Buffer
<1>3. n \in 0..Len(buf)
  BY <1>2
<1> QED
  BY <1>2, <1>3, TakeOff

LEMMA OverlayShape ==
  ASSUME NEW buf \in Buffer, NEW at \in Nat, NEW bytes \in Seq(Byte),
         at + Len(bytes) <= BufferSize
  PROVE  /\ Overlay(buf, at, bytes) \in Buffer
         /\ SubSeq(Overlay(buf, at, bytes), 1, at + Len(bytes)) = SubSeq(buf, 1, at) \o bytes
<1>1. BufferSize \in Nat /\ Len(bytes) \in Nat
  BY BufferAssumption, LenProperties
<1>2. \A i \in 1..Len(bytes) : bytes[i] \in Byte
  BY ElementOfSeq
<1> DEFINE new == Overlay(buf, at, bytes)
           Entry(i) == IF at < i /\ i <= at + Len(bytes) THEN bytes[i - at] ELSE buf[i]
<1>3. new = [i \in 1..BufferSize |-> Entry(i)]
  BY DEF Overlay
<1>4. \A i \in 1..BufferSize : Entry(i) \in Byte
  <2> TAKE i \in 1..BufferSize
  <2>1. CASE at < i /\ i <= at + Len(bytes)
    <3>1. i - at \in 1..Len(bytes)
      BY <1>1, <2>1
    <3> QED
      BY <1>2, <2>1, <3>1
  <2>2. CASE ~(at < i /\ i <= at + Len(bytes))
    BY <2>2 DEF Buffer
  <2> QED
    BY <2>1, <2>2
<1>5. \A i \in 1..at : Entry(i) = buf[i]
  BY <1>1
<1>6. \A k \in 1..Len(bytes) : Entry(at + k) = bytes[k]
  <2> TAKE k \in 1..Len(bytes)
  <2>1. at < at + k /\ at + k <= at + Len(bytes) /\ at + k - at = k
    BY <1>1
  <2> QED
    BY <2>1
<1> HIDE DEF new, Entry
<1>7. new \in Buffer
  BY <1>3, <1>4 DEF Buffer
<1>8. PICK n \in 0..BufferSize : n = at + Len(bytes)
  BY <1>1
<1>9. /\ SubSeq(new, 1, n) \in Seq(Byte) /\ Len(SubSeq(new, 1, n)) = n
      /\ \A i \in 1..n : SubSeq(new, 1, n)[i] = new[i]
  BY <1>7, BufferSub
<1>10. at \in 0..BufferSize
  BY <1>1
<1>11. /\ SubSeq(buf, 1, at) \in Seq(Byte) /\ Len(SubSeq(buf, 1, at)) = at
       /\ \A i \in 1..at : SubSeq(buf, 1, at)[i] = buf[i]
  BY <1>10, BufferSub
<1>12. PICK front \in Seq(Byte) : front = SubSeq(buf, 1, at)
  BY <1>11
<1>13. /\ front \o bytes \in Seq(Byte) /\ Len(front \o bytes) = Len(front) + Len(bytes)
       /\ \A k \in 1..Len(front) : (front \o bytes)[k] = front[k]
       /\ \A k \in 1..Len(bytes) : (front \o bytes)[Len(front) + k] = bytes[k]
  BY Halves
<1>14. Len(front) = at /\ Len(front \o bytes) = n
  BY <1>8, <1>11, <1>12, <1>13
<1>15. \A i \in 1..n : SubSeq(new, 1, n)[i] = (front \o bytes)[i]
  <2> TAKE i \in 1..n
  <2>1. i \in 1..BufferSize /\ SubSeq(new, 1, n)[i] = Entry(i)
    BY <1>1, <1>3, <1>9
  <2>2. CASE i <= at
    <3>1. i \in 1..at
      BY <2>2
    <3> QED
      BY <1>5, <1>11, <1>12, <1>13, <1>14, <2>1, <3>1
  <2>3. CASE ~(i <= at)
    <3>1. PICK k \in 1..Len(bytes) : i = at + k
      <4>1. i - at \in 1..Len(bytes) /\ i = at + (i - at)
        BY <1>1, <1>8, <2>3
      <4> QED
        BY <4>1
    <3> QED
      BY <1>6, <1>13, <1>14, <2>1, <3>1
  <2> QED
    BY <2>2, <2>3
<1>16. SubSeq(new, 1, n) = front \o bytes
  BY <1>9, <1>13, <1>14, <1>15, SeqEqual
<1> QED
  BY <1>7, <1>8, <1>12, <1>16 DEF new

LEMMA OverlayFront ==
  ASSUME NEW buf \in Buffer, NEW bytes \in Seq(Byte), Len(bytes) <= BufferSize
  PROVE  /\ Overlay(buf, 0, bytes) \in Buffer
         /\ SubSeq(Overlay(buf, 0, bytes), 1, Len(bytes)) = bytes
         /\ \A i \in 1..Len(bytes) : Overlay(buf, 0, bytes)[i] = bytes[i]
<1>1. Len(bytes) \in Nat /\ BufferSize \in Nat
  BY LenProperties, BufferAssumption
<1>2. 0 + Len(bytes) = Len(bytes) /\ Len(bytes) \in 0..BufferSize
  BY <1>1
<1>3. SubSeq(buf, 1, 0) = <<>> /\ <<>> \o bytes = bytes
  BY SubSeqEmpty, ConcatEmptySeq
<1>4. /\ Overlay(buf, 0, bytes) \in Buffer
      /\ SubSeq(Overlay(buf, 0, bytes), 1, Len(bytes)) = bytes
  BY <1>2, <1>3, OverlayShape
<1>5. \A i \in 1..Len(bytes) :
          SubSeq(Overlay(buf, 0, bytes), 1, Len(bytes))[i] = Overlay(buf, 0, bytes)[i]
  BY <1>2, <1>4, BufferSub
<1> QED
  BY <1>4, <1>5

-----------------------------------------------------------------------------
(* Streams: what a sequence comes to when every element is written in turn *)
(* with a code.                                                            *)
IsCode(code, T, A) == code \in [T -> Seq(A)]

Mapped(code, s) == [i \in DOMAIN s |-> code[s[i]]]

Coded(code, s) == FlattenSeq(Mapped(code, s))

LEMMA CodedSeq ==
  ASSUME NEW A, NEW T, NEW code, IsCode(code, T, A), NEW s \in Seq(T)
  PROVE  /\ Mapped(code, s) \in Seq(Seq(A)) /\ Len(Mapped(code, s)) = Len(s)
         /\ \A i \in 1..Len(s) : Mapped(code, s)[i] = code[s[i]]
<1>1. Len(s) \in Nat /\ DOMAIN s = 1..Len(s) /\ \A i \in 1..Len(s) : s[i] \in T
  BY LenProperties, ElementOfSeq
<1>2. Mapped(code, s) \in [1..Len(s) -> Seq(A)]
  BY <1>1 DEF Mapped, IsCode
<1>3. \A i \in 1..Len(s) : Mapped(code, s)[i] = code[s[i]]
  BY <1>1 DEF Mapped
<1> HIDE DEF Mapped
<1> QED
  BY <1>1, <1>2, <1>3

LEMMA CodedType ==
  ASSUME NEW A, NEW T, NEW code, IsCode(code, T, A), NEW s \in Seq(T)
  PROVE  Coded(code, s) \in Seq(A)
  BY CodedSeq, FlattenType DEF Coded

LEMMA CodedEmpty == ASSUME NEW code PROVE Coded(code, <<>>) = <<>>
<1>1. Mapped(code, <<>>) = <<>>
  BY DEF Mapped
<1> QED
  BY <1>1, FlattenEmpty DEF Coded

LEMMA CodedAppend ==
  ASSUME NEW A, NEW T, NEW code, IsCode(code, T, A), NEW s \in Seq(T), NEW x \in T
  PROVE  Coded(code, Append(s, x)) = Coded(code, s) \o code[x]
<1> DEFINE longer == Append(s, x)
           few == Mapped(code, s)
           many == Mapped(code, longer)
<1>1. /\ longer \in Seq(T) /\ Len(longer) = Len(s) + 1
      /\ (\A i \in 1..Len(s) : longer[i] = s[i]) /\ longer[Len(s) + 1] = x
      /\ Len(s) \in Nat
  BY AppendProperties, LenProperties
<1> HIDE DEF longer
<1>2. /\ few \in Seq(Seq(A)) /\ Len(few) = Len(s)
      /\ \A i \in 1..Len(s) : few[i] = code[s[i]]
  BY CodedSeq
<1>3. /\ many \in Seq(Seq(A)) /\ Len(many) = Len(longer)
      /\ \A i \in 1..Len(longer) : many[i] = code[longer[i]]
  BY <1>1, CodedSeq
<1> HIDE DEF few, many
<1>4. code[x] \in Seq(A)
  BY DEF IsCode
<1>5. PICK y \in Seq(A) : y = code[x]
  BY <1>4
<1>6. /\ Append(few, y) \in Seq(Seq(A)) /\ Len(Append(few, y)) = Len(few) + 1
      /\ \A i \in 1..Len(few) : Append(few, y)[i] = few[i]
      /\ Append(few, y)[Len(few) + 1] = y
  <2>1. PICK S : S = Seq(A)
    OBVIOUS
  <2>2. few \in Seq(S) /\ y \in S
    BY <1>2, <2>1
  <2>3. /\ Append(few, y) \in Seq(S) /\ Len(Append(few, y)) = Len(few) + 1
        /\ \A i \in 1..Len(few) : Append(few, y)[i] = few[i]
        /\ Append(few, y)[Len(few) + 1] = y
    BY <2>2, AppendProperties
  <2> QED
    BY <2>1, <2>3
<1>7. Len(Append(few, y)) = Len(many)
  BY <1>1, <1>2, <1>3, <1>6
<1>8. \A i \in 1..Len(many) : Append(few, y)[i] = many[i]
  <2> TAKE i \in 1..Len(many)
  <2>1. i \in 1..Len(s) \/ i = Len(s) + 1
    BY <1>1, <1>3
  <2>2. CASE i \in 1..Len(s)
    BY <1>1, <1>2, <1>3, <1>6, <2>2
  <2>3. CASE i = Len(s) + 1
    BY <1>1, <1>2, <1>3, <1>5, <1>6, <2>3
  <2> QED
    BY <2>1, <2>2, <2>3
<1>9. many = Append(few, y)
  <2>1. PICK S : S = Seq(A)
    OBVIOUS
  <2>2. many \in Seq(S) /\ Append(few, y) \in Seq(S)
    BY <1>3, <1>6, <2>1
  <2>3. Len(many) = Len(Append(few, y)) /\ \A i \in 1..Len(many) : many[i] = Append(few, y)[i]
    BY <1>7, <1>8
  <2> QED
    BY <2>2, <2>3, SeqEqual
<1>10. FlattenSeq(Append(few, y)) = FlattenSeq(few) \o y
  BY <1>2, FlattenAppend
<1> QED
  BY <1>5, <1>9, <1>10 DEF Coded, few, many, longer

LEMMA CodedHead ==
  ASSUME NEW A, NEW T, NEW code, IsCode(code, T, A), NEW s \in Seq(T), s # <<>>
  PROVE  Coded(code, s) = code[s[1]] \o Coded(code, Tail(s))
<1> DEFINE rest == Tail(s)
           all == Mapped(code, s)
           most == Mapped(code, rest)
<1>1. /\ rest \in Seq(T) /\ Len(rest) = Len(s) - 1
      /\ \A i \in 1..Len(rest) : rest[i] = s[i + 1]
  BY HeadTailProperties
<1> HIDE DEF rest
<1>2. Len(s) \in Nat \ {0}
  BY EmptySeq
<1>3. /\ all \in Seq(Seq(A)) /\ Len(all) = Len(s)
      /\ \A i \in 1..Len(s) : all[i] = code[s[i]]
  BY CodedSeq
<1>4. /\ most \in Seq(Seq(A)) /\ Len(most) = Len(rest)
      /\ \A i \in 1..Len(rest) : most[i] = code[rest[i]]
  <2>1. PICK r \in Seq(T) : r = rest
    BY <1>1
  <2>2. /\ Mapped(code, r) \in Seq(Seq(A)) /\ Len(Mapped(code, r)) = Len(r)
        /\ \A i \in 1..Len(r) : Mapped(code, r)[i] = code[r[i]]
    BY CodedSeq
  <2> QED
    BY <2>1, <2>2
<1> HIDE DEF all, most
<1>5. all # <<>>
  BY <1>2, <1>3, EmptySeq
<1>6. /\ Tail(all) \in Seq(Seq(A)) /\ Len(Tail(all)) = Len(all) - 1
      /\ \A i \in 1..Len(Tail(all)) : Tail(all)[i] = all[i + 1]
  BY <1>3, <1>5, HeadTailProperties
<1>7. \A i \in 1..Len(most) : Tail(all)[i] = most[i]
  <2> TAKE i \in 1..Len(most)
  <2>1. /\ i \in 1..Len(Tail(all)) /\ i \in 1..Len(rest)
        /\ i + 1 \in 1..Len(s)
    BY <1>1, <1>2, <1>3, <1>4, <1>6
  <2> QED
    BY <1>1, <1>3, <1>4, <1>6, <2>1
<1>8. Tail(all) = most
  <2>1. Len(Tail(all)) = Len(most)
    BY <1>1, <1>3, <1>4, <1>6
  <2> QED
    BY <1>4, <1>6, <1>7, <2>1, SeqEqual
<1>9. FlattenSeq(all) = all[1] \o FlattenSeq(Tail(all))
  BY <1>3, <1>5, FlattenHead
<1>10. all[1] = code[s[1]]
  BY <1>2, <1>3
<1> QED
  BY <1>8, <1>9, <1>10 DEF Coded, all, most, rest

(* What packets come to on the wire. *)
Wires(packets) == FlattenSeq([i \in DOMAIN packets |-> Wire(packets[i])])

LEMMA WiresCoded ==
  /\ IsCode([pkt \in ServerPackets |-> Wire(pkt)], ServerPackets, Byte)
  /\ \A packets \in Seq(ServerPackets) :
        Wires(packets) = Coded([pkt \in ServerPackets |-> Wire(pkt)], packets)
<1>1. \A pkt \in ServerPackets : Wire(pkt) \in Seq(Byte)
  <2> TAKE pkt \in ServerPackets
  <2>1. Sendable(pkt)
    BY ServersPackets DEF WellFormed
  <2> QED
    BY <2>1, WireShape
<1>2. ASSUME NEW packets \in Seq(ServerPackets)
      PROVE  Wires(packets) = Coded([pkt \in ServerPackets |-> Wire(pkt)], packets)
  <2>1. DOMAIN packets = 1..Len(packets) /\ \A i \in 1..Len(packets) : packets[i] \in ServerPackets
    BY LenProperties, ElementOfSeq
  <2>2. [i \in DOMAIN packets |-> Wire(packets[i])]
        = [i \in DOMAIN packets |-> [pkt \in ServerPackets |-> Wire(pkt)][packets[i]]]
    BY <2>1
  <2> QED
    BY <2>2 DEF Wires, Coded, Mapped
<1> QED
  BY <1>1, <1>2 DEF IsCode

LEMMA WiresProperties ==
  ASSUME NEW packets \in Seq(ServerPackets)
  PROVE  /\ Wires(packets) \in Seq(Byte)
         /\ packets = <<>> => Wires(packets) = <<>>
         /\ \A pkt \in ServerPackets :
               Wires(Append(packets, pkt)) = Wires(packets) \o Wire(pkt)
         /\ packets # <<>> => Wires(packets) = Wire(packets[1]) \o Wires(Tail(packets))
<1> DEFINE code == [pkt \in ServerPackets |-> Wire(pkt)]
<1>1. /\ IsCode(code, ServerPackets, Byte)
      /\ \A s \in Seq(ServerPackets) : Wires(s) = Coded(code, s)
      /\ \A pkt \in ServerPackets : code[pkt] = Wire(pkt)
  BY WiresCoded
<1> HIDE DEF code
<1>2. Wires(packets) \in Seq(Byte)
  BY <1>1, CodedType
<1>3. ASSUME packets = <<>> PROVE Wires(packets) = <<>>
  BY <1>1, <1>3, CodedEmpty
<1>4. ASSUME NEW pkt \in ServerPackets
      PROVE  Wires(Append(packets, pkt)) = Wires(packets) \o Wire(pkt)
  <2>1. Append(packets, pkt) \in Seq(ServerPackets)
    BY AppendProperties
  <2>2. Coded(code, Append(packets, pkt)) = Coded(code, packets) \o code[pkt]
    BY <1>1, CodedAppend
  <2> QED
    BY <1>1, <2>1, <2>2
<1>5. ASSUME packets # <<>> PROVE Wires(packets) = Wire(packets[1]) \o Wires(Tail(packets))
  <2>1. packets[1] \in ServerPackets /\ Tail(packets) \in Seq(ServerPackets)
    BY <1>5, EmptySeq, ElementOfSeq, HeadTailProperties
  <2>2. Coded(code, packets) = code[packets[1]] \o Coded(code, Tail(packets))
    BY <1>1, <1>5, CodedHead
  <2> QED
    BY <1>1, <2>1, <2>2
<1> QED
  BY <1>2, <1>3, <1>4, <1>5

(* What packet_parse may make of a buffer, and what it is answered with. *)
Parsed == {Parse(buf, len) : buf \in Buffer, len \in 0..BufferSize}

Answer(packet) == IF packet.type \in Answered THEN Wire(Reply(packet.type)) ELSE <<>>

Answers(packets) == FlattenSeq([i \in DOMAIN packets |-> Answer(packets[i])])

LEMMA AnswerType ==
  ASSUME NEW packet
  PROVE  Answer(packet) \in Seq(Byte)
<1>1. CASE packet.type \in Answered
  <2>1. Sendable(Reply(packet.type))
    BY <1>1, RepliesSendable
  <2> QED
    BY <1>1, <2>1, WireShape DEF Answer
<1>2. CASE packet.type \notin Answered
  BY <1>2, EmptySeq DEF Answer
<1> QED
  BY <1>1, <1>2

LEMMA AnswersCoded ==
  /\ IsCode([packet \in Parsed |-> Answer(packet)], Parsed, Byte)
  /\ \A packets \in Seq(Parsed) :
        Answers(packets) = Coded([packet \in Parsed |-> Answer(packet)], packets)
<1>1. \A packet \in Parsed : Answer(packet) \in Seq(Byte)
  BY AnswerType
<1>2. ASSUME NEW packets \in Seq(Parsed)
      PROVE  Answers(packets) = Coded([packet \in Parsed |-> Answer(packet)], packets)
  <2>1. DOMAIN packets = 1..Len(packets) /\ \A i \in 1..Len(packets) : packets[i] \in Parsed
    BY LenProperties, ElementOfSeq
  <2>2. [i \in DOMAIN packets |-> Answer(packets[i])]
        = [i \in DOMAIN packets |-> [packet \in Parsed |-> Answer(packet)][packets[i]]]
    BY <2>1
  <2> QED
    BY <2>2 DEF Answers, Coded, Mapped
<1> QED
  BY <1>1, <1>2 DEF IsCode

LEMMA AnswersProperties ==
  ASSUME NEW packets \in Seq(Parsed)
  PROVE  /\ Answers(packets) \in Seq(Byte)
         /\ packets = <<>> => Answers(packets) = <<>>
         /\ \A packet \in Parsed :
               Answers(Append(packets, packet)) = Answers(packets) \o Answer(packet)
<1> DEFINE code == [packet \in Parsed |-> Answer(packet)]
<1>1. /\ IsCode(code, Parsed, Byte)
      /\ \A s \in Seq(Parsed) : Answers(s) = Coded(code, s)
      /\ \A packet \in Parsed : code[packet] = Answer(packet)
  BY AnswersCoded
<1> HIDE DEF code
<1>2. Answers(packets) \in Seq(Byte)
  BY <1>1, CodedType
<1>3. ASSUME packets = <<>> PROVE Answers(packets) = <<>>
  BY <1>1, <1>3, CodedEmpty
<1>4. ASSUME NEW packet \in Parsed
      PROVE  Answers(Append(packets, packet)) = Answers(packets) \o Answer(packet)
  <2>1. Append(packets, packet) \in Seq(Parsed)
    BY AppendProperties
  <2>2. Coded(code, Append(packets, packet)) = Coded(code, packets) \o code[packet]
    BY <1>1, CodedAppend
  <2> QED
    BY <1>1, <2>1, <2>2
<1> QED
  BY <1>2, <1>3, <1>4

LEMMA DueIs == Due = Hail \o Answers(got)
  BY DEF Due, Hail, Answers, Answer, Reply

-----------------------------------------------------------------------------
(* The read buffer.                                                        *)

(* The buffer is never filled further than it reaches. *)
WithinBuffer ==
    /\ want \in 0..BufferSize /\ offset \in 0..BufferSize
    /\ pc = "payload" => offset <= want

(* While a packet is read, its length stands in front of it in the buffer. *)
Prefixed ==
    pc \in {"payload", "parse"} =>
        /\ offset >= 4
        /\ want = 4 + ReadU32(readBuf, 1)
        /\ ReadU32(readBuf, 1) \in Nat

ReadInv == WithinBuffer /\ Prefixed

LEMMA ReadInvInit == Init => ReadInv
<1>1. BufferSize \in Nat
  BY BufferAssumption
<1> QED
  BY <1>1 DEF Init, ReadInv, WithinBuffer, Prefixed

(* A step that leaves the buffer alone and reads no payload. *)
LEMMA ReadKept ==
  ASSUME ReadInv, UNCHANGED <<want, offset>>, pc' \notin {"payload", "parse"}
  PROVE  ReadInv'
  BY DEF ReadInv, WithinBuffer, Prefixed

(* memcpy behind the length keeps it. *)
LEMMA OverlayKeeps ==
  ASSUME NEW buf, NEW at \in Nat, at >= 4, NEW bytes
  PROVE  ReadU32(Overlay(buf, at, bytes), 1) = ReadU32(buf, 1)
<1>1. BufferSize \in Nat /\ BufferSize >= 4
  BY BufferAssumption DEF GreetingLength
<1>2. \A i \in 1..4 : i \in 1..BufferSize /\ ~(at < i)
  BY <1>1
<1>3. \A i \in 1..4 : Overlay(buf, at, bytes)[i] = buf[i]
  BY <1>2 DEF Overlay
<1> QED
  BY <1>3 DEF ReadU32, ReadU16

(* memcpy of the length puts it there. *)
LEMMA OverlayHeader ==
  ASSUME NEW buf, NEW bytes, Len(bytes) = 4
  PROVE  ReadU32(Overlay(buf, 0, bytes), 1) = ReadU32(bytes, 1)
<1>1. BufferSize \in Nat /\ BufferSize >= 4
  BY BufferAssumption DEF GreetingLength
<1>2. \A i \in 1..4 : i \in 1..BufferSize /\ 0 < i /\ i <= 0 + Len(bytes) /\ i - 0 = i
  BY <1>1
<1>3. \A i \in 1..4 : Overlay(buf, 0, bytes)[i] = bytes[i]
  BY <1>2 DEF Overlay
<1> QED
  BY <1>3 DEF ReadU32, ReadU16

LEMMA ReadInvStep == ReadInv /\ [Next]_vars => ReadInv'
<1> SUFFICES ASSUME ReadInv, [Next]_vars PROVE ReadInv'
  OBVIOUS
<1>1. BufferSize \in Nat /\ BufferSize >= 11 /\ BufferSize < TooLong
      /\ MaxHello \in Nat /\ MaxHello <= BufferSize
  BY BufferAssumption DEF GreetingLength
<1>2. CASE UNCHANGED vars
  BY <1>2 DEF vars, readVars, ReadInv, WithinBuffer, Prefixed
<1>3. ASSUME NEW pkt \in ServerPackets, ServerSends(pkt) PROVE ReadInv'
  BY <1>3 DEF ServerSends, readVars, ReadInv, WithinBuffer, Prefixed
<1>4. ASSUME NEW hello \in Hellos, Connect(hello) PROVE ReadInv'
  BY <1>4, ReadKept DEF Connect, readVars
<1>5. CASE ConnectFails \/ HandshakeFails \/ Cleanup
  BY <1>5, ReadKept DEF ConnectFails, HandshakeFails, Cleanup, BackOff, readVars
<1>6. CASE HelloLength
  <2>1. offset' = offset /\ pc' \in {"hello", "backoff"}
    BY <1>6 DEF HelloLength, BackOff
  <2>2. want' = want \/ want' \in GreetingLength..MaxHello
    BY <1>6 DEF HelloLength
  <2>3. want' \in 0..BufferSize
    BY <1>1, <2>2 DEF GreetingLength, ReadInv, WithinBuffer
  <2> QED
    BY <2>1, <2>3 DEF ReadInv, WithinBuffer, Prefixed
<1>7. CASE Hello \/ ReadVersion
  BY <1>7, ReadKept DEF Hello, ReadVersion, BackOff
<1>8. CASE BackoffOver
  BY <1>1, <1>8 DEF BackoffOver, ReadInv, WithinBuffer, Prefixed
<1>9. CASE WriteDone
  BY <1>9, ReadKept DEF WriteDone, Sent
<1>10. ASSUME NEW n \in 0..BufferSize, WriteTorn(n) \/ WriteTimesOut(n) PROVE ReadInv'
  BY <1>10, ReadKept DEF WriteTorn, WriteTimesOut, Sent, BackOff, readVars
<1>11. ASSUME NEW n \in 1..4, ReadHeader(n) PROVE ReadInv'
  BY <1>11, ReadKept DEF ReadHeader
<1>12. CASE HeaderRead
  <2>1. CASE Declared(header) \in CodeLength..(BufferSize - 4)
    <3>1. /\ readBuf' = Overlay(readBuf, 0, header) /\ Len(header) = 4
          /\ offset' = 4 /\ want' = 4 + Declared(header) /\ pc' = "payload"
      BY <1>12, <2>1 DEF HeaderRead
    <3>2. Declared(header) = ReadU32(header, 1) /\ Declared(header) \in Nat
      BY <1>1, <2>1, SMT DEF Declared, CodeLength
    <3>3. ReadU32(readBuf', 1) = Declared(header)
      BY <3>1, <3>2, OverlayHeader
    <3>4. want' \in 0..BufferSize /\ offset' \in 0..BufferSize /\ offset' <= want'
      BY <1>1, <2>1, <3>1, <3>2 DEF CodeLength
    <3> QED
      BY <3>1, <3>2, <3>3, <3>4 DEF ReadInv, WithinBuffer, Prefixed
  <2>2. CASE Declared(header) \notin CodeLength..(BufferSize - 4)
    BY <1>12, <2>2, ReadKept DEF HeaderRead
  <2> QED
    BY <2>1, <2>2
<1>13. ASSUME NEW n \in 1..BufferSize, ReadPayload(n) PROVE ReadInv'
  <2> DEFINE bytes == SubSeq(incoming, 1, n)
  <2>1. /\ pc = "payload" /\ pc' = "payload" /\ want' = want /\ offset' = offset + n
        /\ n <= want - offset /\ readBuf' = Overlay(readBuf, offset, bytes)
    BY <1>13 DEF ReadPayload
  <2> HIDE DEF bytes
  <2>2. /\ want \in 0..BufferSize /\ offset \in 0..BufferSize /\ offset >= 4
        /\ want = 4 + ReadU32(readBuf, 1) /\ ReadU32(readBuf, 1) \in Nat
    BY <2>1 DEF ReadInv, WithinBuffer, Prefixed
  <2>3. ReadU32(readBuf', 1) = ReadU32(readBuf, 1)
    BY <2>1, <2>2, OverlayKeeps
  <2>4. offset' \in 0..BufferSize /\ offset' <= want' /\ offset' >= 4
    BY <1>1, <2>1, <2>2
  <2> QED
    BY <2>1, <2>2, <2>3, <2>4 DEF ReadInv, WithinBuffer, Prefixed
<1>14. CASE PayloadRead
  BY <1>14 DEF PayloadRead, readVars, ReadInv, WithinBuffer, Prefixed
<1>15. CASE ReadTimesOut \/ ReadFails \/ Break
  BY <1>15, ReadKept DEF ReadTimesOut, ReadFails, Break, readVars
<1>16. CASE Handle
  BY <1>16, ReadKept DEF Handle
<1> QED
  BY <1>2, <1>3, <1>4, <1>5, <1>6, <1>7, <1>8, <1>9, <1>10, <1>11, <1>12, <1>13, <1>14,
     <1>15, <1>16 DEF Next, ClientStep

(* read_packet never fills its buffer further than it reaches, nor further *)
(* than the packet does, whatever length the server declares and in        *)
(* whatever pieces it sends it.                                            *)
THEOREM BufferBounds == Spec => []WithinBuffer
<1>1. ReadInv => WithinBuffer
  BY DEF ReadInv
<1> QED
  BY <1>1, ReadInvInit, ReadInvStep, PTL DEF Spec

(* packet_parse reads nothing that the read of this packet did not write   *)
(* (ReadsOnlyWhatCame): what it asks for, type by type, covers what it     *)
(* reads, and the length it goes by is the one the packet was read with.   *)
THEOREM ParsesWhatWasRead == Spec => []ReadsOnlyWhatCame
<1>1. ASSUME ReadInv PROVE ReadsOnlyWhatCame
  <2> DEFINE type == CodeToType(SubSeq(readBuf, 5, HeaderLength))
  <2> SUFFICES ASSUME pc = "parse", Parse(readBuf, want) # Refused,
                      NEW i \in DOMAIN Fields(type)
               PROVE  HeaderLength + Fields(type)[i].at + Fields(type)[i].width <= want
    BY DEF ReadsOnlyWhatCame
  <2>1. /\ want \in Nat /\ want = 4 + ReadU32(readBuf, 1) /\ ReadU32(readBuf, 1) \in Nat
    BY <1>1, BufferAssumption DEF ReadInv, WithinBuffer, Prefixed
  <2>2. /\ Fields(type)[i].at + Fields(type)[i].width <= MinData(type)
        /\ MinData(type) \in Nat
    BY FieldsFit
  <2>3. want >= HeaderLength + MinData(type)
    BY <2>1, <2>2, ParsedIsLongEnough
  <2>4. Fields(type)[i].at \in Nat /\ Fields(type)[i].width \in Nat
    BY FieldsFit
  <2> HIDE DEF type
  <2> QED
    BY <2>1, <2>2, <2>3, <2>4 DEF HeaderLength, CodeLength
<1> QED
  BY <1>1, ReadInvInit, ReadInvStep, PTL DEF Spec

-----------------------------------------------------------------------------
(* What the variables hold.                                                *)

Controls == pc \in Pcs /\ open \in BOOLEAN /\ stalled \in BOOLEAN

BackoffTyped == retry \in Retry /\ delay \in 0..MaxDelay

ReadTyped ==
    /\ incoming \in Seq(Byte) /\ readBuf \in Buffer
    /\ header \in Seq(Byte) /\ Len(header) <= 4

WriteTyped == received \in Seq(Byte) /\ writeBuf \in Buffer /\ length \in 0..BufferSize

TotalTyped == total \in 0..MaxSent

History == sent \in Seq(ServerPackets) /\ got \in Seq(Parsed)

LEMMA ControlsStep == Controls /\ [Next]_vars => Controls'
<1> SUFFICES ASSUME Controls, [Next]_vars PROVE Controls'
  OBVIOUS
<1> USE DEF Pcs, Handshake, Session
<1>1. CASE UNCHANGED vars
  BY <1>1 DEF vars, connectionVars, ghostVars, Controls
<1>2. ASSUME NEW pkt \in ServerPackets, ServerSends(pkt) PROVE Controls'
  BY <1>2 DEF ServerSends, Controls
<1>3. ASSUME NEW hello \in Hellos, Connect(hello) PROVE Controls'
  BY <1>3 DEF Connect, ghostVars, Controls
<1>4. CASE ConnectFails \/ HelloLength \/ Hello \/ ReadVersion
  BY <1>4 DEF ConnectFails, HelloLength, Hello, ReadVersion, BackOff, connectionVars,
     ghostVars, Controls
<1>5. CASE HandshakeFails
  BY <1>5 DEF HandshakeFails, BackOff, ghostVars, Controls
<1>6. CASE BackoffOver \/ WriteDone
  BY <1>6 DEF BackoffOver, WriteDone, Sent, ghostVars, Controls
<1>7. ASSUME NEW n \in 0..BufferSize, WriteTorn(n) \/ WriteTimesOut(n) PROVE Controls'
  BY <1>7 DEF WriteTorn, WriteTimesOut, Sent, BackOff, ghostVars, Controls
<1>8. ASSUME NEW n \in 1..4, ReadHeader(n) PROVE Controls'
  BY <1>8 DEF ReadHeader, ghostVars, Controls
<1>9. ASSUME NEW n \in 1..BufferSize, ReadPayload(n) PROVE Controls'
  BY <1>9 DEF ReadPayload, ghostVars, Controls
<1>10. CASE HeaderRead \/ PayloadRead
  BY <1>10 DEF HeaderRead, PayloadRead, connectionVars, ghostVars, Controls
<1>11. CASE ReadTimesOut
  <2>1. stalled' \in BOOLEAN
    BY <1>11 DEF ReadTimesOut
  <2> QED
    BY <1>11, <2>1 DEF ReadTimesOut, connectionVars, Controls
<1>12. CASE ReadFails \/ Break
  BY <1>12 DEF ReadFails, Break, connectionVars, ghostVars, Controls
<1>13. CASE Handle
  BY <1>13 DEF Handle, connectionVars, Controls
<1>14. CASE Cleanup
  BY <1>14 DEF Cleanup, BackOff, ghostVars, Controls
<1> QED
  BY <1>1, <1>2, <1>3, <1>4, <1>5, <1>6, <1>7, <1>8, <1>9, <1>10, <1>11, <1>12, <1>13, <1>14
     DEF Next, ClientStep

LEMMA BackoffTypedStep == BackoffTyped /\ [Next]_vars => BackoffTyped'
<1> SUFFICES ASSUME BackoffTyped, [Next]_vars PROVE BackoffTyped'
  OBVIOUS
<1>1. CASE UNCHANGED backoffVars
  BY <1>1 DEF backoffVars, BackoffTyped
<1>2. CASE BackOff
  BY <1>2, BackoffRange, CountedType DEF BackOff, BackoffTyped
<1>3. CASE Sent
  BY <1>3, NoRetryYet DEF Sent, BackoffTyped
<1>4. CASE BackoffOver
  BY <1>4, NoRetryYet DEF BackoffOver, BackoffTyped
<1>5. UNCHANGED backoffVars \/ BackOff \/ Sent \/ BackoffOver
  BY DEF Next, ClientStep, vars, ServerSends, Connect, ConnectFails, HelloLength, Hello,
     ReadVersion, HandshakeFails, WriteDone, WriteTorn, WriteTimesOut, ReadHeader, HeaderRead,
     ReadPayload, PayloadRead, ReadTimesOut, ReadFails, Break, Handle, Cleanup
<1> QED
  BY <1>1, <1>2, <1>3, <1>4, <1>5

LEMMA TotalStep == TotalTyped /\ [Next]_vars => TotalTyped'
<1> SUFFICES ASSUME TotalTyped, [Next]_vars PROVE TotalTyped'
  OBVIOUS
<1>1. ASSUME NEW pkt \in ServerPackets, ServerSends(pkt) PROVE TotalTyped'
  BY <1>1, StreamAssumption DEF ServerSends, TotalTyped
<1>2. CASE UNCHANGED total
  BY <1>2 DEF TotalTyped
<1>3. UNCHANGED total \/ \E pkt \in ServerPackets : ServerSends(pkt)
  BY DEF Next, ClientStep, vars, Connect, ConnectFails, HelloLength, Hello, Sent, BackoffOver,
     ReadVersion, HandshakeFails, WriteDone, WriteTorn, WriteTimesOut, ReadHeader, HeaderRead,
     ReadPayload, PayloadRead, ReadTimesOut, ReadFails, Break, Handle, Cleanup, ghostVars
<1> QED
  BY <1>1, <1>2, <1>3

LEMMA HistoryStep == History /\ ReadTyped /\ WithinBuffer /\ [Next]_vars => History'
<1> SUFFICES ASSUME History, ReadTyped, WithinBuffer, [Next]_vars PROVE History'
  OBVIOUS
<1>1. ASSUME NEW pkt \in ServerPackets, ServerSends(pkt) PROVE History'
  BY <1>1, AppendProperties DEF ServerSends, History
<1>2. CASE Handle
  <2>1. Parse(readBuf, want) \in Parsed
    BY DEF Parsed, ReadTyped, WithinBuffer
  <2>2. PICK p \in Parsed : p = Parse(readBuf, want)
    BY <2>1
  <2>3. got' = Append(got, p) /\ sent' = sent
    BY <1>2, <2>2 DEF Handle
  <2> QED
    BY <2>3, AppendProperties DEF History
<1>3. CASE BackoffOver
  BY <1>3, EmptySeq DEF BackoffOver, History
<1>4. CASE UNCHANGED <<sent, got>>
  BY <1>4 DEF History
<1>5. \/ UNCHANGED <<sent, got>> \/ Handle \/ BackoffOver
      \/ \E pkt \in ServerPackets : ServerSends(pkt)
  BY DEF Next, ClientStep, vars, Connect, ConnectFails, HelloLength, Hello, Sent,
     ReadVersion, HandshakeFails, WriteDone, WriteTorn, WriteTimesOut, ReadHeader, HeaderRead,
     ReadPayload, PayloadRead, ReadTimesOut, ReadFails, Break, Cleanup, ghostVars
<1> QED
  BY <1>1, <1>2, <1>3, <1>4, <1>5

LEMMA SmallReads == 4 <= BufferSize /\ BufferSize \in Nat
  BY BufferAssumption DEF GreetingLength

(* tls_read_full *)
LEMMA FullRead ==
  ASSUME ReadTyped, NEW n \in 0..BufferSize, TlsReadFull(n)
  PROVE  /\ incoming' \in Seq(Byte) /\ Len(incoming') = Len(incoming) - n /\ n <= Len(incoming)
         /\ readBuf' \in Buffer
         /\ \A i \in 1..n : readBuf'[i] = incoming[i]
         /\ \A i \in 1..(Len(incoming) - n) : incoming'[i] = incoming[n + i]
<1>1. incoming \in Seq(Byte) /\ readBuf \in Buffer /\ Len(incoming) \in Nat
  BY LenProperties DEF ReadTyped
<1>2. PICK s \in Seq(Byte) : s = incoming
  BY <1>1
<1>3. n \in 0..Len(s) /\ n <= Len(incoming)
  BY <1>1, <1>2 DEF TlsReadFull
<1>4. /\ SubSeq(s, 1, n) \in Seq(Byte) /\ Len(SubSeq(s, 1, n)) = n
      /\ SubSeq(s, n + 1, Len(s)) \in Seq(Byte) /\ Len(SubSeq(s, n + 1, Len(s))) = Len(s) - n
      /\ \A i \in 1..n : SubSeq(s, 1, n)[i] = s[i]
      /\ \A i \in 1..(Len(s) - n) : SubSeq(s, n + 1, Len(s))[i] = s[n + i]
  BY <1>3, TakeOff
<1>5. PICK t \in Seq(Byte) : t = SubSeq(s, 1, n)
  BY <1>4
<1>6. Len(t) = n /\ Len(t) <= BufferSize
  BY <1>4, <1>5, SmallReads
<1>7. PICK buf \in Buffer : buf = readBuf
  BY <1>1
<1>8. /\ Overlay(buf, 0, t) \in Buffer
      /\ \A i \in 1..Len(t) : Overlay(buf, 0, t)[i] = t[i]
  BY <1>6, OverlayFront
<1>9. readBuf' = Overlay(buf, 0, t) /\ incoming' = SubSeq(s, n + 1, Len(s))
  BY <1>2, <1>5, <1>7 DEF TlsReadFull
<1>10. \A i \in 1..n : readBuf'[i] = incoming[i]
  BY <1>2, <1>4, <1>5, <1>6, <1>8, <1>9
<1> QED
  BY <1>2, <1>3, <1>4, <1>8, <1>9, <1>10

(* A read of the header, or of the payload. *)
LEMMA PartRead ==
  ASSUME NEW s \in Seq(Byte), NEW n \in Nat, n <= Len(s)
  PROVE  /\ SubSeq(s, 1, n) \in Seq(Byte) /\ Len(SubSeq(s, 1, n)) = n
         /\ SubSeq(s, n + 1, Len(s)) \in Seq(Byte)
         /\ SubSeq(s, 1, n) \o SubSeq(s, n + 1, Len(s)) = s
<1>1. n \in 0..Len(s)
  BY LenProperties
<1> QED
  BY <1>1, TakeOff

LEMMA HeaderGrows ==
  ASSUME ReadTyped, NEW n \in 1..4, ReadHeader(n)
  PROVE  /\ header' \in Seq(Byte) /\ Len(header') <= 4 /\ incoming' \in Seq(Byte)
         /\ header' \o incoming' = header \o incoming /\ header' # <<>>
<1>1. PICK s \in Seq(Byte), h \in Seq(Byte) : s = incoming /\ h = header /\ Len(h) <= 4
  BY DEF ReadTyped
<1>2. Len(s) \in Nat /\ Len(h) \in Nat
  BY LenProperties
<1>3. n \in Nat /\ n <= Len(s) /\ n <= 4 - Len(h)
  BY <1>1 DEF ReadHeader
<1>4. PICK t \in Seq(Byte), u \in Seq(Byte) :
          t = SubSeq(s, 1, n) /\ u = SubSeq(s, n + 1, Len(s)) /\ Len(t) = n /\ t \o u = s
  BY <1>3, PartRead, ZenonT(30)
<1>5. header' = h \o t /\ incoming' = u
  BY <1>1, <1>4 DEF ReadHeader
<1>6. h \o t \in Seq(Byte) /\ Len(h \o t) = Len(h) + Len(t)
  BY Halves
<1>7. Len(h \o t) <= 4 /\ Len(h \o t) # 0
  BY <1>2, <1>3, <1>4, <1>6
<1>8. (h \o t) \o u = h \o (t \o u)
  BY ConcatAssociative, SMTT(60)
<1>9. h \o t # <<>>
  BY <1>7, EmptySeq
<1> QED
  BY <1>1, <1>4, <1>5, <1>6, <1>7, <1>8, <1>9

LEMMA PayloadGrows ==
  ASSUME ReadTyped, WithinBuffer, NEW n \in 1..BufferSize, ReadPayload(n)
  PROVE  /\ readBuf' \in Buffer /\ incoming' \in Seq(Byte) /\ offset' = offset + n
         /\ offset' <= want
         /\ SubSeq(readBuf', 1, offset') \o incoming' = SubSeq(readBuf, 1, offset) \o incoming
<1>1. PICK s \in Seq(Byte), b \in Buffer : s = incoming /\ b = readBuf
  BY DEF ReadTyped
<1>2. Len(s) \in Nat
  BY LenProperties
<1>3. PICK at \in 0..BufferSize : at = offset
  BY DEF WithinBuffer
<1>4. /\ n \in Nat /\ n <= Len(s) /\ n <= want - at /\ want \in 0..BufferSize
      /\ BufferSize \in Nat
  BY <1>1, <1>3, SmallReads DEF ReadPayload, WithinBuffer
<1>5. PICK t \in Seq(Byte), u \in Seq(Byte) :
          t = SubSeq(s, 1, n) /\ u = SubSeq(s, n + 1, Len(s)) /\ Len(t) = n /\ t \o u = s
  BY <1>4, PartRead, ZenonT(30)
<1>6. readBuf' = Overlay(b, at, t) /\ incoming' = u /\ offset' = at + n
  BY <1>1, <1>3, <1>5 DEF ReadPayload
<1>7. at \in Nat /\ at + Len(t) <= BufferSize /\ at + n <= want
  BY <1>4, <1>5
<1>8. /\ Overlay(b, at, t) \in Buffer
      /\ SubSeq(Overlay(b, at, t), 1, at + Len(t)) = SubSeq(b, 1, at) \o t
  BY <1>7, OverlayShape
<1>9. PICK f \in Seq(Byte) : f = SubSeq(b, 1, at)
  BY BufferSub
<1>10. (f \o t) \o u = f \o (t \o u)
  BY ConcatAssociative, SMTT(60)
<1> QED
  BY <1>1, <1>3, <1>5, <1>6, <1>7, <1>8, <1>9, <1>10

LEMMA HeaderPutInFront ==
  ASSUME ReadTyped, HeaderRead
  PROVE  /\ readBuf' \in Buffer
         /\ pc' = "payload" => SubSeq(readBuf', 1, offset') = header /\ offset' = 4
                               /\ want' = 4 + Declared(header) /\ Len(header) = 4
<1>1. PICK h \in Seq(Byte), b \in Buffer : h = header /\ b = readBuf /\ Len(h) = 4
  BY DEF ReadTyped, HeaderRead
<1>2. Overlay(b, 0, h) \in Buffer /\ SubSeq(Overlay(b, 0, h), 1, Len(h)) = h
  BY <1>1, SmallReads, OverlayFront
<1>3. CASE Declared(header) \in CodeLength..(BufferSize - 4)
  <2>1. readBuf' = Overlay(b, 0, h) /\ offset' = 4 /\ want' = 4 + Declared(header)
    BY <1>1, <1>3 DEF HeaderRead
  <2> QED
    BY <1>1, <1>2, <2>1
<1>4. CASE Declared(header) \notin CodeLength..(BufferSize - 4)
  <2>1. readBuf' = b /\ pc' = "cleanup"
    BY <1>1, <1>4 DEF HeaderRead
  <2> QED
    BY <1>1, <2>1
<1> QED
  BY <1>3, <1>4

LEMMA ReadTypedStep == ReadTyped /\ WithinBuffer /\ [Next]_vars => ReadTyped'
<1> SUFFICES ASSUME ReadTyped, WithinBuffer, [Next]_vars PROVE ReadTyped'
  OBVIOUS
<1>1. CASE UNCHANGED <<incoming, readBuf, header>>
  BY <1>1 DEF ReadTyped
<1>2. ASSUME NEW pkt \in ServerPackets, ServerSends(pkt) PROVE ReadTyped'
  <2>1. Wire(pkt) \in Seq(Byte)
    <3>1. Sendable(pkt)
      BY ServersPackets DEF WellFormed
    <3> QED
      BY <3>1, WireShape
  <2>2. PICK s \in Seq(Byte), w \in Seq(Byte) : s = incoming /\ w = Wire(pkt)
    BY <2>1 DEF ReadTyped
  <2>3. s \o w \in Seq(Byte)
    BY Halves
  <2>4. incoming' = s \o w /\ UNCHANGED <<readBuf, header>>
    BY <1>2, <2>2 DEF ServerSends, readVars
  <2> QED
    BY <2>3, <2>4 DEF ReadTyped
<1>3. ASSUME NEW hello \in Hellos, Connect(hello) PROVE ReadTyped'
  BY <1>3, StreamAssumption DEF Connect, readVars, ReadTyped
<1>4. CASE \E n \in 0..BufferSize : TlsReadFull(n) /\ UNCHANGED header
  <2>1. PICK n \in 0..BufferSize : TlsReadFull(n) /\ UNCHANGED header
    BY <1>4
  <2> QED
    BY <2>1, FullRead DEF ReadTyped
<1>5. CASE UNCHANGED <<incoming, readBuf>> /\ header' = <<>>
  BY <1>5, EmptySeq DEF ReadTyped
<1>6. CASE BackoffOver
  BY <1>6, EmptySeq DEF BackoffOver, ReadTyped
<1>7. ASSUME NEW n \in 1..4, ReadHeader(n) PROVE ReadTyped'
  <2>1. readBuf' = readBuf
    BY <1>7 DEF ReadHeader
  <2> QED
    BY <1>7, <2>1, HeaderGrows DEF ReadTyped
<1>8. ASSUME NEW n \in 1..BufferSize, ReadPayload(n) PROVE ReadTyped'
  <2>1. header' = header
    BY <1>8 DEF ReadPayload
  <2> QED
    BY <1>8, <2>1, PayloadGrows DEF ReadTyped
<1>9. CASE HeaderRead
  <2>1. header' = header /\ incoming' = incoming
    BY <1>9 DEF HeaderRead, connectionVars
  <2> QED
    BY <1>9, <2>1, HeaderPutInFront DEF ReadTyped
<1>10. \/ UNCHANGED <<incoming, readBuf, header>>
       \/ \E n \in {4, want} : TlsReadFull(n) /\ UNCHANGED header
       \/ UNCHANGED <<incoming, readBuf>> /\ header' = <<>>
       \/ BackoffOver \/ HeaderRead
       \/ \E pkt \in ServerPackets : ServerSends(pkt)
       \/ \E hello \in Hellos : Connect(hello)
       \/ \E n \in 1..4 : ReadHeader(n)
       \/ \E n \in 1..BufferSize : ReadPayload(n)
  BY DEF Next, ClientStep, vars, ConnectFails, HelloLength, Hello, Sent,
     ReadVersion, HandshakeFails, WriteDone, WriteTorn, WriteTimesOut,
     PayloadRead, ReadTimesOut, ReadFails, Break, Cleanup, Handle, readVars, connectionVars
<1>11. 4 \in 0..BufferSize /\ want \in 0..BufferSize
  BY SmallReads DEF WithinBuffer
<1> QED
  BY <1>1, <1>2, <1>3, <1>4, <1>5, <1>6, <1>7, <1>8, <1>9, <1>10, <1>11

(* The control of a session's beginning. *)
Fresh ==
    pc \in {"connect", "writehello"} \cup Handshake =>
        sent = <<>> /\ got = <<>> /\ received = <<>> /\ ~stalled

(* In the middle of a packet the connection is open; one that a torn write *)
(* closed gives no bytes any more.                                         *)
Connected ==
    /\ pc \in {"payload", "parse"} => open
    /\ pc = "header" /\ ~open => header = <<>>

LEMMA FreshStep == Fresh /\ [Next]_vars => Fresh'
<1> SUFFICES ASSUME Fresh, [Next]_vars PROVE Fresh'
  OBVIOUS
<1> USE DEF Handshake, Fresh
<1>1. CASE UNCHANGED vars
  BY <1>1 DEF vars, connectionVars, ghostVars
<1>2. ASSUME NEW pkt \in ServerPackets, ServerSends(pkt) PROVE Fresh'
  BY <1>2 DEF ServerSends, Session
<1>3. ASSUME NEW hello \in Hellos, Connect(hello) PROVE Fresh'
  BY <1>3 DEF Connect, ghostVars
<1>4. CASE HelloLength \/ Hello \/ ReadVersion
  BY <1>4 DEF HelloLength, Hello, ReadVersion, BackOff, ghostVars
<1>5. CASE BackoffOver
  BY <1>5 DEF BackoffOver
<1>6. CASE pc' \in {"backoff", "cleanup", "header", "payload", "parse", "write"}
  BY <1>6
<1>7. \/ pc' \in {"backoff", "cleanup", "header", "payload", "parse", "write"}
      \/ UNCHANGED vars \/ HelloLength \/ Hello \/ ReadVersion \/ BackoffOver
      \/ \E pkt \in ServerPackets : ServerSends(pkt)
      \/ \E hello \in Hellos : Connect(hello)
  BY DEF Next, ClientStep, ConnectFails, HandshakeFails, BackOff, WriteDone, WriteTorn,
     WriteTimesOut, Sent, ReadHeader, HeaderRead, ReadPayload, PayloadRead, ReadTimesOut,
     ReadFails, Break, Handle, Cleanup
<1> QED
  BY <1>1, <1>2, <1>3, <1>4, <1>5, <1>6, <1>7

LEMMA ConnectedStep == Controls /\ Connected /\ [Next]_vars => Connected'
<1> SUFFICES ASSUME Controls, Connected, [Next]_vars PROVE Connected'
  OBVIOUS
<1> USE DEF Connected
<1>1. CASE UNCHANGED vars
  BY <1>1 DEF vars, connectionVars, readVars
<1>2. ASSUME NEW pkt \in ServerPackets, ServerSends(pkt) PROVE Connected'
  BY <1>2 DEF ServerSends, readVars
<1>3. CASE pc' \notin {"header", "payload", "parse"}
  BY <1>3
<1>4. CASE WriteDone
  BY <1>4 DEF WriteDone, Sent
<1>5. ASSUME NEW n \in 0..BufferSize, WriteTorn(n) \/ WriteTimesOut(n) PROVE Connected'
  BY <1>5 DEF WriteTorn, WriteTimesOut, Sent, BackOff
<1>6. ASSUME NEW n \in 1..4, ReadHeader(n) PROVE Connected'
  BY <1>6 DEF ReadHeader
<1>7. ASSUME NEW n \in 1..BufferSize, ReadPayload(n) PROVE Connected'
  BY <1>7 DEF ReadPayload
<1>8. CASE HeaderRead
  <2>1. pc = "header" /\ Len(header) = 4 /\ open' = open
    BY <1>8 DEF HeaderRead, connectionVars
  <2>2. header # <<>>
    BY <2>1, EmptySeq
  <2>3. open
    BY <2>1, <2>2 DEF Controls
  <2>4. pc' # "header"
    BY <1>8 DEF HeaderRead
  <2> QED
    BY <2>1, <2>3, <2>4
<1>9. CASE PayloadRead \/ ReadTimesOut
  BY <1>9 DEF PayloadRead, ReadTimesOut, connectionVars
<1>10. CASE Handle
  BY <1>10 DEF Handle, connectionVars
<1>11. \/ pc' \notin {"header", "payload", "parse"}
       \/ UNCHANGED vars \/ WriteDone \/ HeaderRead \/ PayloadRead \/ ReadTimesOut \/ Handle
       \/ \E pkt \in ServerPackets : ServerSends(pkt)
       \/ \E n \in 0..BufferSize : WriteTorn(n) \/ WriteTimesOut(n)
       \/ \E n \in 1..4 : ReadHeader(n)
       \/ \E n \in 1..BufferSize : ReadPayload(n)
  BY DEF Next, ClientStep, Connect, ConnectFails, HelloLength, Hello, ReadVersion,
     HandshakeFails, BackoffOver, BackOff, ReadFails, Break, Cleanup
<1> QED
  BY <1>1, <1>2, <1>3, <1>4, <1>5, <1>6, <1>7, <1>8, <1>9, <1>10, <1>11

-----------------------------------------------------------------------------
(* What is written.                                                        *)

DueFor(packets) == Hail \o Answers(packets)

Owed ==
    /\ IsPrefix(received, DueFor(got))
    /\ open /\ pc \in {"header", "payload", "parse"} => received = DueFor(got)
    /\ pc \in Writing => received \o SubSeq(writeBuf, 1, length) = DueFor(got)

LEMMA DueIsFor == Due = DueFor(got)
  BY DueIs DEF DueFor

LEMMA DueType ==
  ASSUME NEW packets \in Seq(Parsed)
  PROVE  /\ DueFor(packets) \in Seq(Byte)
         /\ packets = <<>> => DueFor(packets) = Hail
         /\ \A packet \in Parsed :
               DueFor(Append(packets, packet)) = DueFor(packets) \o Answer(packet)
<1>1. Hail \in Seq(Byte)
  BY HailShape
<1>2. Answers(packets) \in Seq(Byte)
  BY AnswersProperties
<1>3. PICK h \in Seq(Byte), a \in Seq(Byte) : h = Hail /\ a = Answers(packets)
  BY <1>1, <1>2
<1>4. h \o a \in Seq(Byte)
  BY Halves
<1>5. ASSUME packets = <<>> PROVE DueFor(packets) = Hail
  <2>1. a = <<>>
    BY <1>3, <1>5, AnswersProperties
  <2>2. h \o <<>> = h
    BY ConcatEmptySeq
  <2> QED
    BY <1>3, <2>1, <2>2 DEF DueFor
<1>6. ASSUME NEW packet \in Parsed
      PROVE  DueFor(Append(packets, packet)) = DueFor(packets) \o Answer(packet)
  <2>1. Answers(Append(packets, packet)) = a \o Answer(packet)
    BY <1>3, AnswersProperties
  <2>2. PICK b \in Seq(Byte) : b = Answer(packet)
    BY AnswerType
  <2>3. (h \o a) \o b = h \o (a \o b)
    BY ConcatAssociative, SMTT(60)
  <2> QED
    BY <1>3, <2>1, <2>2, <2>3 DEF DueFor
<1> QED
  BY <1>3, <1>4, <1>5, <1>6 DEF DueFor

(* What stands in the write buffer after packet_serialize, or the hello. *)
LEMMA Put ==
  ASSUME writeBuf \in Buffer, NEW bytes \in Seq(Byte), Len(bytes) <= BufferSize, Send(bytes)
  PROVE  /\ writeBuf' \in Buffer /\ length' \in 0..BufferSize
         /\ SubSeq(writeBuf', 1, length') = bytes
<1>1. PICK b \in Buffer : b = writeBuf
  OBVIOUS
<1>2. /\ Overlay(b, 0, bytes) \in Buffer /\ SubSeq(Overlay(b, 0, bytes), 1, Len(bytes)) = bytes
  BY OverlayFront
<1>3. writeBuf' = Overlay(b, 0, bytes) /\ length' = Len(bytes)
  BY <1>1 DEF Send
<1>4. Len(bytes) \in 0..BufferSize
  BY LenProperties, SmallReads
<1> QED
  BY <1>2, <1>3, <1>4

(* What packet_parse made of the buffer is answered as it is due. *)
LEMMA AnswerPut ==
  ASSUME WriteTyped, NEW packet, packet.type \in Answered,
         Send(Serialize(ReplyTo(packet.type), writeBuf))
  PROVE  /\ writeBuf' \in Buffer /\ length' \in 0..BufferSize
         /\ SubSeq(writeBuf', 1, length') = Answer(packet)
<1>1. writeBuf \in Buffer /\ writeBuf \in [1..BufferSize -> Byte]
  BY DEF WriteTyped, Buffer
<1>2. PICK type \in Answered : type = packet.type
  OBVIOUS
<1>3. PICK b \in [1..BufferSize -> Byte] : b = writeBuf
  BY <1>1
<1>4. /\ Serialize(ReplyTo(type), b) = Wire(Reply(type))
      /\ Wire(Reply(type)) \in Seq(Byte) /\ Len(Wire(Reply(type))) <= BufferSize
  BY RepliesSerialized
<1>5. PICK w \in Seq(Byte) : w = Wire(Reply(type)) /\ Len(w) <= BufferSize
  BY <1>4
<1>6. Send(w)
  BY <1>2, <1>3, <1>4, <1>5
<1>7. /\ writeBuf' \in Buffer /\ length' \in 0..BufferSize
      /\ SubSeq(writeBuf', 1, length') = w
  BY <1>1, <1>5, <1>6, Put
<1>8. Answer(packet) = w
  BY <1>2, <1>5 DEF Answer
<1> QED
  BY <1>7, <1>8

LEMMA HelloPut ==
  ASSUME WriteTyped, Send(ClientHello)
  PROVE  /\ writeBuf' \in Buffer /\ length' \in 0..BufferSize
         /\ SubSeq(writeBuf', 1, length') = Hail
<1>1. PICK w \in Seq(Byte) : w = Hail /\ w = ClientHello /\ Len(w) <= BufferSize
  BY HailShape
<1>2. Send(w) /\ writeBuf \in Buffer
  BY <1>1 DEF WriteTyped
<1> QED
  BY <1>1, <1>2, Put

(* What is delivered of the write buffer. *)
LEMMA Delivery ==
  ASSUME WriteTyped, NEW n \in 0..length, Delivered(n)
  PROVE  /\ received' \in Seq(Byte)
         /\ n = length => received' = received \o SubSeq(writeBuf, 1, length)
         /\ IsPrefix(received', received \o SubSeq(writeBuf, 1, length))
<1>1. PICK r \in Seq(Byte), b \in Buffer, l \in 0..BufferSize :
          r = received /\ b = writeBuf /\ l = length
  BY DEF WriteTyped
<1>2. PICK s \in Seq(Byte) : s = SubSeq(b, 1, l) /\ Len(s) = l /\ \A i \in 1..l : s[i] = b[i]
  BY BufferSub
<1>3. n \in 0..Len(s) /\ n \in 0..BufferSize /\ n \in Nat /\ n <= Len(s)
  BY <1>1, <1>2, SmallReads
<1>4. PICK t \in Seq(Byte), u \in Seq(Byte) :
          t = SubSeq(s, 1, n) /\ u = SubSeq(s, n + 1, Len(s)) /\ t \o u = s
          /\ Len(t) = n /\ \A i \in 1..n : t[i] = s[i]
  BY <1>3, TakeOff, ZenonT(30)
<1>5. PICK v \in Seq(Byte) : v = SubSeq(b, 1, n) /\ Len(v) = n /\ \A i \in 1..n : v[i] = b[i]
  BY <1>3, BufferSub
<1>6. v = t
  <2>1. \A i \in 1..n : i \in 1..l
    BY <1>1, <1>2, <1>3
  <2>2. \A i \in 1..Len(v) : v[i] = t[i]
    BY <1>2, <1>4, <1>5, <2>1
  <2>3. Len(v) = Len(t)
    BY <1>4, <1>5
  <2> QED
    BY <2>2, <2>3, SeqEqual
<1>7. received' = r \o t
  BY <1>1, <1>5, <1>6 DEF Delivered
<1>8. PICK x \in Seq(Byte) : x = r \o t
  <2>1. r \o t \in Seq(Byte)
    BY Halves
  <2> QED
    BY <2>1
<1>9. x \o u = r \o s
  <2>1. (r \o t) \o u = r \o (t \o u)
    BY ConcatAssociative, SMTT(60)
  <2> QED
    BY <1>4, <1>8, <2>1
<1>10. IsPrefix(x, x \o u)
  BY PrefixOfConcat
<1>11. n = length => r \o t = r \o s
  BY <1>1, <1>2, <1>5, <1>6
<1> QED
  BY <1>1, <1>2, <1>7, <1>8, <1>9, <1>10, <1>11

LEMMA WriteTypedStep == WriteTyped /\ [Next]_vars => WriteTyped'
<1> SUFFICES ASSUME WriteTyped, [Next]_vars PROVE WriteTyped'
  OBVIOUS
<1>1. CASE UNCHANGED <<received, writeBuf, length>>
  BY <1>1 DEF WriteTyped
<1>2. CASE Send(ClientHello) /\ UNCHANGED received
  BY <1>2, HelloPut DEF WriteTyped
<1>3. CASE BackoffOver
  BY <1>3, EmptySeq, SmallReads DEF BackoffOver, WriteTyped
<1>4. ASSUME NEW n \in 0..length, Delivered(n), UNCHANGED writeVars PROVE WriteTyped'
  <2>1. received' \in Seq(Byte)
    BY <1>4, Delivery
  <2> QED
    BY <1>4, <2>1 DEF writeVars, WriteTyped
<1>5. CASE Handle
  <2> DEFINE packet == Parse(readBuf, want)
  <2>1. CASE packet.type \in Answered
    <3>1. Send(Serialize(ReplyTo(packet.type), writeBuf)) /\ received' = received
      BY <1>5, <2>1 DEF Handle, connectionVars
    <3> HIDE DEF packet
    <3>2. writeBuf' \in Buffer /\ length' \in 0..BufferSize
      BY <2>1, <3>1, AnswerPut
    <3> QED
      BY <3>1, <3>2 DEF WriteTyped
  <2>2. CASE packet.type \notin Answered
    BY <1>5, <2>2 DEF Handle, connectionVars, writeVars, WriteTyped
  <2> QED
    BY <2>1, <2>2
<1>6. CASE WriteDone
  <2>1. length \in 0..length
    BY DEF WriteTyped
  <2> QED
    BY <1>4, <1>6, <2>1 DEF WriteDone, Sent
<1>7. ASSUME NEW n \in 0..BufferSize, WriteTorn(n) \/ WriteTimesOut(n) PROVE WriteTyped'
  <2>1. n < length
    BY <1>7 DEF WriteTorn, WriteTimesOut
  <2>2. n \in 0..length
    BY <2>1 DEF WriteTyped
  <2>3. Delivered(n) /\ UNCHANGED writeVars
    BY <1>7 DEF WriteTorn, WriteTimesOut, Sent
  <2> QED
    BY <1>4, <2>2, <2>3
<1>8. \/ UNCHANGED <<received, writeBuf, length>>
      \/ Send(ClientHello) /\ UNCHANGED received
      \/ BackoffOver \/ Handle \/ WriteDone
      \/ \E n \in 0..BufferSize : WriteTorn(n) \/ WriteTimesOut(n)
  BY DEF Next, ClientStep, vars, ServerSends, Connect, ConnectFails, HelloLength, Hello,
     ReadVersion, HandshakeFails, ReadHeader, HeaderRead, ReadPayload, PayloadRead,
     ReadTimesOut, ReadFails, Break, Cleanup, writeVars, connectionVars
<1> QED
  BY <1>1, <1>2, <1>3, <1>5, <1>6, <1>7, <1>8

LEMMA NothingIsPrefix ==
  ASSUME NEW A, NEW s \in Seq(A)
  PROVE  IsPrefix(<<>>, s) /\ IsPrefix(s, s)
<1>1. <<>> \in Seq(A) /\ <<>> \o s = s /\ s \o <<>> = s
  BY EmptySeq, ConcatEmptySeq
<1>2. IsPrefix(<<>>, <<>> \o s) /\ IsPrefix(s, s \o <<>>)
  BY <1>1, PrefixOfConcat
<1> QED
  BY <1>1, <1>2

LEMMA OwedStep ==
  Owed /\ WriteTyped /\ History /\ ReadTyped /\ WithinBuffer /\ Controls /\ Fresh /\ Connected
  /\ [Next]_vars => Owed'
<1> SUFFICES ASSUME Owed, WriteTyped, History, ReadTyped, WithinBuffer, Controls, Fresh,
                    Connected, [Next]_vars
             PROVE  Owed'
  OBVIOUS
<1> DEFINE Between == {"header", "payload", "parse"}
<1>0. /\ DueFor(got) \in Seq(Byte)
      /\ got = <<>> => DueFor(got) = Hail
      /\ \A packet \in Parsed :
            DueFor(Append(got, packet)) = DueFor(got) \o Answer(packet)
  <2>1. got \in Seq(Parsed)
    BY DEF History
  <2> QED
    BY <2>1, DueType
<1>1. CASE UNCHANGED <<received, got>> /\ pc' \notin Between \cup Writing
  BY <1>1 DEF Owed
<1>2. CASE UNCHANGED <<pc, open, received, got, writeBuf, length>>
  BY <1>2 DEF Owed
<1>3. CASE HeaderRead \/ PayloadRead \/ ReadTimesOut
  <2>1. pc \in Between /\ pc' \notin Writing
    BY <1>3 DEF HeaderRead, PayloadRead, ReadTimesOut, Writing
  <2>2. UNCHANGED <<open, received, got>>
    BY <1>3 DEF HeaderRead, PayloadRead, ReadTimesOut, connectionVars, ghostVars
  <2> QED
    BY <2>1, <2>2 DEF Owed
<1>4. CASE Send(ClientHello) /\ pc \in Handshake /\ pc' = "writehello"
           /\ UNCHANGED <<received, got>>
  <2>1. received = <<>> /\ got = <<>>
    BY <1>4 DEF Fresh
  <2>2. SubSeq(writeBuf', 1, length') = Hail /\ DueFor(got) = Hail
    BY <1>0, <1>4, <2>1, HelloPut
  <2>3. <<>> \o Hail = Hail
    BY HailShape, ConcatEmptySeq
  <2>4. received' = <<>> /\ got' = got /\ pc' \notin Between
    BY <1>4, <2>1
  <2>5. IsPrefix(<<>>, Hail)
    BY HailShape, NothingIsPrefix
  <2> QED
    BY <2>2, <2>3, <2>4, <2>5 DEF Owed
<1>5. CASE BackoffOver
  <2>1. received' = <<>> /\ got' = <<>> /\ pc' = "connect"
    BY <1>5 DEF BackoffOver
  <2>2. DueFor(<<>>) \in Seq(Byte)
    BY EmptySeq, DueType
  <2>3. IsPrefix(<<>>, DueFor(<<>>))
    BY <2>2, NothingIsPrefix
  <2> QED
    BY <2>1, <2>3 DEF Owed, Writing
<1>6. CASE WriteDone
  <2>1. length \in 0..length /\ pc \in Writing /\ Delivered(length) /\ got' = got
        /\ pc' = "header"
    BY <1>6 DEF WriteTyped, WriteDone, Sent, ghostVars
  <2>2. received' = received \o SubSeq(writeBuf, 1, length)
    BY <2>1, Delivery
  <2>3. received' = DueFor(got)
    BY <2>1, <2>2 DEF Owed
  <2>4. IsPrefix(DueFor(got), DueFor(got))
    BY <1>0, NothingIsPrefix
  <2> QED
    BY <2>1, <2>3, <2>4 DEF Owed, Writing
<1>7. ASSUME NEW n \in 0..BufferSize, WriteTorn(n) \/ WriteTimesOut(n) PROVE Owed'
  <2>1. n \in 0..length /\ pc \in Writing /\ Delivered(n) /\ got' = got /\ ~open'
        /\ pc' \notin Writing
    BY <1>7 DEF WriteTyped, WriteTorn, WriteTimesOut, Sent, BackOff, ghostVars, Writing
  <2>2. IsPrefix(received', received \o SubSeq(writeBuf, 1, length))
    BY <2>1, Delivery
  <2>3. IsPrefix(received', DueFor(got))
    BY <2>1, <2>2 DEF Owed
  <2> QED
    BY <2>1, <2>3 DEF Owed
<1>8. CASE Handle
  <2>1. pc = "parse" /\ received' = received /\ open' = open
    BY <1>8 DEF Handle, connectionVars
  <2>2. PICK packet \in Parsed : packet = Parse(readBuf, want)
    <3>1. Parse(readBuf, want) \in Parsed
      BY DEF Parsed, ReadTyped, WithinBuffer
    <3> QED
      BY <3>1
  <2>3. got' = Append(got, packet)
    BY <1>8, <2>2 DEF Handle
  <2>4. PICK due \in Seq(Byte) : due = DueFor(got)
    BY <1>0
  <2>5. received = due
    BY <2>1, <2>4 DEF Owed, Connected
  <2>6. DueFor(got') = due \o Answer(packet)
    BY <1>0, <2>3, <2>4
  <2>7. PICK answer \in Seq(Byte) : answer = Answer(packet)
    BY AnswerType
  <2>8. IsPrefix(due, due \o answer)
    BY PrefixOfConcat
  <2>9. CASE packet.type \in Answered
    <3>1. Send(Serialize(ReplyTo(packet.type), writeBuf)) /\ pc' = "write"
      BY <1>8, <2>2, <2>9 DEF Handle
    <3>2. SubSeq(writeBuf', 1, length') = answer
      BY <2>7, <2>9, <3>1, AnswerPut
    <3> QED
      BY <2>1, <2>5, <2>6, <2>7, <2>8, <3>1, <3>2 DEF Owed
  <2>10. CASE packet.type \notin Answered
    <3>1. Answer(packet) = <<>> /\ due \o <<>> = due
      BY <2>10, ConcatEmptySeq DEF Answer
    <3>2. DueFor(got') = due
      BY <2>6, <3>1
    <3>3. pc' \in {"header", "cleanup"}
      BY <1>8, <2>2, <2>10 DEF Handle
    <3>4. IsPrefix(due, due)
      BY NothingIsPrefix
    <3> QED
      BY <2>1, <2>5, <3>2, <3>3, <3>4 DEF Owed, Writing
  <2> QED
    BY <2>9, <2>10
<1>9. \/ UNCHANGED <<received, got>> /\ pc' \notin Between \cup Writing
      \/ UNCHANGED <<pc, open, received, got, writeBuf, length>>
      \/ HeaderRead \/ PayloadRead \/ ReadTimesOut
      \/ Send(ClientHello) /\ pc \in Handshake /\ pc' = "writehello" /\ UNCHANGED <<received, got>>
      \/ BackoffOver \/ WriteDone \/ Handle
      \/ \E n \in 0..BufferSize : WriteTorn(n) \/ WriteTimesOut(n)
  <2>1. CASE UNCHANGED vars
    BY <2>1 DEF vars, connectionVars, writeVars, ghostVars
  <2>2. ASSUME NEW pkt \in ServerPackets, ServerSends(pkt)
        PROVE  UNCHANGED <<pc, open, received, got, writeBuf, length>>
    BY <2>2 DEF ServerSends, writeVars
  <2>3. ASSUME NEW n \in 1..4, ReadHeader(n)
        PROVE  UNCHANGED <<pc, open, received, got, writeBuf, length>>
    BY <2>3 DEF ReadHeader, writeVars, ghostVars
  <2>4. ASSUME NEW n \in 1..BufferSize, ReadPayload(n)
        PROVE  UNCHANGED <<pc, open, received, got, writeBuf, length>>
    BY <2>4 DEF ReadPayload, writeVars, ghostVars
  <2>5. ASSUME NEW hello \in Hellos, Connect(hello)
        PROVE  UNCHANGED <<received, got>> /\ pc' \notin Between \cup Writing
    BY <2>5 DEF Connect, ghostVars, Writing
  <2>6. CASE ConnectFails \/ HelloLength \/ HandshakeFails \/ ReadFails \/ Break \/ Cleanup
    BY <2>6 DEF ConnectFails, HelloLength, HandshakeFails, ReadFails, Break, Cleanup, BackOff,
       connectionVars, ghostVars, Writing
  <2>7. CASE Hello \/ ReadVersion
    BY <2>7 DEF Hello, ReadVersion, BackOff, ghostVars, Writing, Handshake
  <2> QED
    BY <2>1, <2>2, <2>3, <2>4, <2>5, <2>6, <2>7 DEF Next, ClientStep
<1> QED
  BY <1>1, <1>2, <1>3, <1>4, <1>5, <1>6, <1>7, <1>8, <1>9

(* What is left of the server's hello. *)
LengthGreeted == pc = "hellolength" => incoming \in Hellos

HelloGreeted ==
    pc = "hello" =>
        \E hello \in Hellos :
            /\ Len(hello) >= 4 /\ incoming = SubSeq(hello, 5, Len(hello))
            /\ want = Declared(hello) /\ want \in GreetingLength..MaxHello

VersionGreeted == pc = "version" => Len(incoming) = 4

AllGreeted == pc = "writehello" => incoming = <<>>

Greeted == LengthGreeted /\ HelloGreeted /\ VersionGreeted /\ AllGreeted

LEMMA DeclaredSame ==
  ASSUME NEW b, NEW c, \A i \in 1..4 : b[i] = c[i]
  PROVE  Declared(b) = Declared(c)
<1>1. b[1] = c[1] /\ b[2] = c[2] /\ b[3] = c[3] /\ b[4] = c[4]
  OBVIOUS
<1>2. 1 + 1 = 2 /\ 1 + 2 = 3 /\ 3 + 1 = 4
  OBVIOUS
<1> QED
  BY <1>1, <1>2, SMT DEF Declared, ReadU32, ReadU16

(* The hello that is accepted is the one that came, and nothing is behind  *)
(* it but its version.                                                     *)
LEMMA HelloRead ==
  ASSUME ReadTyped, WithinBuffer, HelloGreeted, Hello, pc' # "backoff"
  PROVE  IF want >= GreetingLength + 4 THEN incoming' = <<>> ELSE Len(incoming') = 4
<1>1. PICK hello \in Hellos :
          /\ Len(hello) >= 4 /\ incoming = SubSeq(hello, 5, Len(hello))
          /\ want = Declared(hello) /\ want \in GreetingLength..MaxHello
  BY DEF Hello, HelloGreeted
<1>2. PICK h \in Seq(Byte) : h = hello
  BY StreamAssumption
<1>3. Len(h) \in Nat /\ 4 \in 0..Len(h)
  BY <1>1, <1>2, LenProperties
<1>4. /\ SubSeq(h, 5, Len(h)) \in Seq(Byte) /\ Len(SubSeq(h, 5, Len(h))) = Len(h) - 4
      /\ \A i \in 1..(Len(h) - 4) : SubSeq(h, 5, Len(h))[i] = h[4 + i]
  <2>1. /\ SubSeq(h, 4 + 1, Len(h)) \in Seq(Byte)
        /\ Len(SubSeq(h, 4 + 1, Len(h))) = Len(h) - 4
        /\ \A i \in 1..(Len(h) - 4) : SubSeq(h, 4 + 1, Len(h))[i] = h[4 + i]
    BY <1>3, TakeOff, ZenonT(30)
  <2>2. 4 + 1 = 5
    OBVIOUS
  <2> QED
    BY <2>1, <2>2
<1>5. PICK rest \in Seq(Byte) : rest = incoming /\ Len(rest) = Len(h) - 4
                                /\ \A i \in 1..(Len(h) - 4) : rest[i] = h[4 + i]
  BY <1>1, <1>2, <1>4
<1>6. want \in 0..BufferSize /\ GreetingLength = 7 /\ want >= 7
  BY <1>1, BufferAssumption DEF GreetingLength, WithinBuffer
<1>7. TlsReadFull(want)
  BY DEF Hello
<1>8. /\ incoming' \in Seq(Byte) /\ Len(incoming') = Len(rest) - want /\ want <= Len(rest)
      /\ readBuf' \in Buffer
      /\ \A i \in 1..want : readBuf'[i] = rest[i]
  BY <1>5, <1>6, <1>7, FullRead
<1>9. PICK buf \in Buffer : buf = readBuf'
  BY <1>8
<1>10. SubSeq(buf, 1, 7) = Greeting
  BY <1>6, <1>9 DEF Hello, BackOff
<1>11. 7 \in 0..BufferSize
  BY <1>6, SmallReads
<1>12. /\ SubSeq(buf, 1, 7) \in Seq(Byte) /\ Len(SubSeq(buf, 1, 7)) = 7
       /\ \A i \in 1..7 : SubSeq(buf, 1, 7)[i] = buf[i]
  BY <1>11, BufferSub
<1>13. Len(h) >= 11
  BY <1>3, <1>5, <1>6, <1>8
<1>14. /\ SubSeq(h, 5, 11) \in Seq(Byte) /\ Len(SubSeq(h, 5, 11)) = 7
       /\ \A i \in 1..7 : SubSeq(h, 5, 11)[i] = h[4 + i]
  <2>1. \A i \in 1..Len(h) : h[i] \in Byte
    BY ElementOfSeq
  <2>2. \A i \in 5..11 : h[i] \in Byte
    BY <1>3, <1>13, <2>1
  <2>3. /\ SubSeq(h, 5, 11) \in Seq(Byte) /\ Len(SubSeq(h, 5, 11)) = 7
        /\ \A i \in 1..7 : SubSeq(h, 5, 11)[i] = h[5 + i - 1]
    BY <2>2, SubSeqProperties
  <2>4. \A i \in 1..7 : 5 + i - 1 = 4 + i
    OBVIOUS
  <2> QED
    BY <2>3, <2>4
<1>15. \A i \in 1..7 : SubSeq(h, 5, 11)[i] = SubSeq(buf, 1, 7)[i]
  <2> TAKE i \in 1..7
  <2>1. i \in 1..want /\ i \in 1..(Len(h) - 4)
    BY <1>3, <1>5, <1>6, <1>8
  <2> QED
    BY <1>5, <1>8, <1>9, <1>12, <1>14, <2>1
<1>16. SubSeq(h, 5, 11) = Greeting
  BY <1>10, <1>12, <1>14, <1>15, SeqEqual
<1>17. Len(hello) = 4 + want + (IF want >= 11 THEN 0 ELSE 4)
  <2>1. Declared(hello) \in GreetingLength..MaxHello
    BY <1>1
  <2>2. SubSeq(hello, 5, 4 + GreetingLength) = Greeting
    BY <1>2, <1>6, <1>16
  <2>3. Len(hello) = 4 + Declared(hello)
                       + (IF Declared(hello) >= GreetingLength + 4 THEN 0 ELSE 4)
    BY <2>1, <2>2, HelloAssumption
  <2> QED
    BY <1>1, <1>6, <2>3
<1>18. Len(incoming') = IF want >= 11 THEN 0 ELSE 4
  BY <1>2, <1>3, <1>5, <1>6, <1>8, <1>17
<1>19. want >= 11 => incoming' = <<>>
  BY <1>8, <1>18, EmptySeq
<1> QED
  BY <1>6, <1>18, <1>19

LEMMA GreetedStep ==
  Greeted /\ ReadTyped /\ WithinBuffer /\ [Next]_vars => Greeted'
<1> SUFFICES ASSUME Greeted, ReadTyped, WithinBuffer, [Next]_vars
             PROVE  Greeted'
  OBVIOUS
<1> DEFINE Early == {"hellolength", "hello", "version", "writehello"}
<1> USE DEF Greeted, LengthGreeted, HelloGreeted, VersionGreeted, AllGreeted
<1>1. CASE pc' \notin Early
  BY <1>1
<1>2. CASE UNCHANGED <<pc, incoming, want>>
  BY <1>2
<1>3. ASSUME NEW hello \in Hellos, Connect(hello) PROVE Greeted'
  BY <1>3 DEF Connect
<1>4. CASE HelloLength
  <2>1. PICK s \in Seq(Byte) : s = incoming /\ s \in Hellos
    BY <1>4 DEF HelloLength, ReadTyped
  <2>2. /\ Len(s) - 4 \in Nat /\ readBuf' \in Buffer
        /\ \A i \in 1..4 : readBuf'[i] = s[i]
    <3>1. 4 \in 0..BufferSize /\ TlsReadFull(4)
      BY <1>4, SmallReads DEF HelloLength
    <3>2. 4 <= Len(incoming) /\ readBuf' \in Buffer /\ \A i \in 1..4 : readBuf'[i] = incoming[i]
      BY <3>1, FullRead
    <3> QED
      BY <2>1, <3>2, LenProperties
  <2>3. Declared(readBuf') = Declared(s)
    BY <2>2, DeclaredSame
  <2>4. incoming' = SubSeq(s, 5, Len(s))
    BY <1>4, <2>1 DEF HelloLength, TlsReadFull
  <2>5. CASE Declared(s) \in GreetingLength..MaxHello
    <3>1. want' = Declared(s) /\ pc' = "hello"
      BY <1>4, <2>3, <2>5 DEF HelloLength
    <3>2. Len(s) >= 4
      BY <2>2, LenProperties
    <3> QED
      BY <2>1, <2>4, <2>5, <3>1, <3>2
  <2>6. CASE Declared(s) \notin GreetingLength..MaxHello
    BY <1>4, <2>3, <2>6 DEF HelloLength, BackOff
  <2> QED
    BY <2>5, <2>6
<1>5. CASE Hello
  <2>1. \/ pc' = "backoff"
        \/ pc' = "writehello" /\ want >= GreetingLength + 4
        \/ pc' = "version" /\ ~(want >= GreetingLength + 4)
    <3> DEFINE wrong == SubSeq(readBuf', 1, GreetingLength) # Greeting
               whole == want >= GreetingLength + 4
    <3>1. IF wrong THEN pc' = "backoff"
          ELSE IF whole THEN pc' = "writehello" ELSE pc' = "version"
      BY <1>5 DEF Hello, BackOff
    <3> HIDE DEF wrong, whole
    <3> QED
      BY <3>1 DEF whole
  <2>2. CASE pc' = "backoff"
    BY <2>2
  <2>3. CASE pc' # "backoff"
    <3>1. IF want >= GreetingLength + 4 THEN incoming' = <<>> ELSE Len(incoming') = 4
      BY <1>5, <2>3, HelloRead
    <3> QED
      BY <2>1, <3>1
  <2> QED
    BY <2>2, <2>3
<1>6. CASE ReadVersion
  <2>1. 4 \in 0..BufferSize /\ TlsReadFull(4) /\ Len(incoming) = 4 /\ pc' = "writehello"
    BY <1>6, SmallReads DEF ReadVersion
  <2>2. incoming' \in Seq(Byte) /\ Len(incoming') = 0
    BY <2>1, FullRead
  <2>3. incoming' = <<>>
    BY <2>2, EmptySeq
  <2> QED
    BY <2>1, <2>3
<1>7. \/ pc' \notin Early \/ UNCHANGED <<pc, incoming, want>>
      \/ HelloLength \/ Hello \/ ReadVersion
      \/ \E hello \in Hellos : Connect(hello)
  BY DEF Next, ClientStep, vars, connectionVars, readVars, ServerSends, Session, ConnectFails,
     HandshakeFails, BackoffOver, BackOff, WriteDone, WriteTorn, WriteTimesOut, Sent,
     ReadHeader, HeaderRead, ReadPayload, PayloadRead, ReadTimesOut, ReadFails, Break,
     Handle, Cleanup
<1> QED
  BY <1>1, <1>2, <1>3, <1>4, <1>5, <1>6, <1>7

-----------------------------------------------------------------------------
(* Packet by packet.                                                       *)

(* What is left of a sequence without its first n elements. *)
Left(s, n) == SubSeq(s, n + 1, Len(s))

LEMMA LeftProperties ==
  ASSUME NEW T, NEW s \in Seq(T), NEW n \in 0..Len(s)
  PROVE  /\ Left(s, n) \in Seq(T) /\ Len(Left(s, n)) = Len(s) - n
         /\ \A i \in 1..(Len(s) - n) : Left(s, n)[i] = s[n + i]
  BY TakeOff DEF Left

LEMMA LeftAppend ==
  ASSUME NEW T, NEW s \in Seq(T), NEW n \in 0..Len(s), NEW x \in T
  PROVE  Left(Append(s, x), n) = Append(Left(s, n), x)
<1>1. PICK t \in Seq(T) : /\ t = Append(s, x) /\ Len(t) = Len(s) + 1
                          /\ \A i \in 1..Len(s) : t[i] = s[i]
                          /\ t[Len(s) + 1] = x
  BY AppendProperties
<1>2. PICK l \in Seq(T) : l = Left(s, n) /\ Len(l) = Len(s) - n
                          /\ \A i \in 1..(Len(s) - n) : l[i] = s[n + i]
  <2>1. /\ Left(s, n) \in Seq(T) /\ Len(Left(s, n)) = Len(s) - n
        /\ \A i \in 1..(Len(s) - n) : Left(s, n)[i] = s[n + i]
    BY LeftProperties
  <2> QED
    BY <2>1
<1>3. /\ Append(l, x) \in Seq(T) /\ Len(Append(l, x)) = Len(l) + 1
      /\ \A i \in 1..Len(l) : Append(l, x)[i] = l[i]
      /\ Append(l, x)[Len(l) + 1] = x
  BY AppendProperties
<1>4. n \in 0..Len(t) /\ Len(s) \in Nat /\ n \in Nat /\ n <= Len(s)
  BY <1>1, LenProperties
<1>5. /\ Left(t, n) \in Seq(T) /\ Len(Left(t, n)) = Len(t) - n
      /\ \A i \in 1..(Len(t) - n) : Left(t, n)[i] = t[n + i]
  BY <1>4, LeftProperties
<1>6. PICK a \in Seq(T), m \in Seq(T) : a = Append(l, x) /\ m = Left(t, n)
  BY <1>3, <1>5
<1>7. Len(m) = Len(a) /\ Len(a) = Len(s) - n + 1
  BY <1>1, <1>2, <1>3, <1>4, <1>5, <1>6
<1>8. \A i \in 1..Len(m) : m[i] = a[i]
  <2> TAKE i \in 1..Len(m)
  <2>1. i \in 1..(Len(t) - n) /\ n + i \in 1..Len(t)
    BY <1>1, <1>4, <1>7
  <2>2. CASE i <= Len(s) - n
    <3>1. i \in 1..Len(l) /\ i \in 1..(Len(s) - n) /\ n + i \in 1..Len(s)
      BY <1>2, <1>4, <2>2
    <3> QED
      BY <1>1, <1>2, <1>3, <1>5, <1>6, <2>1, <3>1
  <2>3. CASE ~(i <= Len(s) - n)
    <3>1. i = Len(l) + 1 /\ n + i = Len(s) + 1
      BY <1>2, <1>4, <1>7, <2>3
    <3> QED
      BY <1>1, <1>3, <1>5, <1>6, <2>1, <3>1
  <2> QED
    BY <2>2, <2>3
<1>9. m = a
  BY <1>7, <1>8, SeqEqual
<1> QED
  BY <1>1, <1>2, <1>6, <1>9

LEMMA LeftTail ==
  ASSUME NEW T, NEW s \in Seq(T), NEW n \in 0..Len(s), Left(s, n) # <<>>
  PROVE  /\ n + 1 \in 0..Len(s) /\ Left(s, n)[1] = s[n + 1]
         /\ Left(s, n + 1) = Tail(Left(s, n))
<1>1. PICK l \in Seq(T) : l = Left(s, n) /\ Len(l) = Len(s) - n
                          /\ \A i \in 1..(Len(s) - n) : l[i] = s[n + i]
  BY LeftProperties
<1>2. Len(l) # 0 /\ Len(l) \in Nat /\ Len(s) \in Nat /\ n \in Nat
  BY <1>1, LenProperties, EmptySeq
<1>3. PICK m \in 0..Len(s) : m = n + 1
  BY <1>1, <1>2
<1>4. /\ Left(s, m) \in Seq(T) /\ Len(Left(s, m)) = Len(s) - m
      /\ \A i \in 1..(Len(s) - m) : Left(s, m)[i] = s[m + i]
  BY LeftProperties
<1>5. l # <<>>
  BY <1>2, EmptySeq
<1>6. /\ Tail(l) \in Seq(T) /\ Len(Tail(l)) = Len(l) - 1
      /\ \A i \in 1..Len(Tail(l)) : Tail(l)[i] = l[i + 1]
  BY <1>5, HeadTailProperties
<1>7. PICK a \in Seq(T), b \in Seq(T) : a = Tail(l) /\ b = Left(s, m)
  BY <1>4, <1>6
<1>8. Len(a) = Len(b) /\ Len(a) = Len(s) - m
  BY <1>1, <1>2, <1>3, <1>4, <1>6, <1>7
<1>9. \A i \in 1..Len(a) : a[i] = b[i]
  <2> TAKE i \in 1..Len(a)
  <2>1. i \in 1..(Len(s) - m) /\ i + 1 \in 1..(Len(s) - n) /\ n + (i + 1) = m + i
    BY <1>2, <1>3, <1>8
  <2> QED
    BY <1>1, <1>4, <1>6, <1>7, <2>1
<1>10. a = b
  BY <1>8, <1>9, SeqEqual
<1>11. l[1] = s[n + 1]
  <2>1. 1 \in 1..(Len(s) - n)
    BY <1>1, <1>2
  <2> QED
    BY <1>1, <2>1
<1> QED
  BY <1>1, <1>3, <1>7, <1>10, <1>11

LEMMA PacketOnWire ==
  ASSUME NEW pkt \in ServerPackets
  PROVE  /\ Wire(pkt) \in Seq(Byte) /\ Len(Wire(pkt)) = 8 + Len(Data(pkt))
         /\ Len(Data(pkt)) \in Nat /\ Len(Data(pkt)) < TooLong
         /\ \A i \in 1..4 : Wire(pkt)[i] = BigEndian(4 + Len(Data(pkt)), 4)[i]
<1>1. Sendable(pkt) /\ Len(Data(pkt)) < TooLong
  BY ServersPackets DEF WellFormed
<1> QED
  BY <1>1, WireShape, DataShape DEF HeaderLength, CodeLength

(* A stream of packets begins with the first. *)
LEMMA FirstOfStream ==
  ASSUME NEW packets \in Seq(ServerPackets), NEW s \in Seq(Byte), s = Wires(packets),
         s # <<>>
  PROVE  /\ packets # <<>> /\ packets[1] \in ServerPackets
         /\ Tail(packets) \in Seq(ServerPackets)
         /\ s = Wire(packets[1]) \o Wires(Tail(packets))
         /\ Wires(Tail(packets)) \in Seq(Byte)
         /\ Len(s) >= Len(Wire(packets[1]))
         /\ \A i \in 1..Len(Wire(packets[1])) : s[i] = Wire(packets[1])[i]
<1>1. packets # <<>>
  BY WiresProperties
<1>2. packets[1] \in ServerPackets /\ Tail(packets) \in Seq(ServerPackets)
  BY <1>1, EmptySeq, ElementOfSeq, HeadTailProperties
<1>3. PICK pkt \in ServerPackets, rest \in Seq(ServerPackets) :
          pkt = packets[1] /\ rest = Tail(packets)
  BY <1>2
<1>4. PICK w \in Seq(Byte), v \in Seq(Byte) : w = Wire(pkt) /\ v = Wires(rest)
  BY PacketOnWire, WiresProperties
<1>5. /\ Len(w \o v) = Len(w) + Len(v) /\ Len(w) \in Nat /\ Len(v) \in Nat
      /\ \A k \in 1..Len(w) : (w \o v)[k] = w[k]
  BY Halves
<1>6. s = w \o v
  BY <1>1, <1>3, <1>4, WiresProperties
<1>7. Len(s) >= Len(w)
  BY <1>5, <1>6
<1> QED
  BY <1>1, <1>2, <1>3, <1>4, <1>5, <1>6, <1>7

(* The header in front of a stream is the length of its first packet. *)
LEMMA HeaderTells ==
  ASSUME NEW h \in Seq(Byte), Len(h) = 4, NEW t \in Seq(Byte),
         NEW packets \in Seq(ServerPackets), h \o t = Wires(packets),
         Declared(h) \in CodeLength..(BufferSize - 4)
  PROVE  packets # <<>> /\ 4 + Declared(h) = Len(Wire(packets[1]))
<1>1. /\ h \o t \in Seq(Byte) /\ Len(h \o t) = Len(h) + Len(t)
      /\ Len(t) \in Nat /\ \A k \in 1..Len(h) : (h \o t)[k] = h[k]
  BY Halves, ZenonT(30)
<1>2. PICK s \in Seq(Byte) : s = h \o t
  BY <1>1
<1>3. s # <<>>
  BY <1>1, <1>2, EmptySeq
<1>4. PICK pkt \in ServerPackets :
          /\ pkt = packets[1] /\ packets # <<>>
          /\ \A i \in 1..Len(Wire(pkt)) : s[i] = Wire(pkt)[i]
  BY <1>2, <1>3, FirstOfStream
<1>5. /\ Len(Wire(pkt)) = 8 + Len(Data(pkt))
      /\ Len(Data(pkt)) \in Nat /\ Len(Data(pkt)) < TooLong
      /\ \A i \in 1..4 : Wire(pkt)[i] = BigEndian(4 + Len(Data(pkt)), 4)[i]
  BY PacketOnWire
<1>6. PICK n \in Nat : n = 4 + Len(Data(pkt))
  BY <1>5
<1>7. \A i \in 1..4 : h[i] = BigEndian(n, 4)[i]
  <2> TAKE i \in 1..4
  <2>1. i \in 1..Len(Wire(pkt)) /\ i \in 1..Len(h)
    BY <1>5
  <2> QED
    BY <1>1, <1>2, <1>4, <1>5, <1>6, <2>1
<1>8. n < TooLong
  <2>1. n < TooLong + 4
    BY <1>5, <1>6, SMT DEF TooLong
  <2>2. ASSUME n >= TooLong PROVE FALSE
    <3>1. h[1] = BigEndian(n, 4)[1]
      BY <1>7
    <3>2. Declared(h) = TooLong
      BY <2>1, <2>2, <3>1, LongLength
    <3> QED
      BY <3>2, BufferAssumption, SMT DEF TooLong
  <2> QED
    BY <2>2, SMT DEF TooLong
<1>9. Declared(h) = n
  BY <1>7, <1>8, LengthReadsBack
<1> QED
  BY <1>4, <1>5, <1>6, <1>9

(* The first packet of a stream is all in the buffer. *)
InBuffer(b, len, t, packets) ==
    /\ packets # <<>> /\ len = Len(Wire(packets[1]))
    /\ SubSeq(b, 1, len) \o t = Wires(packets)

(* Once all of it was read, packet_parse gives what the server meant, and  *)
(* the stream of the others is left.                                       *)
LEMMA PacketTaken ==
  ASSUME NEW b \in Buffer, NEW len \in 0..BufferSize, NEW t \in Seq(Byte),
         NEW packets \in Seq(ServerPackets), InBuffer(b, len, t, packets)
  PROVE  Parse(b, len) = Meant(packets[1]) /\ t = Wires(Tail(packets))
<1>0. /\ packets # <<>> /\ len = Len(Wire(packets[1]))
      /\ SubSeq(b, 1, len) \o t = Wires(packets)
  BY DEF InBuffer
<1>1. PICK f \in Seq(Byte) : f = SubSeq(b, 1, len) /\ Len(f) = len
                             /\ \A i \in 1..len : f[i] = b[i]
  BY BufferSub
<1>2. packets[1] \in ServerPackets /\ Tail(packets) \in Seq(ServerPackets)
  BY <1>0, EmptySeq, ElementOfSeq, HeadTailProperties
<1>3. PICK pkt \in ServerPackets, rest \in Seq(ServerPackets) :
          pkt = packets[1] /\ rest = Tail(packets)
  BY <1>2
<1>4. PICK w \in Seq(Byte), v \in Seq(Byte) : w = Wire(pkt) /\ v = Wires(rest)
  BY PacketOnWire, WiresProperties
<1>5. f \o t = w \o v /\ Len(f) = Len(w)
  BY <1>0, <1>1, <1>3, <1>4, WiresProperties
<1>6. f = w /\ t = v
  BY <1>5, Cancelling
<1>7. \A k \in 1..Len(Wire(pkt)) : b[k] = Wire(pkt)[k]
  BY <1>1, <1>4, <1>6
<1>8. WellFormed(pkt) /\ Sendable(pkt)
  BY ServersPackets DEF WellFormed
<1>9. Holds(b, pkt)
  BY <1>7, <1>8, BufferHolds
<1>10. len = HeaderLength + Len(Data(pkt)) /\ b \in [1..BufferSize -> Byte]
  BY <1>0, <1>3, <1>8, WireShape DEF Buffer
<1>11. Parse(b, len) = Meant(pkt)
  BY <1>8, <1>9, <1>10, ParseGivesWhatWasMeant
<1> QED
  BY <1>3, <1>4, <1>6, <1>11

(* The packets that the client has not taken yet. *)
Remaining == Left(sent, Len(got))

(* What it has read of the next. *)
Partial ==
    IF pc = "header" THEN header
    ELSE IF pc \in {"payload", "parse"} THEN SubSeq(readBuf, 1, offset)
    ELSE <<>>

(* What it took is what the server sent. *)
Orderly ==
    ~stalled =>
        /\ Len(got) <= Len(sent)
        /\ \A i \in 1..Len(got) : got[i] = Meant(sent[i])

(* What it has read of the next packet and what is under way make up the   *)
(* packets it has not taken.                                               *)
Framed == ~stalled /\ pc \in Session => Partial \o incoming = Wires(Remaining)

(* In the middle of a packet it knows how long that packet is. *)
AtHand ==
    ~stalled /\ pc \in {"payload", "parse"} =>
        Remaining # <<>> /\ want = Len(Wire(Remaining[1]))

AllThere == pc = "parse" => offset = want

Aligned == Framed /\ AtHand /\ AllThere

LEMMA RemainingType ==
  ASSUME History, Orderly, ~stalled
  PROVE  /\ Len(got) \in 0..Len(sent)
         /\ Remaining \in Seq(ServerPackets)
<1>1. PICK s \in Seq(ServerPackets), n \in Nat : s = sent /\ n = Len(got)
  BY LenProperties DEF History
<1>2. n \in 0..Len(s)
  BY <1>1, LenProperties DEF Orderly
<1> QED
  BY <1>1, <1>2, LeftProperties DEF Remaining

(* The next packet is taken. *)
LEMMA Taken ==
  ASSUME History, ReadTyped, WithinBuffer, Orderly, Aligned, ~stalled, pc = "parse"
  PROVE  /\ Len(got) + 1 \in 0..Len(sent)
         /\ Parse(readBuf, want) = Meant(sent[Len(got) + 1])
         /\ incoming = Wires(Left(sent, Len(got) + 1))
<1>1. PICK s \in Seq(ServerPackets), n \in Nat : s = sent /\ n = Len(got) /\ n \in 0..Len(s)
  BY RemainingType, LenProperties DEF History
<1>2. PICK packets \in Seq(ServerPackets) : packets = Left(s, n) /\ packets = Remaining
  BY <1>1, RemainingType DEF Remaining
<1>3. /\ packets # <<>> /\ want = Len(Wire(packets[1])) /\ offset = want
      /\ SubSeq(readBuf, 1, want) \o incoming = Wires(packets)
  BY <1>2 DEF Aligned, Framed, AtHand, AllThere, Partial, Session
<1>4. /\ n + 1 \in 0..Len(s) /\ packets[1] = s[n + 1]
      /\ Left(s, n + 1) = Tail(packets)
  <2>1. n \in 0..Len(s) /\ Left(s, n) # <<>>
    BY <1>1, <1>2, <1>3
  <2>2. /\ n + 1 \in 0..Len(s) /\ Left(s, n)[1] = s[n + 1]
        /\ Left(s, n + 1) = Tail(Left(s, n))
    BY <2>1, LeftTail
  <2> QED
    BY <1>2, <2>2
<1>5. PICK b \in Buffer, len \in 0..BufferSize, t \in Seq(Byte) :
          b = readBuf /\ len = want /\ t = incoming
  BY DEF ReadTyped, WithinBuffer
<1>6. Parse(b, len) = Meant(packets[1]) /\ t = Wires(Tail(packets))
  <2>1. InBuffer(b, len, t, packets)
    BY <1>3, <1>5 DEF InBuffer
  <2> QED
    BY <2>1, PacketTaken
<1> QED
  BY <1>1, <1>4, <1>5, <1>6

LEMMA OrderlyStep ==
  Orderly /\ Aligned /\ History /\ ReadTyped /\ WithinBuffer /\ Controls /\ [Next]_vars
  => Orderly'
<1> SUFFICES ASSUME Orderly, Aligned, History, ReadTyped, WithinBuffer, Controls, [Next]_vars,
                    ~stalled'
             PROVE  /\ Len(got') <= Len(sent')
                    /\ \A i \in 1..Len(got') : got'[i] = Meant(sent'[i])
  BY DEF Orderly
<1>0. PICK s \in Seq(ServerPackets), g \in Seq(Parsed) : s = sent /\ g = got
  BY DEF History
<1>1. Len(s) \in Nat /\ Len(g) \in Nat
  BY <1>0, LenProperties
<1>2. CASE UNCHANGED <<sent, got>> /\ ~stalled
  BY <1>2 DEF Orderly
<1>3. ASSUME NEW pkt \in ServerPackets, ServerSends(pkt)
      PROVE  /\ Len(got') <= Len(sent')
             /\ \A i \in 1..Len(got') : got'[i] = Meant(sent'[i])
  <2>1. ~stalled /\ got' = g /\ sent' = Append(s, pkt)
    BY <1>0, <1>3 DEF ServerSends
  <2>2. /\ Len(Append(s, pkt)) = Len(s) + 1
        /\ \A i \in 1..Len(s) : Append(s, pkt)[i] = s[i]
    BY AppendProperties
  <2>3. Len(g) <= Len(s) /\ \A i \in 1..Len(g) : g[i] = Meant(s[i])
    BY <1>0, <2>1 DEF Orderly
  <2>4. \A i \in 1..Len(g) : i \in 1..Len(s)
    BY <1>1, <2>3
  <2> QED
    BY <1>1, <2>1, <2>2, <2>3, <2>4
<1>4. CASE Handle
  <2>1. ~stalled /\ pc = "parse" /\ sent' = s
    BY <1>0, <1>4 DEF Handle
  <2>2. PICK packet \in Parsed : packet = Parse(readBuf, want)
    <3>1. Parse(readBuf, want) \in Parsed
      BY DEF Parsed, ReadTyped, WithinBuffer
    <3> QED
      BY <3>1
  <2>3. got' = Append(g, packet)
    BY <1>0, <1>4, <2>2 DEF Handle
  <2>4. /\ Len(Append(g, packet)) = Len(g) + 1
        /\ \A i \in 1..Len(g) : Append(g, packet)[i] = g[i]
        /\ Append(g, packet)[Len(g) + 1] = packet
    BY AppendProperties
  <2>5. Len(g) + 1 \in 0..Len(s) /\ packet = Meant(s[Len(g) + 1])
    BY <1>0, <2>1, <2>2, Taken
  <2>6. \A i \in 1..Len(g) : g[i] = Meant(s[i])
    BY <1>0, <2>1 DEF Orderly
  <2>7. \A i \in 1..(Len(g) + 1) : i \in 1..Len(g) \/ i = Len(g) + 1
    BY <1>1
  <2>8. \A i \in 1..(Len(g) + 1) : Append(g, packet)[i] = Meant(s[i])
    BY <2>4, <2>5, <2>6, <2>7
  <2> QED
    BY <1>1, <2>1, <2>3, <2>4, <2>5, <2>8
<1>5. CASE BackoffOver
  <2>1. got' = <<>> /\ sent' = <<>>
    BY <1>5 DEF BackoffOver
  <2>2. Len(<<>>) = 0
    BY EmptySeq
  <2> QED
    BY <2>1, <2>2
<1>6. CASE ReadTimesOut
  <2>1. ~stalled /\ UNCHANGED <<sent, got>>
    BY <1>6 DEF ReadTimesOut, Controls
  <2> QED
    BY <1>2, <2>1
<1>7. \/ UNCHANGED <<sent, got>> /\ ~stalled
      \/ Handle \/ BackoffOver \/ ReadTimesOut
      \/ \E pkt \in ServerPackets : ServerSends(pkt)
  BY DEF Next, ClientStep, vars, Connect, ConnectFails, HelloLength, Hello, Sent,
     ReadVersion, HandshakeFails, WriteDone, WriteTorn, WriteTimesOut, ReadHeader, HeaderRead,
     ReadPayload, PayloadRead, ReadFails, Break, Cleanup, ghostVars
<1> QED
  BY <1>2, <1>3, <1>4, <1>5, <1>6, <1>7

LEMMA AllThereStep == AllThere /\ [Next]_vars => AllThere'
<1> SUFFICES ASSUME AllThere, [Next]_vars PROVE AllThere'
  OBVIOUS
<1>1. CASE PayloadRead
  BY <1>1 DEF PayloadRead, readVars, AllThere
<1>2. CASE pc' # "parse"
  BY <1>2 DEF AllThere
<1>3. CASE UNCHANGED <<pc, offset, want>>
  BY <1>3 DEF AllThere
<1>4. PayloadRead \/ pc' # "parse" \/ UNCHANGED <<pc, offset, want>>
  BY DEF Next, ClientStep, vars, readVars, ServerSends, Connect, ConnectFails, HelloLength,
     Hello, ReadVersion, HandshakeFails, BackoffOver, BackOff, WriteDone, WriteTorn,
     WriteTimesOut, Sent, ReadHeader, HeaderRead, ReadPayload, ReadTimesOut, ReadFails, Break,
     Handle,
     Cleanup
<1> QED
  BY <1>1, <1>2, <1>3, <1>4

LEMMA AtHandStep ==
  AtHand /\ Framed /\ Orderly /\ History /\ ReadTyped /\ Controls /\ [Next]_vars => AtHand'
<1> SUFFICES ASSUME AtHand, Framed, Orderly, History, ReadTyped, Controls, [Next]_vars,
                    ~stalled', pc' \in {"payload", "parse"}
             PROVE  Remaining' # <<>> /\ want' = Len(Wire(Remaining'[1]))
  BY DEF AtHand
<1>1. CASE /\ UNCHANGED <<want, sent, got, stalled>>
           /\ pc \in {"payload", "parse"}
  BY <1>1 DEF AtHand, Remaining
<1>2. ASSUME NEW pkt \in ServerPackets, ServerSends(pkt)
      PROVE  Remaining' # <<>> /\ want' = Len(Wire(Remaining'[1]))
  <2>1. ~stalled /\ pc \in {"payload", "parse"} /\ want' = want /\ got' = got
        /\ sent' = Append(sent, pkt)
    BY <1>2 DEF ServerSends, readVars
  <2>2. PICK s \in Seq(ServerPackets), n \in Nat : s = sent /\ n = Len(got) /\ n \in 0..Len(s)
    BY <2>1, RemainingType, LenProperties DEF History
  <2>3. PICK r \in Seq(ServerPackets) : r = Left(s, n) /\ r = Remaining
    BY <2>1, <2>2, RemainingType DEF Remaining
  <2>4. Remaining' = Append(r, pkt)
    BY <2>1, <2>2, <2>3, LeftAppend DEF Remaining
  <2>5. r # <<>> /\ want = Len(Wire(r[1]))
    BY <2>1, <2>3 DEF AtHand
  <2>6. /\ Append(r, pkt) \in Seq(ServerPackets) /\ Len(Append(r, pkt)) = Len(r) + 1
        /\ \A i \in 1..Len(r) : Append(r, pkt)[i] = r[i]
    BY AppendProperties
  <2>7. Len(r) \in Nat /\ 1 \in 1..Len(r)
    BY <2>5, EmptySeq
  <2>8. Append(r, pkt) # <<>> /\ Append(r, pkt)[1] = r[1]
    BY <2>6, <2>7, EmptySeq
  <2> QED
    BY <2>1, <2>4, <2>5, <2>8
<1>3. CASE HeaderRead
  <2>1. pc = "header" /\ ~stalled /\ UNCHANGED <<sent, got>> /\ pc' = "payload"
    BY <1>3 DEF HeaderRead, ghostVars
  <2>2. PICK h \in Seq(Byte), t \in Seq(Byte) : h = header /\ t = incoming /\ Len(h) = 4
    BY <1>3 DEF HeaderRead, ReadTyped
  <2>3. want' = 4 + Declared(h) /\ Declared(h) \in CodeLength..(BufferSize - 4)
    BY <1>3, <2>1, <2>2 DEF HeaderRead
  <2>4. PICK r \in Seq(ServerPackets) : r = Remaining
    BY <2>1, RemainingType
  <2>5. h \o t = Wires(r)
    BY <2>1, <2>2, <2>4 DEF Framed, Session, Partial
  <2>6. r # <<>> /\ 4 + Declared(h) = Len(Wire(r[1]))
    BY <2>2, <2>3, <2>5, HeaderTells
  <2>7. Remaining' = r
    BY <2>1, <2>4 DEF Remaining
  <2> QED
    BY <2>3, <2>6, <2>7
<1>4. \/ UNCHANGED <<want, sent, got, stalled>> /\ pc \in {"payload", "parse"}
      \/ HeaderRead
      \/ \E pkt \in ServerPackets : ServerSends(pkt)
  BY DEF Next, ClientStep, vars, readVars, ghostVars, Connect, ConnectFails, HelloLength,
     Hello, ReadVersion, HandshakeFails, BackoffOver, BackOff, WriteDone, WriteTorn,
     WriteTimesOut, Sent, ReadHeader, ReadPayload, PayloadRead, ReadTimesOut, ReadFails, Break,
     Handle,
     Cleanup
<1> QED
  BY <1>1, <1>2, <1>3, <1>4

LEMMA NothingLeft ==
  ASSUME sent = <<>>, got = <<>>
  PROVE  Wires(Remaining) = <<>>
<1>1. <<>> \in Seq(ServerPackets) /\ Len(<<>>) = 0 /\ 0 \in 0..0
  BY EmptySeq
<1>2. Left(<<>>, 0) \in Seq(ServerPackets) /\ Len(Left(<<>>, 0)) = 0 - 0
  BY <1>1, LeftProperties
<1>3. Left(<<>>, 0) = <<>>
  BY <1>2, EmptySeq
<1>4. Wires(<<>>) = <<>>
  BY <1>1, WiresProperties
<1> QED
  BY <1>1, <1>3, <1>4 DEF Remaining

LEMMA FramedStep ==
  Aligned /\ Orderly /\ Fresh /\ Greeted /\ History /\ ReadTyped /\ WithinBuffer /\ Controls
  /\ [Next]_vars => Framed'
<1> SUFFICES ASSUME Aligned, Orderly, Fresh, Greeted, History, ReadTyped, WithinBuffer,
                    Controls, [Next]_vars, ~stalled', pc' \in Session
             PROVE  Partial' \o incoming' = Wires(Remaining')
  BY DEF Framed
<1> DEFINE Goal == Partial' \o incoming' = Wires(Remaining')
<1>0. ASSUME ~stalled, pc \in Session
      PROVE  Partial \o incoming = Wires(Remaining)
  BY <1>0 DEF Aligned, Framed
<1>1. CASE /\ pc \in Session /\ ~stalled
           /\ UNCHANGED <<incoming, sent, got>> /\ Partial' = Partial
  <2>1. Remaining' = Remaining
    BY <1>1 DEF Remaining
  <2> QED
    BY <1>0, <1>1, <2>1
<1>2. ASSUME NEW pkt \in ServerPackets, ServerSends(pkt) PROVE Goal
  <2>1. ~stalled /\ pc \in Session /\ got' = got /\ sent' = Append(sent, pkt)
        /\ Partial' = Partial
    BY <1>2 DEF ServerSends, readVars, Partial
  <2>2. PICK s \in Seq(ServerPackets), n \in Nat : s = sent /\ n = Len(got) /\ n \in 0..Len(s)
    BY <2>1, RemainingType, LenProperties DEF History
  <2>3. PICK r \in Seq(ServerPackets) : r = Left(s, n) /\ r = Remaining
    BY <2>1, <2>2, RemainingType DEF Remaining
  <2>4. Remaining' = Append(r, pkt)
    BY <2>1, <2>2, <2>3, LeftAppend DEF Remaining
  <2>5. PICK w \in Seq(Byte), v \in Seq(Byte) :
            w = Wire(pkt) /\ v = Wires(r) /\ Wires(Append(r, pkt)) = v \o w
    <3>1. Wire(pkt) \in Seq(Byte) /\ Wires(r) \in Seq(Byte)
          /\ Wires(Append(r, pkt)) = Wires(r) \o Wire(pkt)
      BY PacketOnWire, WiresProperties
    <3> QED
      BY <3>1
  <2>6. PICK t \in Seq(Byte), p \in Seq(Byte) : t = incoming /\ p = Partial
    <3>1. SubSeq(readBuf, 1, offset) \in Seq(Byte)
      BY BufferSub DEF ReadTyped, WithinBuffer
    <3>2. Partial \in Seq(Byte)
      BY <3>1, EmptySeq DEF Partial, ReadTyped
    <3> QED
      BY <3>2 DEF ReadTyped
  <2>7. incoming' = t \o w
    BY <1>2, <2>5, <2>6 DEF ServerSends
  <2>8. p \o t = v
    BY <1>0, <2>1, <2>3, <2>5, <2>6
  <2>9. p \o (t \o w) = (p \o t) \o w
    BY ConcatAssociative, SMTT(60)
  <2> QED
    BY <2>1, <2>4, <2>5, <2>6, <2>7, <2>8, <2>9
<1>3. ASSUME NEW n \in 1..4, ReadHeader(n) PROVE Goal
  <2>1. pc = "header" /\ pc' = "header" /\ ~stalled /\ UNCHANGED <<sent, got>>
    BY <1>3 DEF ReadHeader, ghostVars
  <2>2. header' \o incoming' = header \o incoming
    BY <1>3, HeaderGrows
  <2>3. Partial = header /\ Partial' = header' /\ Remaining' = Remaining
    BY <2>1 DEF Partial, Remaining
  <2> QED
    BY <1>0, <2>1, <2>2, <2>3 DEF Session
<1>4. ASSUME NEW n \in 1..BufferSize, ReadPayload(n) PROVE Goal
  <2>1. pc = "payload" /\ pc' = "payload" /\ ~stalled /\ UNCHANGED <<sent, got>>
    BY <1>4 DEF ReadPayload, ghostVars
  <2>2. SubSeq(readBuf', 1, offset') \o incoming' = SubSeq(readBuf, 1, offset) \o incoming
    BY <1>4, PayloadGrows
  <2>3. /\ Partial = SubSeq(readBuf, 1, offset) /\ Partial' = SubSeq(readBuf', 1, offset')
        /\ Remaining' = Remaining
    BY <2>1 DEF Partial, Remaining
  <2> QED
    BY <1>0, <2>1, <2>2, <2>3 DEF Session
<1>5. CASE HeaderRead
  <2>1. pc = "header" /\ pc' = "payload" /\ ~stalled /\ UNCHANGED <<incoming, sent, got>>
    BY <1>5 DEF HeaderRead, connectionVars, ghostVars, Session
  <2>2. SubSeq(readBuf', 1, offset') = header
    BY <1>5, <2>1, HeaderPutInFront
  <2>3. Partial' = Partial
    BY <2>1, <2>2 DEF Partial
  <2> QED
    BY <1>1, <2>1, <2>3 DEF Session
<1>6. CASE PayloadRead
  <2>1. pc \in Session /\ ~stalled /\ UNCHANGED <<incoming, sent, got>> /\ Partial' = Partial
    BY <1>6 DEF PayloadRead, connectionVars, readVars, ghostVars, Session, Partial
  <2> QED
    BY <1>1, <2>1
<1>7. CASE ReadTimesOut
  <2>1. ~stalled /\ pc = "header" /\ header = <<>>
    BY <1>7 DEF ReadTimesOut, Controls
  <2>2. UNCHANGED <<incoming, sent, got>> /\ pc' = "header" /\ header' = <<>>
    BY <1>7 DEF ReadTimesOut, connectionVars
  <2>3. Partial' = Partial
    BY <2>1, <2>2 DEF Partial
  <2> QED
    BY <1>1, <2>1, <2>2, <2>3 DEF Session
<1>8. CASE pc \in Writing /\ Sent
  <2>1. ~stalled /\ UNCHANGED <<incoming, sent, got>> /\ pc' = "header" /\ header' = <<>>
    BY <1>8 DEF Sent, ghostVars
  <2>2. Partial' = <<>>
    BY <2>1 DEF Partial
  <2>3. CASE pc = "write"
    <3>1. Partial = <<>>
      BY <2>3 DEF Partial
    <3> QED
      BY <1>1, <2>1, <2>2, <2>3, <3>1 DEF Session
  <2>4. CASE pc = "writehello"
    <3>1. sent = <<>> /\ got = <<>> /\ incoming = <<>>
      BY <2>4 DEF Fresh, Greeted, AllGreeted
    <3>2. Wires(Remaining) = <<>> /\ Remaining' = Remaining
      BY <2>1, <3>1, NothingLeft DEF Remaining
    <3>3. <<>> \o <<>> = <<>>
      BY EmptySeq, ConcatEmptySeq
    <3> QED
      BY <2>1, <2>2, <3>1, <3>2, <3>3
  <2> QED
    BY <1>8, <2>3, <2>4 DEF Writing
<1>9. CASE Handle
  <2>1. ~stalled /\ pc = "parse" /\ sent' = sent /\ incoming' = incoming
        /\ got' = Append(got, Parse(readBuf, want))
    BY <1>9 DEF Handle, connectionVars
  <2>2. incoming = Wires(Left(sent, Len(got) + 1))
    BY <2>1, Taken
  <2>3. Len(got') = Len(got) + 1
    <3>1. PICK g \in Seq(Parsed), packet \in Parsed :
              g = got /\ packet = Parse(readBuf, want)
      <4>1. Parse(readBuf, want) \in Parsed
        BY DEF Parsed, ReadTyped, WithinBuffer
      <4> QED
        BY <4>1 DEF History
    <3>2. Len(Append(g, packet)) = Len(g) + 1
      BY AppendProperties
    <3> QED
      BY <2>1, <3>1, <3>2
  <2>4. Remaining' = Left(sent, Len(got) + 1)
    BY <2>1, <2>3 DEF Remaining
  <2>5. Partial' = <<>>
    BY <1>9 DEF Handle, Partial
  <2>6. <<>> \o incoming = incoming
    BY ConcatEmptySeq DEF ReadTyped
  <2> QED
    BY <2>1, <2>2, <2>4, <2>5, <2>6
<1>10. \/ /\ pc \in Session /\ ~stalled
          /\ UNCHANGED <<incoming, sent, got>> /\ Partial' = Partial
       \/ HeaderRead \/ PayloadRead \/ ReadTimesOut \/ Handle
       \/ pc \in Writing /\ Sent
       \/ \E pkt \in ServerPackets : ServerSends(pkt)
       \/ \E n \in 1..4 : ReadHeader(n)
       \/ \E n \in 1..BufferSize : ReadPayload(n)
  <2>1. CASE UNCHANGED vars
    BY <2>1 DEF vars, connectionVars, readVars, ghostVars, Partial
  <2>2. CASE ClientStep
    BY <2>2 DEF ClientStep, Connect, ConnectFails, HelloLength, Hello, ReadVersion,
       HandshakeFails, BackoffOver, BackOff, WriteDone, WriteTorn, WriteTimesOut, ReadFails, Break,
       Cleanup, Session
  <2> QED
    BY <2>1, <2>2 DEF Next
<1> QED
  BY <1>1, <1>2, <1>3, <1>4, <1>5, <1>6, <1>7, <1>8, <1>9, <1>10

LEMMA AlignedStep ==
  Aligned /\ Orderly /\ Fresh /\ Greeted /\ History /\ ReadTyped /\ WithinBuffer /\ Controls
  /\ [Next]_vars => Aligned'
  BY FramedStep, AtHandStep, AllThereStep DEF Aligned

(* The types, and the ghosts. *)
TypeInv ==
    /\ Controls /\ BackoffTyped /\ ReadTyped /\ WriteTyped /\ TotalTyped
    /\ History /\ ReadInv

LEMMA TypeInvInit == Init => TypeInv
<1> SUFFICES ASSUME Init PROVE TypeInv
  OBVIOUS
<1>1. Zeros \in Buffer
  BY DEF Zeros, Buffer, Byte
<1>2. <<>> \in Seq(Byte) /\ <<>> \in Seq(ServerPackets) /\ <<>> \in Seq(Parsed) /\ Len(<<>>) = 0
  BY EmptySeq
<1>3. BufferSize \in Nat /\ 0 \in 0..BufferSize
  BY SmallReads
<1>4. Controls
  BY DEF Init, Controls, Pcs
<1>5. BackoffTyped
  BY NoRetryYet DEF Init, BackoffTyped
<1>6. ReadTyped /\ WriteTyped
  BY <1>1, <1>2, <1>3 DEF Init, ReadTyped, WriteTyped
<1>7. TotalTyped
  BY StreamAssumption DEF Init, TotalTyped
<1>8. History
  BY <1>2 DEF Init, History
<1> QED
  BY <1>4, <1>5, <1>6, <1>7, <1>8, ReadInvInit DEF TypeInv

LEMMA TypeInvStep == TypeInv /\ [Next]_vars => TypeInv'
<1>1. ReadInv => WithinBuffer
  BY DEF ReadInv
<1> QED
  BY <1>1, ControlsStep, BackoffTypedStep, ReadTypedStep, WriteTypedStep, TotalStep, HistoryStep,
     ReadInvStep DEF TypeInv

(* TypeOK: every variable holds what its C type and its use allow, for any *)
(* server.  It needs the two equations no more than the lengths of the     *)
(* sequences: the buffers keep their size because read_packet never asks   *)
(* for more than fits, and the reply of handle_packet fits the write       *)
(* buffer.                                                                 *)
THEOREM StreamTypeOK == Spec => []TypeOK
<1>1. TypeInv => TypeOK
  BY DEF TypeInv, TypeOK, Controls, BackoffTyped, ReadTyped, WriteTyped, TotalTyped, ReadInv,
     WithinBuffer, Buffer
<1> QED
  BY <1>1, TypeInvInit, TypeInvStep, PTL DEF Spec

(* Where the session is, and what was written of what is owed. *)
SessionInv == Fresh /\ Connected /\ Owed

LEMMA SessionInvInit == Init => SessionInv
<1> SUFFICES ASSUME Init PROVE SessionInv
  OBVIOUS
<1>1. <<>> \in Seq(Parsed) /\ DueFor(<<>>) \in Seq(Byte)
  BY EmptySeq, DueType
<1>2. IsPrefix(<<>>, DueFor(<<>>))
  BY <1>1, NothingIsPrefix
<1>3. Owed
  BY <1>2 DEF Init, Owed, Writing
<1> QED
  BY <1>3 DEF Init, SessionInv, Fresh, Connected

LEMMA SessionInvStep == TypeInv /\ SessionInv /\ [Next]_vars => SessionInv'
<1>1. ReadInv => WithinBuffer
  BY DEF ReadInv
<1> QED
  BY <1>1, FreshStep, ConnectedStep, OwedStep DEF SessionInv, TypeInv

(* RepliesWhole: the server never gets anything but the hello and the      *)
(* answers to the packets that handle_packet has seen, in their order, and *)
(* between two packets it has all of them: packet_serialize puts a whole   *)
(* reply over what the write buffer held before, and a tls_client_write    *)
(* that stops half way is the last of its session.                         *)
THEOREM ServerGetsWhatIsDue == Spec => []RepliesWhole
<1>1. SessionInv => RepliesWhole
  BY DueIsFor DEF SessionInv, Owed, RepliesWhole
<1> QED
  BY <1>1, TypeInvInit, TypeInvStep, SessionInvInit, SessionInvStep, PTL DEF Spec

(* The stream is cut where the server joined it. *)
StreamInv == Greeted /\ Orderly /\ Aligned

LEMMA StreamInvInit == Init => StreamInv
<1> SUFFICES ASSUME Init PROVE StreamInv
  OBVIOUS
<1>1. Greeted
  BY DEF Init, Greeted, LengthGreeted, HelloGreeted, VersionGreeted, AllGreeted
<1>2. Len(<<>>) = 0
  BY EmptySeq
<1>3. Orderly
  BY <1>2 DEF Init, Orderly
<1>4. Aligned
  BY DEF Init, Aligned, Framed, AtHand, AllThere, Session
<1> QED
  BY <1>1, <1>3, <1>4 DEF StreamInv

LEMMA StreamInvStep == TypeInv /\ SessionInv /\ StreamInv /\ [Next]_vars => StreamInv'
<1>1. ReadInv => WithinBuffer
  BY DEF ReadInv
<1> QED
  BY <1>1, GreetedStep, OrderlyStep, AlignedStep DEF StreamInv, SessionInv, TypeInv

(* What is still missing of a packet is under way. *)
LEMMA RestIsUnderWay ==
  ASSUME TypeInv, StreamInv, ~stalled
  PROVE  /\ pc = "header" /\ header # <<>> => 4 - Len(header) <= Len(incoming)
         /\ pc = "payload" => want - offset <= Len(incoming)
<1>1. PICK r \in Seq(ServerPackets) : r = Remaining
  BY RemainingType DEF TypeInv, StreamInv
<1>2. PICK t \in Seq(Byte), p \in Seq(Byte) : t = incoming /\ p = Partial
  <2>1. ReadTyped /\ WithinBuffer
    BY DEF TypeInv, ReadInv
  <2>2. SubSeq(readBuf, 1, offset) \in Seq(Byte)
    BY <2>1, BufferSub DEF ReadTyped, WithinBuffer
  <2>3. Partial \in Seq(Byte)
    BY <2>1, <2>2, EmptySeq DEF Partial, ReadTyped
  <2> QED
    BY <2>1, <2>3 DEF ReadTyped
<1>3. Len(p \o t) = Len(p) + Len(t) /\ p \o t \in Seq(Byte) /\ Len(p) \in Nat /\ Len(t) \in Nat
  BY Halves
<1>4. PICK s \in Seq(Byte) : s = p \o t
  BY <1>3
<1>5. pc \in Session => s = Wires(r)
  BY <1>1, <1>2, <1>4 DEF StreamInv, Aligned, Framed
<1>6. ASSUME pc \in Session, s # <<>>
      PROVE  Len(s) >= Len(Wire(r[1])) /\ Len(Wire(r[1])) >= 8
  <2>1. Len(s) >= Len(Wire(r[1])) /\ r[1] \in ServerPackets
    BY <1>5, <1>6, FirstOfStream
  <2>2. Len(Wire(r[1])) >= 8
    BY <2>1, PacketOnWire
  <2> QED
    BY <2>1, <2>2
<1>7. ASSUME pc = "header", header # <<>> PROVE 4 - Len(header) <= Len(incoming)
  <2>1. p = header /\ pc \in Session
    BY <1>2, <1>7 DEF Partial, Session
  <2>2. Len(p) # 0
    BY <1>7, <2>1, EmptySeq
  <2>3. s # <<>>
    BY <1>3, <1>4, <2>2, EmptySeq
  <2>4. Len(s) >= 8
    <3>1. r[1] \in ServerPackets
      BY <1>5, <2>1, <2>3, FirstOfStream
    <3>2. Len(Wire(r[1])) \in Nat /\ Len(s) \in Nat
      BY <3>1, PacketOnWire, LenProperties
    <3> QED
      BY <1>6, <2>1, <2>3, <3>2
  <2> QED
    BY <1>2, <1>3, <1>4, <2>1, <2>4
<1>8. ASSUME pc = "payload" PROVE want - offset <= Len(incoming)
  <2>1. pc \in Session /\ want \in 0..BufferSize /\ offset \in 0..BufferSize
    BY <1>8 DEF Session, TypeInv, ReadInv, WithinBuffer
  <2>2. r # <<>> /\ want = Len(Wire(r[1]))
    BY <1>1, <1>8 DEF StreamInv, Aligned, AtHand
  <2>3. Len(p) = offset
    <3>1. p = SubSeq(readBuf, 1, offset)
      BY <1>2, <1>8 DEF Partial
    <3>2. Len(SubSeq(readBuf, 1, offset)) = offset
      BY <2>1, BufferSub DEF TypeInv, ReadTyped
    <3> QED
      BY <3>1, <3>2
  <2>4. Len(s) >= want
    <3>1. s # <<>>
      <4>1. offset >= 4
        BY <1>8 DEF TypeInv, ReadInv, Prefixed
      <4> QED
        BY <1>3, <1>4, <2>1, <2>3, <4>1, EmptySeq
    <3> QED
      BY <1>6, <2>1, <2>2, <3>1
  <2> QED
    BY <1>2, <1>3, <1>4, <2>1, <2>3, <2>4
<1> QED
  BY <1>7, <1>8

(* InStep: as long as no read_packet gave up in the middle of a packet,    *)
(* handle_packet sees the packets that the server sent, each as it was     *)
(* meant, in their order, none lost and none made up, and read_packet      *)
(* never waits for bytes that the server does not owe: whatever pieces     *)
(* tls_client_read returns, whatever trails the data of a packet and       *)
(* whatever the buffer held before.                                        *)
THEOREM PacketsAreTakenInOrder == Spec => []InStep
<1>1. ASSUME TypeInv, StreamInv PROVE InStep
  <2> SUFFICES ASSUME ~stalled
               PROVE  /\ IsPrefix(got, [i \in DOMAIN sent |-> Meant(sent[i])])
                      /\ pc = "header" /\ header # <<>> => 4 - Len(header) <= Len(incoming)
                      /\ pc = "payload" => want - offset <= Len(incoming)
    BY DEF InStep
  <2>1. PICK s \in Seq(ServerPackets), g \in Seq(Parsed) : s = sent /\ g = got
    BY <1>1 DEF TypeInv, History
  <2>2. Len(g) <= Len(s) /\ \A i \in 1..Len(g) : g[i] = Meant(s[i])
    BY <1>1, <2>1 DEF StreamInv, Orderly
  <2> DEFINE meant == [i \in DOMAIN s |-> Meant(s[i])]
             Readings == {Meant(s[i]) : i \in DOMAIN s}
  <2>3. Len(s) \in Nat /\ DOMAIN s = 1..Len(s) /\ Len(g) \in Nat
    BY LenProperties
  <2>4. meant \in Seq(Readings) /\ Len(meant) = Len(s)
    BY <2>3
  <2>5. \A i \in 1..Len(g) : i \in DOMAIN s
    BY <2>2, <2>3
  <2>6. \A i \in 1..Len(g) : g[i] = meant[i]
    BY <2>2, <2>5
  <2> HIDE DEF meant, Readings
  <2>7. IsPrefix(g, meant)
    BY <2>2, <2>4, <2>6, PrefixElements
  <2> QED
    BY <1>1, <2>1, <2>7, RestIsUnderWay DEF meant
<1> QED
  BY <1>1, TypeInvInit, TypeInvStep, SessionInvInit, SessionInvStep, StreamInvInit,
     StreamInvStep, PTL DEF Spec

-----------------------------------------------------------------------------
(* The delays.                                                             *)

(* The delay after the n-th failure in a row is that of the n-th attempt. *)
BackoffKept == pc = "backoff" /\ retry \in 1..(MaxShift - 1) => delay = Backoff(retry - 1)

LEMMA BackoffKeptStep == BackoffTyped /\ BackoffKept /\ [Next]_vars => BackoffKept'
<1> SUFFICES ASSUME BackoffTyped, BackoffKept, [Next]_vars PROVE BackoffKept'
  OBVIOUS
<1>1. CASE pc' # "backoff"
  BY <1>1 DEF BackoffKept
<1>2. CASE UNCHANGED <<pc, retry, delay>>
  BY <1>2 DEF BackoffKept
<1>3. CASE BackOff
  <2>1. delay' = Backoff(retry) /\ retry' = Counted(retry) /\ retry \in 0..MaxShift
    BY <1>3 DEF BackOff, BackoffTyped, Retry
  <2>2. CASE retry = MaxShift
    BY <2>1, <2>2, ReconnectAssumption DEF Counted, BackoffKept
  <2>3. CASE retry # MaxShift
    <3>1. retry' = retry + 1
      BY <2>1, <2>3 DEF Counted
    <3>2. retry' - 1 = retry
      BY <2>1, <3>1, ReconnectAssumption
    <3> QED
      BY <2>1, <3>2 DEF BackoffKept
  <2> QED
    BY <2>2, <2>3
<1>4. pc' # "backoff" \/ UNCHANGED <<pc, retry, delay>> \/ BackOff
  <2>1. CASE UNCHANGED vars
    BY <2>1 DEF vars, backoffVars
  <2>2. ASSUME NEW pkt \in ServerPackets, ServerSends(pkt) PROVE pc' # "backoff"
    BY <2>2 DEF ServerSends, Session
  <2>3. CASE ClientStep
    BY <2>3 DEF ClientStep, Connect, ConnectFails, HelloLength, Hello, ReadVersion,
       HandshakeFails, BackoffOver, WriteDone, WriteTorn, WriteTimesOut, Sent, ReadHeader,
       HeaderRead, ReadPayload, PayloadRead, ReadTimesOut, ReadFails, Break, Handle, Cleanup
  <2> QED
    BY <2>1, <2>2, <2>3 DEF Next
<1> QED
  BY <1>1, <1>2, <1>3, <1>4

(* The powers that BackoffAsDocumented compares. *)
LEMMA SmallPowers ==
  /\ 2 ^ 0 = 1 /\ 2 ^ 1 = 2 /\ 2 ^ 2 = 4 /\ 2 ^ 3 = 8 /\ 2 ^ 4 = 16 /\ 2 ^ 5 = 32
  /\ 2 ^ 6 = 64 /\ 2 ^ 7 = 128 /\ 2 ^ 8 = 256 /\ 2 ^ 9 = 512
  BY SMT

LEMMA PowersAt ==
  ASSUME NEW k
  PROVE  /\ k = 0 => 2 ^ k = 1
         /\ k = 1 => 2 ^ k = 2
         /\ k = 2 => 2 ^ k = 4
         /\ k = 3 => 2 ^ k = 8
         /\ k = 4 => 2 ^ k = 16
         /\ k = 5 => 2 ^ k = 32
         /\ k = 6 => 2 ^ k = 64
         /\ k = 7 => 2 ^ k = 128
         /\ k = 8 => 2 ^ k = 256
         /\ k = 9 => 2 ^ k = 512
<1>1. k = 0 => 2 ^ k = 1
  BY SmallPowers
<1>2. k = 1 => 2 ^ k = 2
  BY SmallPowers
<1>3. k = 2 => 2 ^ k = 4
  BY SmallPowers
<1>4. k = 3 => 2 ^ k = 8
  BY SmallPowers
<1>5. k = 4 => 2 ^ k = 16
  BY SmallPowers
<1>6. k = 5 => 2 ^ k = 32
  BY SmallPowers
<1>7. k = 6 => 2 ^ k = 64
  BY SmallPowers
<1>8. k = 7 => 2 ^ k = 128
  BY SmallPowers
<1>9. k = 8 => 2 ^ k = 256
  BY SmallPowers
<1>10. k = 9 => 2 ^ k = 512
  BY SmallPowers
<1> QED
  BY <1>1, <1>2, <1>3, <1>4, <1>5, <1>6, <1>7, <1>8, <1>9, <1>10

LEMMA Documented ==
  ASSUME CodeConstants, NEW n \in 1..29
  PROVE  Backoff(n - 1) = IF n <= 10 /\ BaseDelay * 2 ^ (n - 1) < MaxDelay
                          THEN BaseDelay * 2 ^ (n - 1) ELSE MaxDelay
<1>1. BaseDelay = 125 /\ MaxDelay = 7500
  BY DEF CodeConstants
<1>2. CASE n \in 1..10
  <2>1. PICK k \in 0..9 : k = n - 1
    BY <1>2
  <2>2. k = 0 \/ k = 1 \/ k = 2 \/ k = 3 \/ k = 4 \/ k = 5 \/ k = 6 \/ k = 7 \/ k = 8 \/ k = 9
    BY <2>1
  <2>3. /\ k = 0 => Backoff(k) = 125
        /\ k = 1 => Backoff(k) = 250
        /\ k = 2 => Backoff(k) = 500
        /\ k = 3 => Backoff(k) = 1000
        /\ k = 4 => Backoff(k) = 2000
        /\ k = 5 => Backoff(k) = 4000
        /\ k \in 6..28 => Backoff(k) = 7500
    BY DelaysOfTheCode
  <2>4. PICK p : p = 2 ^ k
    OBVIOUS
  <2>5. PICK b : b = Backoff(k)
    OBVIOUS
  <2>6. b = IF 125 * p < 7500 THEN 125 * p ELSE 7500
    BY <2>2, <2>3, <2>4, <2>5, PowersAt
  <2> QED
    BY <1>1, <1>2, <2>1, <2>4, <2>5, <2>6
<1>3. CASE n \in 11..29
  <2>1. n - 1 \in 6..28 /\ ~(n <= 10)
    BY <1>3
  <2>2. Backoff(n - 1) = 7500
    BY <2>1, DelaysOfTheCode
  <2> QED
    BY <1>1, <2>1, <2>2
<1> QED
  BY <1>2, <1>3

(* BackoffAsDocumented: with the constants of reconnect.c the delay after  *)
(* each of the first 29 failures in a row is base * 2^retry capped at the  *)
(* maximum, as its comment says, although the product is computed in 32    *)
(* bits.                                                                   *)
THEOREM DelaysAreAsDocumented ==
  ASSUME CodeConstants
  PROVE  Spec => []BackoffAsDocumented
<1>1. Init => BackoffTyped /\ BackoffKept
  BY NoRetryYet DEF Init, BackoffTyped, BackoffKept
<1>2. BackoffKept => BackoffAsDocumented
  <2> SUFFICES ASSUME BackoffKept, pc = "backoff", retry \in 1..29
               PROVE  delay = IF retry <= 10 /\ BaseDelay * 2 ^ (retry - 1) < MaxDelay
                              THEN BaseDelay * 2 ^ (retry - 1) ELSE MaxDelay
    BY DEF BackoffAsDocumented
  <2>1. MaxShift - 1 = 29
    BY SMT DEF CodeConstants
  <2>2. delay = Backoff(retry - 1)
    BY <2>1 DEF BackoffKept
  <2> QED
    BY <2>2, Documented
<1> QED
  BY <1>1, <1>2, BackoffTypedStep, BackoffKeptStep, PTL DEF Spec
=============================================================================
