------------------------- MODULE Sfp_proofs -------------------------
(***************************************************************************)
(* Data transfer, for every range of sequence numbers, every shorter       *)
(* history and any number of faults: until the transmitter resynchronises, *)
(* packets are delivered in order, and it resynchronises only if it has    *)
(* forgotten the packet it was asked for.                                  *)
(*                                                                         *)
(* The ring buffer of potringbuffer.c, in which it keeps them, for every   *)
(* capacity and all packets: a queue that forgets at the far end.          *)
(*                                                                         *)
(* Two endpoints with their handshakes, resets and lossy lines, for the    *)
(* same choices: the packets of a session are delivered in order, and      *)
(* those of different sessions are not mixed.                              *)
(***************************************************************************)
EXTENDS SfpTransfer, SfpLink, PotRingbuffer, TLAPS, SequenceTheorems

-----------------------------------------------------------------------------
(* Remainders: numbers of packets, and what of them is sent.               *)

\* A quotient and a remainder in range determine the value of %.
LEMMA ModUnique ==
    ASSUME NEW n \in Nat \ {0}, NEW q \in Int, NEW r \in 0 .. n - 1
    PROVE  (q * n + r) % n = r
<1>. DEFINE a == q * n + r
<1>. DEFINE k == a \div n
<1>1. a \in Int /\ k \in Int
  OBVIOUS
<1>2. a = k * n + (a % n) /\ a % n \in 0 .. n - 1
  BY <1>1
<1>. QED
  BY <1>1, <1>2

\* A number is a multiple and its remainder.
LEMMA ModSplit ==
    ASSUME NEW n \in Nat \ {0}, NEW a \in Int
    PROVE  /\ a % n \in 0 .. n - 1
           /\ \E k \in Int : a = k * n + (a % n)
<1>1. a = (a \div n) * n + (a % n) /\ a \div n \in Int /\ a % n \in 0 .. n - 1
  OBVIOUS
<1>. QED
  BY <1>1

\* Numbers that differ by a multiple have the same remainder.
LEMMA ModShift ==
    ASSUME NEW n \in Nat \ {0}, NEW a \in Int, NEW k \in Int
    PROVE  (a + k * n) % n = a % n
<1>1. PICK m \in Int : a = m * n + (a % n)
  BY ModSplit
<1>2. a % n \in 0 .. n - 1
  BY ModSplit
<1>3. ((m + k) * n + (a % n)) % n = a % n
  BY <1>2, m + k \in Int, ModUnique
<1>4. a + k * n = (m + k) * n + (a % n)
  BY <1>1, <1>2
<1>. QED
  BY <1>3, <1>4

\* A term may be reduced before it is added.
LEMMA ModAdd ==
    ASSUME NEW n \in Nat \ {0}, NEW a \in Int, NEW b \in Int
    PROVE  ((a % n) + b) % n = (a + b) % n
<1>1. PICK k \in Int : a = k * n + (a % n)
  BY ModSplit
<1>2. a % n \in 0 .. n - 1
  BY ModSplit
<1>3. (((a % n) + b) + k * n) % n = ((a % n) + b) % n
  BY <1>2, (a % n) + b \in Int, ModShift
<1>4. ((a % n) + b) + k * n = a + b
  BY <1>1, <1>2
<1>. QED
  BY <1>3, <1>4

\* Two numbers closer than n with the same remainder are the same.
LEMMA ModClose ==
    ASSUME NEW n \in Nat \ {0}, NEW a \in Int, NEW b \in Int,
           a % n = b % n, a - b < n, b - a < n
    PROVE  a = b
<1>1. PICK k \in Int : a = k * n + (a % n)
  BY ModSplit
<1>2. PICK m \in Int : b = m * n + (b % n)
  BY ModSplit
<1>3. a % n \in 0 .. n - 1 /\ b % n \in 0 .. n - 1
  BY ModSplit
<1>4. a - b = (k - m) * n
  BY <1>1, <1>2, <1>3
<1>5. k - m = 0
  BY <1>4
<1>. QED
  BY <1>4, <1>5

-----------------------------------------------------------------------------
(* What holds as long as nothing was resynchronised.                       *)

Carries(frame) == frame.type \in {"USR", "RTX"}

(***************************************************************************)
(* Frames on their way, when w packets are written and d delivered.  A     *)
(* frame has the number of its packet.  It is not so old that its number   *)
(* could be mistaken for another, now or when those before it have been    *)
(* accepted.                                                               *)
(***************************************************************************)
Recent(frame, w, d) ==
    Carries(frame) =>
        /\ frame.seq = frame.packet % SEQ_RANGE
        /\ frame.packet < w
        /\ d <= frame.packet + HISTORY_CAPACITY

AllRecent(frames, w, d) ==
    /\ \A i \in 1 .. Len(frames) : Recent(frames[i], w, d)
    /\ \A i, j \in 1 .. Len(frames) :
          i < j /\ Carries(frames[i]) /\ Carries(frames[j]) =>
              frames[i].packet < frames[j].packet + HISTORY_CAPACITY

\* NAKs on their way, when d packets are delivered, ask for the number of the
\* packet that was waited for.
Asked(nak, d) ==
    nak.type = "NAK" =>
        nak.seq = nak.waiting % SEQ_RANGE /\ nak.waiting <= d

AllAsked(asked, d) == \A i \in 1 .. Len(asked) : Asked(asked[i], d)

\* The packets of a history are the last before w.
LastBefore(packets, w) ==
    /\ Len(packets) <= w
    /\ \A i \in 1 .. Len(packets) : packets[i] = w - Len(packets) + (i - 1)

Synchronised ==
    /\ txSeq = written % SEQ_RANGE
    /\ rxSeq = Len(delivered) % SEQ_RANGE
    /\ LastBefore(history, written)
    /\ AllRecent(data, written, Len(delivered))
    /\ AllAsked(naks, Len(delivered))
    /\ Len(delivered) <= written
    /\ written - Len(delivered) <= Window
    /\ \A i \in 1 .. Len(delivered) : delivered[i] = i - 1

\* Only packets that were written are anywhere.
OnlyWritten ==
    /\ \A i \in 1 .. Len(history) : history[i] < written
    /\ \A i \in 1 .. Len(data) : Carries(data[i]) => data[i].packet < written

Inv ==
    /\ TypeOK
    /\ OnlyWritten
    /\ ~resynced => Synchronised

-----------------------------------------------------------------------------
(* Constants and types.                                                    *)

\* There are sequence numbers, and a history holds fewer packets.
LEMMA Sizes ==
    /\ SEQ_RANGE \in Nat \ {0}
    /\ HISTORY_CAPACITY \in Nat \ {0} /\ HISTORY_CAPACITY < SEQ_RANGE
    /\ Window \in Nat /\ Window < SEQ_RANGE
    /\ MaxWritten \in Nat /\ MaxFaults \in Nat
BY SfpAssumption, TransferAssumption

\* Every remainder is a sequence number.
LEMMA SeqType == \A a \in Int : a % SEQ_RANGE \in SFPseq
BY Sizes, ModSplit DEF SFPseq

\* The number after that of a packet is the number of the next packet.
LEMMA NextSeqIs == \A a \in Nat : nextSeq(a % SEQ_RANGE) = (a + 1) % SEQ_RANGE
<1>. SUFFICES ASSUME NEW a \in Nat
              PROVE  ((a % SEQ_RANGE) + 1) % SEQ_RANGE = (a + 1) % SEQ_RANGE
  BY DEF nextSeq
<1>1. a \in Int /\ 1 \in Int /\ SEQ_RANGE \in Nat \ {0}
  BY Sizes
<1>. QED
  BY <1>1, ModAdd

\* Packets are numbers.
LEMMA PacketType == \A packet \in Packet : packet \in Nat
BY Sizes DEF Packet

\* A frame of the data line is damaged or carries a numbered packet.
LEMMA DataFields ==
    ASSUME NEW frame \in Data
    PROVE  /\ frame.type \in {"USR", "RTX", "BAD"}
           /\ Carries(frame) => frame.seq \in SFPseq /\ frame.packet \in Packet
BY DEF Data, Bad, Carries

\* A frame of the other line is damaged or asks for a number.
LEMMA NakFields ==
    ASSUME NEW nak \in Nak
    PROVE  /\ nak.type \in {"NAK", "BAD"}
           /\ nak.type = "NAK" => nak.seq \in SFPseq /\ nak.waiting \in Nat
BY DEF Nak, Bad

-----------------------------------------------------------------------------
(* The data line after each thing that happens to it.                      *)

\* A frame that leaves the line makes no other older.
LEMMA TailRecent ==
    ASSUME NEW frames \in Seq(Data), frames # <<>>,
           NEW w \in Nat, NEW d \in Nat, AllRecent(frames, w, d)
    PROVE  AllRecent(Tail(frames), w, d)
<1>1. /\ Len(Tail(frames)) = Len(frames) - 1
      /\ \A i \in 1 .. Len(Tail(frames)) : Tail(frames)[i] = frames[i + 1]
  BY HeadTailProperties
<1>2. \A i \in 1 .. Len(Tail(frames)) : i + 1 \in 1 .. Len(frames)
  BY <1>1
<1>. QED
  BY <1>1, <1>2 DEF AllRecent

\* When the packet at the head is delivered, those behind it are still not
\* too old.
LEMMA AcceptRecent ==
    ASSUME NEW frames \in Seq(Data), frames # <<>>,
           NEW w \in Nat, NEW d \in Nat, AllRecent(frames, w, d),
           Carries(Head(frames)), Head(frames).packet = d
    PROVE  AllRecent(Tail(frames), w, d + 1)
<1>1. /\ Len(Tail(frames)) = Len(frames) - 1
      /\ \A i \in 1 .. Len(Tail(frames)) : Tail(frames)[i] = frames[i + 1]
      /\ Tail(frames) \in Seq(Data)
      /\ Head(frames) = frames[1]
  BY HeadTailProperties
<1>2. AllRecent(Tail(frames), w, d)
  BY TailRecent
<1>3. ASSUME NEW i \in 1 .. Len(Tail(frames)), Carries(Tail(frames)[i])
      PROVE  d + 1 <= Tail(frames)[i].packet + HISTORY_CAPACITY
  <2>1. /\ 1 \in 1 .. Len(frames) /\ i + 1 \in 1 .. Len(frames) /\ 1 < i + 1
        /\ Carries(frames[1]) /\ Carries(frames[i + 1])
        /\ frames[i + 1] \in Data
    BY <1>1, <1>3
  <2>2. frames[1].packet < frames[i + 1].packet + HISTORY_CAPACITY
    BY <2>1 DEF AllRecent
  <2>3. frames[i + 1].packet \in Int
    BY <2>1, DataFields DEF Packet
  <2>. QED
    BY <1>1, <2>2, <2>3, Sizes
<1>. QED
  BY <1>2, <1>3 DEF AllRecent, Recent

\* A damaged frame carries nothing, in one piece or in two.
LEMMA DebrisIs ==
    ASSUME NEW debris \in Debris
    PROVE  /\ debris \in Seq(Data) /\ debris \in Seq(Nak)
           /\ Len(debris) \in Nat
           /\ \A i \in 1 .. Len(debris) : debris[i] = Bad
           /\ ~Carries(Bad)
           /\ \A d : Asked(Bad, d)
<1>1. Bad \in Data /\ Bad \in Nak
  BY DEF Data, Nak
<1>2. debris = <<Bad>> \/ debris = <<Bad, Bad>>
  BY DEF Debris
<1>3. debris \in Seq(Data) /\ debris \in Seq(Nak) /\ Len(debris) \in Nat
  <2>1. CASE debris = <<Bad>>
    BY <1>1, <2>1
  <2>2. CASE debris = <<Bad, Bad>>
    BY <1>1, <2>2
  <2>. QED
    BY <1>2, <2>1, <2>2
<1>4. \A i \in 1 .. Len(debris) : debris[i] = Bad
  <2>1. CASE debris = <<Bad>>
    BY <2>1
  <2>2. CASE debris = <<Bad, Bad>>
    <3>1. Len(debris) = 2 /\ debris[1] = Bad /\ debris[2] = Bad
      BY <2>2
    <3>2. \A i \in 1 .. 2 : i = 1 \/ i = 2
      OBVIOUS
    <3>. QED
      BY <3>1, <3>2
  <2>. QED
    BY <1>2, <2>1, <2>2
<1>5. ~Carries(Bad) /\ \A d : Asked(Bad, d)
  BY DEF Bad, Carries, Asked
<1>. QED
  BY <1>3, <1>4, <1>5

\* Damage makes no other frame older.
LEMMA DamagedRecent ==
    ASSUME NEW frames \in Seq(Data), frames # <<>>, NEW debris \in Debris,
           NEW w \in Nat, NEW d \in Nat, AllRecent(frames, w, d)
    PROVE  AllRecent(debris \o Tail(frames), w, d)
<1>1. Tail(frames) \in Seq(Data) /\ Len(Tail(frames)) \in Nat
  BY HeadTailProperties
<1>2. /\ debris \in Seq(Data) /\ Len(debris) \in Nat
      /\ \A i \in 1 .. Len(debris) : debris[i] = Bad
      /\ ~Carries(Bad)
  BY DebrisIs
<1>3. AllRecent(Tail(frames), w, d)
  BY TailRecent
<1>4. PICK rest, after : rest = Tail(frames) /\ after = debris \o rest
  OBVIOUS
<1>5. /\ Len(after) = Len(debris) + Len(rest) /\ Len(rest) \in Nat
      /\ \A i \in 1 .. Len(after) :
            after[i] = IF i <= Len(debris) THEN debris[i]
                                           ELSE rest[i - Len(debris)]
  BY <1>1, <1>2, <1>4, ConcatProperties
<1>6. ASSUME NEW i \in 1 .. Len(after), Carries(after[i])
      PROVE  /\ i - Len(debris) \in 1 .. Len(rest)
             /\ after[i] = rest[i - Len(debris)]
  BY <1>2, <1>5, <1>6
<1>7. AllRecent(rest, w, d)
  BY <1>3, <1>4
<1>8. AllRecent(after, w, d)
  <2>1. \A i \in 1 .. Len(after) : Recent(after[i], w, d)
    BY <1>6, <1>7 DEF AllRecent, Recent
  <2>2. ASSUME NEW i \in 1 .. Len(after), NEW j \in 1 .. Len(after), i < j,
               Carries(after[i]), Carries(after[j])
        PROVE  after[i].packet < after[j].packet + HISTORY_CAPACITY
    <3>1. i - Len(debris) < j - Len(debris)
      BY <1>2, <1>5, <2>2
    <3>. QED
      BY <1>6, <1>7, <2>2, <3>1 DEF AllRecent
  <2>. QED
    BY <2>1, <2>2 DEF AllRecent
<1>. QED
  BY <1>4, <1>8

\* The packet just written is the newest of all.
LEMMA WrittenRecent ==
    ASSUME NEW frames \in Seq(Data), NEW w \in Nat, NEW d \in Nat, d <= w,
           w \in Packet, AllRecent(frames, w, d)
    PROVE  AllRecent(Append(frames, UsrFrame(w % SEQ_RANGE, w)), w + 1, d)
<1>. DEFINE frame == UsrFrame(w % SEQ_RANGE, w)
<1>. DEFINE after == Append(frames, frame)
<1>1. frame \in Data /\ frame.seq = w % SEQ_RANGE /\ frame.packet = w
  BY SeqType DEF UsrFrame, Data
<1>2. /\ Len(after) = Len(frames) + 1 /\ Len(frames) \in Nat
      /\ \A i \in 1 .. Len(frames) : after[i] = frames[i]
      /\ after[Len(frames) + 1] = frame
  BY <1>1, AppendProperties
<1>3. \A i \in 1 .. Len(frames) :
         Carries(frames[i]) => frames[i].packet \in Int
  BY DataFields DEF Packet
<1>4. ASSUME NEW i \in 1 .. Len(after)
      PROVE  Recent(after[i], w + 1, d)
  <2>1. CASE i \in 1 .. Len(frames)
    <3>1. Recent(frames[i], w, d) /\ after[i] = frames[i]
      BY <1>2, <2>1 DEF AllRecent
    <3>. QED
      BY <1>3, <2>1, <3>1 DEF Recent
  <2>2. CASE i = Len(frames) + 1
    BY <1>1, <1>2, <2>2, Sizes DEF Recent
  <2>. QED
    BY <1>2, <2>1, <2>2
<1>5. ASSUME NEW i \in 1 .. Len(after), NEW j \in 1 .. Len(after), i < j,
             Carries(after[i]), Carries(after[j])
      PROVE  after[i].packet < after[j].packet + HISTORY_CAPACITY
  <2>1. i \in 1 .. Len(frames) /\ after[i] = frames[i]
    BY <1>2, <1>5
  <2>2. frames[i].packet < w /\ frames[i].packet \in Int
    BY <1>3, <1>5, <2>1 DEF AllRecent, Recent
  <2>3. CASE j \in 1 .. Len(frames)
    BY <1>2, <1>5, <2>1, <2>3 DEF AllRecent
  <2>4. CASE j = Len(frames) + 1
    BY <1>1, <1>2, <2>1, <2>2, <2>4, Sizes
  <2>. QED
    BY <1>2, <2>3, <2>4
<1>. QED
  BY <1>4, <1>5 DEF AllRecent

\* What is sent again are frames, one for each packet.
LEMMA ResentAre ==
    ASSUME NEW kept \in Seq(Packet), NEW seq \in SFPseq
    PROVE  /\ Retransmission(kept, seq) \in Seq(Data)
           /\ Len(Retransmission(kept, seq)) = Len(kept)
           /\ \A i \in 1 .. Len(kept) :
                /\ Carries(Retransmission(kept, seq)[i])
                /\ Retransmission(kept, seq)[i].packet = kept[i]
                /\ Retransmission(kept, seq)[i].seq =
                      (seq + (i - 1)) % SEQ_RANGE
<1>1. \A i \in 1 .. Len(kept) :
         RtxFrame((seq + (i - 1)) % SEQ_RANGE, kept[i]) \in Data
  <2>. SUFFICES ASSUME NEW i \in 1 .. Len(kept)
                PROVE  RtxFrame((seq + (i - 1)) % SEQ_RANGE, kept[i]) \in Data
    OBVIOUS
  <2>1. seq + (i - 1) \in Int
    BY Sizes DEF SFPseq
  <2>2. (seq + (i - 1)) % SEQ_RANGE \in SFPseq
    BY <2>1, SeqType
  <2>. QED
    BY <2>2 DEF RtxFrame, Data
<1>2. /\ Retransmission(kept, seq) \in Seq(Data)
      /\ Len(Retransmission(kept, seq)) = Len(kept)
  BY <1>1 DEF Retransmission
<1>3. \A i \in 1 .. Len(kept) :
         Retransmission(kept, seq)[i]
            = RtxFrame((seq + (i - 1)) % SEQ_RANGE, kept[i])
  BY DEF Retransmission
<1>4. \A number, packet :
         /\ Carries(RtxFrame(number, packet))
         /\ RtxFrame(number, packet).packet = packet
         /\ RtxFrame(number, packet).seq = number
  BY DEF RtxFrame, Carries
<1>. QED
  BY <1>2, <1>3, <1>4

\* The last packets, sent again with the numbers they had, are recent.
LEMMA ResentRecent ==
    ASSUME NEW frames \in Seq(Data), NEW kept \in Seq(Packet),
           NEW w \in Nat, NEW d \in Nat, d <= w,
           NEW first \in Nat, Len(kept) = w - first,
           Len(kept) <= HISTORY_CAPACITY,
           LastBefore(kept, w), AllRecent(frames, w, d)
    PROVE  AllRecent(frames \o Retransmission(kept, first % SEQ_RANGE), w, d)
<1>. DEFINE sent == Retransmission(kept, first % SEQ_RANGE)
<1>. DEFINE after == frames \o sent
<1>1. first % SEQ_RANGE \in SFPseq /\ first \in Int /\ Len(kept) \in Nat
  BY SeqType
<1>2. /\ sent \in Seq(Data) /\ Len(sent) = Len(kept)
      /\ \A i \in 1 .. Len(sent) :
           /\ Carries(sent[i])
           /\ sent[i].packet = kept[i]
           /\ sent[i].seq = ((first % SEQ_RANGE) + (i - 1)) % SEQ_RANGE
  BY <1>1, ResentAre
<1>3. /\ Len(after) = Len(frames) + Len(sent)
      /\ Len(frames) \in Nat
      /\ \A i \in 1 .. Len(after) :
           after[i] = IF i <= Len(frames) THEN frames[i]
                                          ELSE sent[i - Len(frames)]
  BY <1>2, ConcatProperties
<1>. HIDE DEF sent, after
<1>4. ASSUME NEW i \in 1 .. Len(sent) PROVE sent[i].packet = first + (i - 1)
  <2>1. i \in 1 .. Len(kept) /\ sent[i].packet = kept[i]
    BY <1>2
  <2>2. kept[i] = w - Len(kept) + (i - 1)
    BY <2>1 DEF LastBefore
  <2>. QED
    BY <1>1, <2>1, <2>2
<1>5. \A i \in 1 .. Len(sent) : sent[i].seq = sent[i].packet % SEQ_RANGE
  <2>. SUFFICES ASSUME NEW i \in 1 .. Len(sent)
                PROVE  sent[i].seq = sent[i].packet % SEQ_RANGE
    OBVIOUS
  <2>1. ((first % SEQ_RANGE) + (i - 1)) % SEQ_RANGE
           = (first + (i - 1)) % SEQ_RANGE
    BY <1>1, Sizes, i - 1 \in Int, ModAdd
  <2>. QED
    BY <1>2, <1>4, <2>1
<1>6. \A i \in 1 .. Len(sent) :
         /\ sent[i].packet < w
         /\ sent[i].packet + HISTORY_CAPACITY >= w
         /\ sent[i].packet \in Int
  <2>. SUFFICES ASSUME NEW i \in 1 .. Len(sent)
                PROVE  /\ sent[i].packet < w
                       /\ sent[i].packet + HISTORY_CAPACITY >= w
                       /\ sent[i].packet \in Int
    OBVIOUS
  <2>1. sent[i].packet = first + (i - 1) /\ i \in 1 .. w - first
    BY <1>2, <1>4
  <2>2. PICK p : p = sent[i].packet
    OBVIOUS
  <2>3. w - first <= HISTORY_CAPACITY
    OBVIOUS
  <2>4. p = first + (i - 1) /\ i \in Int /\ 1 <= i /\ i <= w - first
    BY <2>1, <2>2
  <2>5. p < w /\ p + HISTORY_CAPACITY >= w /\ p \in Int
    BY <2>3, <2>4, Sizes
  <2>. QED
    BY <2>2, <2>5
<1>7. ASSUME NEW i \in 1 .. Len(after)
      PROVE  Recent(after[i], w, d)
  <2>1. CASE i <= Len(frames)
    <3>1. Recent(frames[i], w, d)
      BY <1>3, <2>1 DEF AllRecent
    <3>. QED
      BY <1>3, <2>1, <3>1
  <2>2. CASE ~(i <= Len(frames))
    <3>. Len(sent) \in Nat /\ Len(frames) \in Nat
      BY <1>1, <1>2, <1>3
    <3>0. Len(after) = Len(frames) + Len(sent)
      BY <1>3
    <3>1. i - Len(frames) \in 1 .. Len(sent)
      BY <2>2, <3>0
    <3>2. /\ after[i] = sent[i - Len(frames)]
          /\ d <= sent[i - Len(frames)].packet + HISTORY_CAPACITY
      <4>1. after[i] = sent[i - Len(frames)]
        BY <1>3, <2>2
      <4>2. /\ sent[i - Len(frames)].packet + HISTORY_CAPACITY >= w
            /\ sent[i - Len(frames)].packet \in Int
        BY <1>6, <3>1
      <4>3. PICK b : b = sent[i - Len(frames)].packet
        OBVIOUS
      <4>4. b + HISTORY_CAPACITY >= w /\ b \in Int
        BY <4>2, <4>3
      <4>5. d <= b + HISTORY_CAPACITY
        BY <4>4, Sizes
      <4>. QED
        BY <4>1, <4>3, <4>5
    <3>. QED
      BY <1>5, <1>6, <3>1, <3>2 DEF Recent
  <2>. QED
    BY <2>1, <2>2
<1>8. ASSUME NEW i \in 1 .. Len(after), NEW j \in 1 .. Len(after), i < j,
             Carries(after[i]), Carries(after[j])
      PROVE  after[i].packet < after[j].packet + HISTORY_CAPACITY
  <2>1. CASE j <= Len(frames)
    <3>1. i <= Len(frames) /\ after[i] = frames[i] /\ after[j] = frames[j]
      BY <1>3, <1>8, <2>1
    <3>. QED
      BY <1>3, <1>8, <2>1, <3>1 DEF AllRecent
  <2>2. CASE ~(j <= Len(frames))
    <3>. Len(sent) \in Nat /\ Len(frames) \in Nat
      BY <1>1, <1>2, <1>3
    <3>0. after[j] = sent[j - Len(frames)]
      BY <1>3, <2>2
    <3>1. /\ j - Len(frames) \in 1 .. Len(sent)
          /\ after[j] = sent[j - Len(frames)]
      <4>1. Len(after) = Len(frames) + Len(sent)
        BY <1>3
      <4>. QED
        BY <2>2, <3>0, <4>1
    <3>2. after[i].packet < w /\ after[i].packet \in Int
      <4>1. CASE i <= Len(frames)
        <5>1. after[i] = frames[i] /\ i \in 1 .. Len(frames)
          BY <1>3, <4>1
        <5>2. frames[i].packet \in Int
          BY <1>8, <5>1, DataFields DEF Packet
        <5>. QED
          BY <1>8, <5>1, <5>2 DEF AllRecent, Recent
      <4>2. CASE ~(i <= Len(frames))
        <5>0. Len(after) = Len(frames) + Len(sent)
          BY <1>3
        <5>1. after[i] = sent[i - Len(frames)]
          BY <1>3, <4>2
        <5>2. i - Len(frames) \in 1 .. Len(sent)
          BY <4>2, <5>0
        <5>. QED
          BY <1>6, <5>1, <5>2
      <4>. QED
        BY <4>1, <4>2
    <3>3. /\ after[j].packet + HISTORY_CAPACITY >= w
          /\ after[j].packet \in Int
      BY <1>6, <3>1
    <3>4. PICK a, b : a = after[i].packet /\ b = after[j].packet
      OBVIOUS
    <3>5. a < b + HISTORY_CAPACITY
      <4>1. a < w /\ a \in Int /\ b + HISTORY_CAPACITY >= w /\ b \in Int
        BY <3>2, <3>3, <3>4
      <4>. QED
        BY <4>1, Sizes
    <3>. QED
      BY <3>4, <3>5
  <2>. QED
    BY <2>1, <2>2
<1>9. AllRecent(after, w, d)
  BY <1>7, <1>8 DEF AllRecent
<1>. QED
  BY <1>9 DEF after, sent

-----------------------------------------------------------------------------
(* The history.                                                            *)

\* Remembering the packet just written keeps the last packets in order.
LEMMA RememberIs ==
    ASSUME NEW packets \in Seq(Packet), Len(packets) <= HISTORY_CAPACITY,
           NEW w \in Packet, \A i \in 1 .. Len(packets) : packets[i] < w
    PROVE  /\ Remember(packets, w) \in Seq(Packet)
           /\ Len(Remember(packets, w)) <= HISTORY_CAPACITY
           /\ \A i \in 1 .. Len(Remember(packets, w)) :
                 Remember(packets, w)[i] < w + 1
           /\ LastBefore(packets, w) => LastBefore(Remember(packets, w), w + 1)
<1>. DEFINE older == IF Len(packets) = HISTORY_CAPACITY THEN Tail(packets)
                     ELSE packets
<1>1. /\ older \in Seq(Packet)
      /\ Len(older) \in Nat /\ Len(older) < HISTORY_CAPACITY
      /\ \A i \in 1 .. Len(older) : older[i] < w /\ older[i] \in Int
      /\ LastBefore(packets, w) => LastBefore(older, w)
  <2>0. /\ Len(packets) \in Nat /\ w \in Int
        /\ \A i \in 1 .. Len(packets) : packets[i] \in Int
    BY PacketType
  <2>1. CASE Len(packets) = HISTORY_CAPACITY
    <3>1. packets # <<>> /\ older = Tail(packets)
      BY <2>1, Sizes
    <3>2. /\ Tail(packets) \in Seq(Packet)
          /\ Len(Tail(packets)) = Len(packets) - 1
          /\ \A i \in 1 .. Len(Tail(packets)) : Tail(packets)[i] = packets[i + 1]
      BY <3>1, HeadTailProperties
    <3>. HIDE DEF older
    <3>3. /\ older \in Seq(Packet) /\ Len(older) = Len(packets) - 1
          /\ \A i \in 1 .. Len(older) :
                i + 1 \in 1 .. Len(packets) /\ older[i] = packets[i + 1]
      BY <2>0, <3>1, <3>2
    <3>4. ASSUME LastBefore(packets, w)
          PROVE  LastBefore(older, w)
      <4>1. \A i \in 1 .. Len(older) :
               packets[i + 1] = w - Len(packets) + ((i + 1) - 1)
        BY <2>0, <3>3, <3>4 DEF LastBefore
      <4>2. \A i \in 1 .. Len(older) :
               older[i] = w - Len(older) + (i - 1)
        BY <2>0, <3>3, <4>1
      <4>3. Len(older) <= w
        BY <2>0, <3>3, <3>4 DEF LastBefore
      <4>. QED
        BY <4>2, <4>3 DEF LastBefore
    <3>. QED
      BY <2>0, <2>1, <3>3, <3>4, Sizes
  <2>2. CASE Len(packets) # HISTORY_CAPACITY
    <3>1. older = packets
      BY <2>2
    <3>. HIDE DEF older
    <3>. QED
      BY <2>0, <2>2, <3>1, Sizes
  <2>. QED
    BY <2>1, <2>2
<1>2. Remember(packets, w) = Append(older, w)
  BY DEF Remember
<1>. HIDE DEF older
<1>3. /\ Append(older, w) \in Seq(Packet)
      /\ Len(Append(older, w)) = Len(older) + 1
      /\ \A i \in 1 .. Len(older) : Append(older, w)[i] = older[i]
      /\ Append(older, w)[Len(older) + 1] = w
  BY <1>1, AppendProperties
<1>4. w \in Int
  BY PacketType
<1>5. ASSUME NEW i \in 1 .. Len(older) + 1
      PROVE  Append(older, w)[i] < w + 1
  BY <1>1, <1>3, <1>4
<1>6. ASSUME LastBefore(older, w)
      PROVE  LastBefore(Append(older, w), w + 1)
  <2>1. Len(older) <= w
    BY <1>6 DEF LastBefore
  <2>2. ASSUME NEW i \in 1 .. Len(older) + 1
        PROVE  Append(older, w)[i] = (w + 1) - (Len(older) + 1) + (i - 1)
    <3>1. CASE i \in 1 .. Len(older)
      BY <1>1, <1>3, <1>4, <1>6, <3>1 DEF LastBefore
    <3>2. CASE i = Len(older) + 1
      BY <1>1, <1>3, <1>4, <3>2
    <3>. QED
      BY <1>1, <3>1, <3>2
  <2>3. Len(Append(older, w)) <= w + 1
    BY <1>1, <1>3, <1>4, <2>1
  <2>. QED
    BY <1>1, <1>3, <2>2, <2>3 DEF LastBefore
<1>. QED
  BY <1>1, <1>2, <1>3, <1>5, <1>6, Sizes

\* What is kept of a history is a part of it.
LEMMA KeptType ==
    ASSUME NEW packets \in Seq(Packet), NEW tx \in SFPseq, NEW seq \in SFPseq,
           NEW w \in Nat, \A i \in 1 .. Len(packets) : packets[i] < w
    PROVE  /\ HistoryFrom(packets, tx, seq) \in Seq(Packet)
           /\ Len(HistoryFrom(packets, tx, seq)) <= Len(packets)
           /\ \A i \in 1 .. Len(HistoryFrom(packets, tx, seq)) :
                 HistoryFrom(packets, tx, seq)[i] < w
           /\ fastforward(packets, tx, seq) \in Nat
<1>1. Len(packets) \in Nat /\ seq - (tx - Len(packets)) \in Int
  BY Sizes DEF SFPseq
<1>2. fastforward(packets, tx, seq) \in Nat
  BY <1>1, SeqType, Sizes DEF fastforward, SFPseq
<1>3. CASE InHistory(packets, tx, seq)
  <2>1. PICK f \in Nat : f = fastforward(packets, tx, seq)
    BY <1>2
  <2>2. f < Len(packets) /\
        HistoryFrom(packets, tx, seq) = SubSeq(packets, f + 1, Len(packets))
    BY <1>1, <1>3, <2>1 DEF InHistory, HistoryFrom
  <2>3. \A i \in f + 1 .. Len(packets) : packets[i] \in Packet
    BY <1>1
  <2>4. /\ SubSeq(packets, f + 1, Len(packets)) \in Seq(Packet)
        /\ Len(SubSeq(packets, f + 1, Len(packets))) = Len(packets) - f
        /\ \A i \in 1 .. Len(packets) - f :
              SubSeq(packets, f + 1, Len(packets))[i] = packets[f + i]
    BY <1>1, <2>2, <2>3, SubSeqProperties
  <2>5. \A i \in 1 .. Len(packets) - f : f + i \in 1 .. Len(packets)
    BY <1>1
  <2>. QED
    BY <1>1, <1>2, <2>2, <2>4, <2>5
<1>4. CASE ~InHistory(packets, tx, seq)
  BY <1>1, <1>2, <1>4 DEF HistoryFrom
<1>. QED
  BY <1>3, <1>4

\* When the packet with the number asked for is there, what is kept are the
\* packets from that one on.
LEMMA KeptIs ==
    ASSUME NEW packets \in Seq(Packet), NEW w \in Nat, NEW seq \in SFPseq,
           LastBefore(packets, w), Len(packets) < SEQ_RANGE,
           InHistory(packets, w % SEQ_RANGE, seq)
    PROVE  \E first \in Nat :
              /\ first < w
              /\ first % SEQ_RANGE = seq
              /\ LET kept == HistoryFrom(packets, w % SEQ_RANGE, seq)
                 IN  /\ Len(kept) = w - first
                     /\ LastBefore(kept, w)
<1>. DEFINE tx == w % SEQ_RANGE
<1>1. /\ tx \in SFPseq /\ tx \in Int /\ Len(packets) \in Nat /\ w \in Int
      /\ seq \in Int /\ seq \in 0 .. SEQ_RANGE - 1
  BY Sizes, ModSplit DEF SFPseq
<1>2. PICK f \in Nat : f = fastforward(packets, tx, seq)
  BY <1>1, SeqType, Sizes DEF fastforward, SFPseq
<1>3. f < Len(packets) /\
      HistoryFrom(packets, tx, seq) = SubSeq(packets, f + 1, Len(packets))
  BY <1>1, <1>2 DEF InHistory, HistoryFrom
<1>. DEFINE first == w - Len(packets) + f
<1>4. first \in Nat /\ first < w
  BY <1>1, <1>3 DEF LastBefore
<1>5. first % SEQ_RANGE = seq
  <2>1. f = (seq - (tx - Len(packets))) % SEQ_RANGE
    BY <1>2 DEF fastforward
  <2>. HIDE DEF tx
  <2>2. PICK k \in Int : seq - (tx - Len(packets)) = k * SEQ_RANGE + f
    BY <1>1, <2>1, Sizes, seq - (tx - Len(packets)) \in Int, ModSplit
  <2>3. PICK m \in Int : w = m * SEQ_RANGE + tx
    BY <1>1, Sizes, ModSplit DEF tx
  <2>4. first = seq + (m - k) * SEQ_RANGE
    BY <1>1, <2>2, <2>3, Sizes
  <2>5. (seq + (m - k) * SEQ_RANGE) % SEQ_RANGE = seq % SEQ_RANGE
    BY <1>1, Sizes, m - k \in Int, ModShift
  <2>6. seq % SEQ_RANGE = seq
    <3>1. (0 * SEQ_RANGE + seq) % SEQ_RANGE = seq
      BY <1>1, Sizes, 0 \in Int, ModUnique
    <3>. QED
      BY <1>1, <3>1, Sizes
  <2>. QED
    BY <2>4, <2>5, <2>6
<1>6. \A i \in f + 1 .. Len(packets) : packets[i] \in Packet
  BY <1>1
<1>7. /\ Len(SubSeq(packets, f + 1, Len(packets))) = Len(packets) - f
      /\ \A i \in 1 .. Len(packets) - f :
            SubSeq(packets, f + 1, Len(packets))[i] = packets[f + i]
  BY <1>1, <1>3, <1>6, SubSeqProperties
<1>8. \A i \in 1 .. Len(packets) - f :
         packets[f + i] = w - (Len(packets) - f) + (i - 1)
  BY <1>1 DEF LastBefore
<1>9. PICK kept : kept = SubSeq(packets, f + 1, Len(packets))
  OBVIOUS
<1>10. Len(kept) = w - first /\ Len(kept) <= w
  BY <1>1, <1>3, <1>4, <1>7, <1>9
<1>11. LastBefore(kept, w)
  BY <1>1, <1>7, <1>8, <1>9, <1>10 DEF LastBefore
<1>. QED
  BY <1>3, <1>4, <1>5, <1>9, <1>10, <1>11

-----------------------------------------------------------------------------
(* The invariant, action by action.                                        *)

\* Writing a packet: it is the newest, with the next number.
LEMMA WriteStep ==
    ASSUME Inv, WriteUSR
    PROVE  Inv'
<1>. USE DEF WriteUSR, rxVars
<1>1. /\ TypeOK /\ OnlyWritten
      /\ written \in Packet /\ written \in Nat
      /\ Len(delivered) \in Nat /\ Len(data) \in Nat
  BY Sizes DEF Inv, TypeOK, Packet
<1>2. /\ Remember(history, written) \in Seq(Packet)
      /\ Len(Remember(history, written)) <= HISTORY_CAPACITY
      /\ \A i \in 1 .. Len(Remember(history, written)) :
            Remember(history, written)[i] < written + 1
      /\ LastBefore(history, written) =>
            LastBefore(Remember(history, written), written + 1)
  BY <1>1, RememberIs DEF TypeOK, OnlyWritten
<1>3. /\ UsrFrame(txSeq, written) \in Data
      /\ UsrFrame(txSeq, written).packet = written
  BY <1>1 DEF TypeOK, UsrFrame, Data
<1>4. /\ data' \in Seq(Data)
      /\ Len(data') = Len(data) + 1
      /\ \A i \in 1 .. Len(data) : data'[i] = data[i]
      /\ data'[Len(data) + 1] = UsrFrame(txSeq, written)
  BY <1>1, <1>3, AppendProperties DEF TypeOK
<1>5. txSeq' \in SFPseq
  BY <1>1, SeqType, Sizes, txSeq + 1 \in Int DEF TypeOK, SFPseq, nextSeq
<1>6. TypeOK'
  BY <1>1, <1>2, <1>4, <1>5, Sizes DEF TypeOK
<1>7. OnlyWritten'
  <2>1. ASSUME NEW i \in 1 .. Len(data'), Carries(data'[i])
        PROVE  data'[i].packet < written'
    <3>1. CASE i \in 1 .. Len(data)
      <4>1. Carries(data[i]) /\ data[i].packet < written
        BY <1>1, <1>4, <2>1, <3>1 DEF OnlyWritten
      <4>2. data[i] \in Data
        BY <1>1, <3>1 DEF TypeOK
      <4>3. data[i].packet \in Nat
        BY <4>1, <4>2, DataFields, PacketType
      <4>. QED
        BY <1>1, <1>4, <3>1, <4>1, <4>3
    <3>2. CASE i = Len(data) + 1
      BY <1>1, <1>3, <1>4, <3>2
    <3>. QED
      BY <1>1, <1>4, <3>1, <3>2
  <2>. QED
    BY <1>2, <2>1 DEF OnlyWritten
<1>8. ASSUME ~resynced
      PROVE  Synchronised'
  <2>1. Synchronised
    BY <1>8 DEF Inv
  <2>2. txSeq' = written' % SEQ_RANGE
    BY <1>1, <2>1, NextSeqIs DEF Synchronised
  <2>3. AllRecent(data', written', Len(delivered'))
    BY <1>1, <2>1, WrittenRecent DEF TypeOK, Synchronised
  <2>4. Len(delivered) <= written + 1 /\ written + 1 - Len(delivered) <= Window
    BY <1>1, <2>1, Sizes DEF Synchronised
  <2>5. LastBefore(history', written')
    BY <1>2, <2>1 DEF Synchronised
  <2>6. /\ rxSeq' = rxSeq /\ delivered' = delivered /\ naks' = naks
        /\ written' = written + 1
    OBVIOUS
  <2>. HIDE DEF WriteUSR, rxVars
  <2>7. Len(delivered') <= written' /\ written' - Len(delivered') <= Window
    BY <1>1, <2>4, <2>6, Sizes
  <2>. QED
    BY <2>1, <2>2, <2>3, <2>5, <2>6, <2>7 DEF Synchronised
<1>. QED
  BY <1>6, <1>7, <1>8 DEF Inv

\* Answering a NAK: what was asked for is there and keeps its numbers, or the
\* transmitter resynchronises.
LEMMA NakStep ==
    ASSUME Inv, AnswerNAK
    PROVE  Inv'
<1>. USE DEF AnswerNAK, rxVars, txVars
<1>1. /\ TypeOK /\ OnlyWritten
      /\ written \in Nat /\ Len(delivered) \in Nat /\ Len(history) \in Nat
      /\ Len(data) \in Nat
  BY DEF Inv, TypeOK
<1>2. /\ Head(naks) \in Nak /\ naks' \in Seq(Nak)
      /\ Len(naks') = Len(naks) - 1
      /\ \A i \in 1 .. Len(naks') : naks'[i] = naks[i + 1]
  BY <1>1, HeadTailProperties DEF TypeOK
<1>3. PICK seq \in SFPseq : seq = Head(naks).seq
  BY <1>2, NakFields
<1>4. ASSUME ~resynced, Synchronised
      PROVE  AllAsked(naks', Len(delivered))
  <2>1. \A i \in 1 .. Len(naks') : i + 1 \in 1 .. Len(naks)
    BY <1>1, <1>2 DEF TypeOK
  <2>. QED
    BY <1>2, <1>4, <2>1 DEF Synchronised, AllAsked
<1>5. CASE seq = txSeq
  <2>1. UNCHANGED <<data, txSeq, history, written, resynced, rxSeq, delivered,
                    faults>>
    BY <1>3, <1>5
  <2>2. TypeOK' /\ OnlyWritten'
    BY <1>1, <1>2, <2>1 DEF TypeOK, OnlyWritten
  <2>3. ~resynced => Synchronised'
    BY <1>4, <2>1 DEF Inv, Synchronised
  <2>. QED
    BY <2>1, <2>2, <2>3 DEF Inv
<1>6. CASE seq # txSeq
  <2>1. PICK kept : kept = HistoryFrom(history, txSeq, seq)
    OBVIOUS
  <2>2. /\ kept \in Seq(Packet) /\ Len(kept) \in Nat
        /\ Len(kept) <= HISTORY_CAPACITY
        /\ \A i \in 1 .. Len(kept) : kept[i] < written
    <3>1. /\ history \in Seq(Packet) /\ txSeq \in SFPseq
          /\ Len(history) <= HISTORY_CAPACITY
          /\ \A i \in 1 .. Len(history) : history[i] < written
      BY <1>1 DEF TypeOK, OnlyWritten
    <3>2. /\ kept \in Seq(Packet)
          /\ Len(kept) <= Len(history)
          /\ \A i \in 1 .. Len(kept) : kept[i] < written
      BY <1>1, <2>1, <3>1, KeptType
    <3>. QED
      BY <1>1, <3>1, <3>2, Sizes
  <2>3. /\ history' = kept
        /\ data' = data \o Retransmission(kept, seq)
        /\ txSeq' = SeqAfter(kept, seq)
        /\ resynced' = (resynced \/ ~InHistory(history, txSeq, seq))
        /\ UNCHANGED <<written, rxSeq, delivered, faults>>
    BY <1>3, <1>6, <2>1
  <2>4. PICK sent \in Seq(Data) :
           /\ sent = Retransmission(kept, seq)
           /\ Len(sent) = Len(kept)
           /\ \A i \in 1 .. Len(kept) : sent[i].packet = kept[i]
    BY <2>2, ResentAre
  <2>5. /\ data' \in Seq(Data)
        /\ Len(data') = Len(data) + Len(sent)
        /\ \A i \in 1 .. Len(data') :
              data'[i] = IF i <= Len(data) THEN data[i]
                                           ELSE sent[i - Len(data)]
    <3>1. data \in Seq(Data) /\ data' = data \o sent
      BY <1>1, <2>3, <2>4 DEF TypeOK
    <3>. QED
      BY <3>1, ConcatProperties
  <2>6. txSeq' \in SFPseq
    BY <2>2, <2>3, SeqType, Sizes, seq + Len(kept) \in Int
       DEF SeqAfter, SFPseq
  <2>7. TypeOK'
    BY <1>1, <1>2, <2>2, <2>3, <2>5, <2>6 DEF TypeOK
  <2>8. OnlyWritten'
    <3>1. ASSUME NEW i \in 1 .. Len(data'), Carries(data'[i])
          PROVE  data'[i].packet < written'
      <4>1. CASE i <= Len(data)
        BY <1>1, <2>3, <2>5, <3>1, <4>1 DEF OnlyWritten
      <4>2. CASE ~(i <= Len(data))
        <5>1. i - Len(data) \in 1 .. Len(kept)
          BY <1>1, <2>2, <2>4, <2>5, <4>2
        <5>. QED
          BY <2>2, <2>3, <2>4, <2>5, <4>2, <5>1
      <4>. QED
        BY <4>1, <4>2
    <3>. QED
      BY <2>2, <2>3, <3>1 DEF OnlyWritten
  <2>9. ASSUME ~resynced'
        PROVE  Synchronised'
    <3>1. ~resynced /\ InHistory(history, txSeq, seq) /\ Synchronised
      BY <2>3, <2>9 DEF Inv
    <3>2. PICK first \in Nat :
             /\ first < written
             /\ first % SEQ_RANGE = seq
             /\ Len(kept) = written - first
             /\ LastBefore(kept, written)
      <4>1. /\ txSeq = written % SEQ_RANGE
            /\ LastBefore(history, written)
            /\ history \in Seq(Packet) /\ Len(history) < SEQ_RANGE
        BY <1>1, <3>1, Sizes DEF Synchronised, TypeOK
      <4>. QED
        BY <1>1, <2>1, <3>1, <4>1, KeptIs
    <3>3. txSeq' = written' % SEQ_RANGE
      <4>1. ((first % SEQ_RANGE) + (written - first)) % SEQ_RANGE
               = (first + (written - first)) % SEQ_RANGE
        BY <1>1, <3>2, Sizes, first \in Int, written - first \in Int, ModAdd
      <4>2. first + (written - first) = written
        BY <1>1, <3>2
      <4>. QED
        BY <2>3, <3>2, <4>1, <4>2 DEF SeqAfter
    <3>4. AllRecent(data', written', Len(delivered'))
      BY <1>1, <2>2, <2>3, <3>1, <3>2, ResentRecent DEF TypeOK, Synchronised
    <3>. QED
      BY <1>4, <2>3, <3>1, <3>2, <3>3, <3>4 DEF Synchronised
  <2>. QED
    BY <2>7, <2>8, <2>9 DEF Inv
<1>. QED
  BY <1>5, <1>6

\* Accepting a frame: the number that is expected is that of the next packet
\* and no other that may be on its way.
LEMMA AcceptedIsNext ==
    ASSUME Inv, ~resynced, Accept
    PROVE  Head(data).packet = Len(delivered)
<1>1. /\ TypeOK /\ Synchronised
      /\ data \in Seq(Data) /\ data # <<>> /\ Head(data) = data[1]
      /\ 1 \in 1 .. Len(data) /\ data[1] \in Data /\ Carries(data[1])
      /\ data[1].seq = rxSeq
  BY DEF Inv, TypeOK, Accept, Carries
<1>2. PICK p \in Nat : p = data[1].packet
  BY <1>1, DataFields, PacketType
<1>3. PICK d \in Nat : d = Len(delivered)
  BY <1>1 DEF TypeOK
<1>4. /\ p % SEQ_RANGE = d % SEQ_RANGE
      /\ p < written /\ d <= p + HISTORY_CAPACITY
  BY <1>1, <1>2, <1>3 DEF Synchronised, AllRecent, Recent
<1>5. written - d <= Window /\ written \in Nat
  BY <1>1, <1>3 DEF Synchronised, TypeOK
<1>6. p - d < SEQ_RANGE /\ d - p < SEQ_RANGE
  BY <1>4, <1>5, Sizes
<1>. QED
  BY <1>1, <1>2, <1>3, <1>4, <1>6, Sizes, ModClose

\* Accepting a frame.
LEMMA AcceptStep ==
    ASSUME Inv, Accept
    PROVE  Inv'
<1>1. /\ TypeOK /\ OnlyWritten
      /\ Len(delivered) \in Nat /\ delivered \in Seq(Packet)
      /\ written \in Nat
      /\ data \in Seq(Data) /\ data # <<>> /\ Head(data) = data[1]
      /\ 1 \in 1 .. Len(data) /\ data[1] \in Data /\ Carries(data[1])
  BY DEF Inv, TypeOK, Accept, Carries
<1>2. /\ Tail(data) \in Seq(Data) /\ Len(Tail(data)) = Len(data) - 1
      /\ \A i \in 1 .. Len(Tail(data)) : Tail(data)[i] = data[i + 1]
  BY <1>1, HeadTailProperties
<1>3. /\ data' = Tail(data) /\ delivered' = Append(delivered, data[1].packet)
      /\ rxSeq' = nextSeq(rxSeq)
      /\ UNCHANGED <<txSeq, history, written, resynced, naks, faults>>
  BY <1>1 DEF Accept, txVars
<1>4. /\ delivered' \in Seq(Packet)
      /\ Len(delivered') = Len(delivered) + 1
      /\ \A i \in 1 .. Len(delivered) : delivered'[i] = delivered[i]
      /\ delivered'[Len(delivered) + 1] = data[1].packet
  BY <1>1, <1>3, DataFields, AppendProperties
<1>5. rxSeq' \in SFPseq
  BY <1>1, <1>3, SeqType, Sizes, rxSeq + 1 \in Int DEF TypeOK, SFPseq, nextSeq
<1>6. TypeOK'
  BY <1>1, <1>2, <1>3, <1>4, <1>5 DEF TypeOK
<1>7. OnlyWritten'
  <2>1. \A i \in 1 .. Len(Tail(data)) : i + 1 \in 1 .. Len(data)
    BY <1>2
  <2>. QED
    BY <1>1, <1>2, <1>3, <2>1 DEF OnlyWritten
<1>8. ASSUME ~resynced
      PROVE  Synchronised'
  <2>1. Synchronised /\ data[1].packet = Len(delivered)
    BY <1>1, <1>8, AcceptedIsNext DEF Inv
  <2>2. rxSeq' = Len(delivered') % SEQ_RANGE
    BY <1>1, <1>3, <1>4, <2>1, NextSeqIs DEF Synchronised
  <2>3. AllRecent(data', written', Len(delivered'))
    BY <1>1, <1>3, <1>4, <2>1, AcceptRecent DEF Synchronised
  <2>4. \A i \in 1 .. Len(delivered') : delivered'[i] = i - 1
    <3>1. Len(delivered) \in Nat
      BY <1>1
    <3>2. \A i \in 1 .. Len(delivered) : delivered[i] = i - 1
      BY <2>1 DEF Synchronised
    <3>. QED
      BY <1>4, <2>1, <3>1, <3>2
  <2>5. Len(delivered') <= written' /\ written' - Len(delivered') <= Window
    <3>1. Len(delivered) < written /\ written - Len(delivered) <= Window
      BY <1>1, <2>1 DEF OnlyWritten, Synchronised
    <3>. QED
      BY <1>1, <1>3, <1>4, <3>1, Sizes
  <2>6. AllAsked(naks', Len(delivered'))
    <3>. SUFFICES ASSUME NEW i \in 1 .. Len(naks), naks[i].type = "NAK"
                  PROVE  /\ naks[i].seq = naks[i].waiting % SEQ_RANGE
                         /\ naks[i].waiting <= Len(delivered')
      BY <1>3 DEF AllAsked, Asked
    <3>1. naks[i].waiting \in Nat
      BY <1>1, NakFields DEF TypeOK
    <3>. QED
      BY <1>1, <1>4, <2>1, <3>1 DEF Synchronised, AllAsked, Asked
  <2>. QED
    BY <1>3, <2>1, <2>2, <2>3, <2>4, <2>5, <2>6 DEF Synchronised
<1>. QED
  BY <1>3, <1>6, <1>7, <1>8 DEF Inv

\* The data line without its first frame.
LEMMA DataShorter ==
    ASSUME Inv, data # <<>>, data' = Tail(data),
           UNCHANGED <<txVars, rxVars>>
    PROVE  /\ data' \in Seq(Data)
           /\ OnlyWritten'
           /\ Synchronised => AllRecent(data', written, Len(delivered))
<1>1. /\ data \in Seq(Data) /\ written \in Nat /\ Len(delivered) \in Nat
      /\ OnlyWritten
  BY DEF Inv, TypeOK
<1>2. /\ data' \in Seq(Data) /\ Len(data') = Len(data) - 1
      /\ \A i \in 1 .. Len(data') : data'[i] = data[i + 1]
  BY <1>1, HeadTailProperties
<1>3. OnlyWritten'
  <2>1. \A i \in 1 .. Len(data') : i + 1 \in 1 .. Len(data)
    BY <1>1, <1>2
  <2>. QED
    BY <1>1, <1>2, <2>1 DEF OnlyWritten, txVars
<1>. QED
  BY <1>1, <1>2, <1>3, TailRecent DEF Synchronised

\* The data line with its first frame damaged.
LEMMA DataDamaged ==
    ASSUME Inv, data # <<>>, NEW debris \in Debris,
           data' = debris \o Tail(data), UNCHANGED <<txVars, rxVars>>
    PROVE  /\ data' \in Seq(Data)
           /\ OnlyWritten'
           /\ Synchronised => AllRecent(data', written, Len(delivered))
<1>1. /\ data \in Seq(Data) /\ written \in Nat /\ Len(delivered) \in Nat
      /\ OnlyWritten /\ Len(data) \in Nat
  BY DEF Inv, TypeOK
<1>2. /\ Tail(data) \in Seq(Data) /\ Len(Tail(data)) = Len(data) - 1
      /\ \A i \in 1 .. Len(Tail(data)) : Tail(data)[i] = data[i + 1]
  BY <1>1, HeadTailProperties
<1>3. /\ debris \in Seq(Data) /\ Len(debris) \in Nat
      /\ \A i \in 1 .. Len(debris) : debris[i] = Bad
      /\ ~Carries(Bad)
  BY DebrisIs
<1>4. /\ data' \in Seq(Data) /\ Len(data') = Len(debris) + Len(Tail(data))
      /\ \A i \in 1 .. Len(data') :
            data'[i] = IF i <= Len(debris) THEN debris[i]
                                           ELSE Tail(data)[i - Len(debris)]
  BY <1>1, <1>2, <1>3, ConcatProperties
<1>5. ASSUME NEW i \in 1 .. Len(data'), Carries(data'[i])
      PROVE  \E j \in 1 .. Len(data) : data'[i] = data[j]
  <2>1. i - Len(debris) \in 1 .. Len(Tail(data))
    BY <1>1, <1>2, <1>3, <1>4, <1>5
  <2>2. (i - Len(debris)) + 1 \in 1 .. Len(data)
    BY <1>1, <1>2, <2>1
  <2>3. data'[i] = data[(i - Len(debris)) + 1]
    BY <1>1, <1>2, <1>3, <1>4, <2>1
  <2>. QED
    BY <2>2, <2>3
<1>6. OnlyWritten'
  BY <1>1, <1>5 DEF OnlyWritten, txVars
<1>. QED
  BY <1>1, <1>4, <1>6, DamagedRecent DEF Synchronised

\* The other line without its first frame.
LEMMA NaksShorter ==
    ASSUME Inv, naks # <<>>, naks' = Tail(naks)
    PROVE  /\ naks' \in Seq(Nak)
           /\ Synchronised => AllAsked(naks', Len(delivered))
<1>1. naks \in Seq(Nak)
  BY DEF Inv, TypeOK
<1>2. /\ naks' \in Seq(Nak) /\ Len(naks') = Len(naks) - 1
      /\ \A i \in 1 .. Len(naks') : naks'[i] = naks[i + 1]
  BY <1>1, HeadTailProperties
<1>3. \A i \in 1 .. Len(naks') : i + 1 \in 1 .. Len(naks)
  BY <1>1, <1>2
<1>. QED
  BY <1>2, <1>3 DEF Synchronised, AllAsked

\* The other line with its first frame damaged.
LEMMA NaksDamaged ==
    ASSUME Inv, naks # <<>>, NEW debris \in Debris,
           naks' = debris \o Tail(naks)
    PROVE  /\ naks' \in Seq(Nak)
           /\ Synchronised => AllAsked(naks', Len(delivered))
<1>1. naks \in Seq(Nak) /\ Len(naks) \in Nat
  BY DEF Inv, TypeOK
<1>2. /\ Tail(naks) \in Seq(Nak) /\ Len(Tail(naks)) = Len(naks) - 1
      /\ \A i \in 1 .. Len(Tail(naks)) : Tail(naks)[i] = naks[i + 1]
  BY <1>1, HeadTailProperties
<1>3. /\ debris \in Seq(Nak) /\ Len(debris) \in Nat
      /\ \A i \in 1 .. Len(debris) : debris[i] = Bad
      /\ \A d : Asked(Bad, d)
  BY DebrisIs
<1>4. /\ naks' \in Seq(Nak) /\ Len(naks') = Len(debris) + Len(Tail(naks))
      /\ \A i \in 1 .. Len(naks') :
            naks'[i] = IF i <= Len(debris) THEN debris[i]
                                           ELSE Tail(naks)[i - Len(debris)]
  BY <1>1, <1>2, <1>3, ConcatProperties
<1>5. ASSUME Synchronised, NEW i \in 1 .. Len(naks')
      PROVE  Asked(naks'[i], Len(delivered))
  <2>1. CASE i <= Len(debris)
    BY <1>3, <1>4, <2>1
  <2>2. CASE ~(i <= Len(debris))
    <3>1. i - Len(debris) \in 1 .. Len(Tail(naks))
      BY <1>1, <1>2, <1>3, <1>4, <2>2
    <3>2. (i - Len(debris)) + 1 \in 1 .. Len(naks)
      BY <1>1, <1>2, <3>1
    <3>3. naks'[i] = naks[(i - Len(debris)) + 1]
      BY <1>2, <1>4, <2>2, <3>1
    <3>. QED
      BY <1>5, <3>2, <3>3 DEF Synchronised, AllAsked
  <2>. QED
    BY <2>1, <2>2
<1>. QED
  BY <1>4, <1>5 DEF AllAsked

\* The receiver asks for the number it expects.
LEMMA NaksLonger ==
    ASSUME Inv, naks' = Append(naks, ReceiverNak)
    PROVE  /\ naks' \in Seq(Nak)
           /\ Synchronised => AllAsked(naks', Len(delivered))
<1>1. /\ naks \in Seq(Nak) /\ Len(naks) \in Nat /\ Len(delivered) \in Nat
      /\ rxSeq \in SFPseq
  BY DEF Inv, TypeOK
<1>2. ReceiverNak \in Nak
  BY <1>1 DEF ReceiverNak, Nak
<1>3. /\ naks' \in Seq(Nak) /\ Len(naks') = Len(naks) + 1
      /\ \A i \in 1 .. Len(naks) : naks'[i] = naks[i]
      /\ naks'[Len(naks) + 1] = ReceiverNak
  BY <1>1, <1>2, AppendProperties
<1>4. Synchronised => Asked(ReceiverNak, Len(delivered))
  BY <1>1 DEF Synchronised, Asked, ReceiverNak
<1>. QED
  BY <1>1, <1>3, <1>4 DEF Synchronised, AllAsked

\* A step that changes only what is on the lines.
LEMMA LinesStep ==
    ASSUME Inv, UNCHANGED <<txVars, rxVars>>,
           faults' \in 0 .. MaxFaults,
           data' \in Seq(Data), OnlyWritten',
           Synchronised => AllRecent(data', written, Len(delivered)),
           naks' \in Seq(Nak),
           Synchronised => AllAsked(naks', Len(delivered))
    PROVE  Inv'
<1>1. TypeOK'
  BY DEF Inv, TypeOK, txVars, rxVars
<1>2. ~resynced => Synchronised'
  BY DEF Inv, Synchronised, txVars, rxVars
<1>. QED
  BY <1>1, <1>2 DEF Inv, txVars

\* What does not change keeps what the invariant says of it.
LEMMA LinesKept ==
    ASSUME Inv
    PROVE  /\ faults \in 0 .. MaxFaults
           /\ UNCHANGED <<data, txVars>> =>
                /\ data' \in Seq(Data) /\ OnlyWritten'
                /\ Synchronised => AllRecent(data', written, Len(delivered))
           /\ UNCHANGED naks =>
                /\ naks' \in Seq(Nak)
                /\ Synchronised => AllAsked(naks', Len(delivered))
BY DEF Inv, TypeOK, OnlyWritten, Synchronised, txVars

\* Every step keeps the invariant.
LEMMA InvStep ==
    ASSUME Inv, [Next]_vars
    PROVE  Inv'
<1>1. CASE DropBadNAK
  BY <1>1, LinesKept, NaksShorter, LinesStep DEF DropBadNAK
<1>2. CASE Reject
  <2>1. data # <<>> /\ data' = Tail(data) /\ UNCHANGED <<txVars, rxVars, faults>>
    BY <1>2 DEF Reject
  <2>2. naks' = Append(naks, ReceiverNak) \/ UNCHANGED naks
    BY <1>2 DEF Reject
  <2>. QED
    BY <2>1, <2>2, LinesKept, DataShorter, NaksLonger, LinesStep
<1>3. CASE RejectBad
  BY <1>3, LinesKept, DataShorter, NaksLonger, LinesStep DEF RejectBad
<1>4. CASE LoseFrame \/ DamageFrame
  <2>1. faults' \in 0 .. MaxFaults /\ UNCHANGED <<txVars, rxVars>>
    BY <1>4, LinesKept, Sizes DEF LoseFrame, DamageFrame
  <2>2. CASE data # <<>> /\ data' = Tail(data) /\ UNCHANGED naks
    BY <2>1, <2>2, LinesKept, DataShorter, LinesStep
  <2>3. CASE naks # <<>> /\ naks' = Tail(naks) /\ UNCHANGED data
    BY <2>1, <2>3, LinesKept, NaksShorter, LinesStep
  <2>4. ASSUME NEW debris \in Debris,
               data # <<>>, data' = debris \o Tail(data), UNCHANGED naks
        PROVE  Inv'
    BY <2>1, <2>4, LinesKept, DataDamaged, LinesStep
  <2>5. ASSUME NEW debris \in Debris,
               naks # <<>>, naks' = debris \o Tail(naks), UNCHANGED data
        PROVE  Inv'
    BY <2>1, <2>5, LinesKept, NaksDamaged, LinesStep
  <2>. QED
    BY <1>4, <2>2, <2>3, <2>4, <2>5 DEF LoseFrame, DamageFrame
<1>5. CASE UNCHANGED vars
  BY <1>5, LinesKept, LinesStep DEF vars, txVars, rxVars
<1>. QED
  BY <1>1, <1>2, <1>3, <1>4, <1>5, WriteStep, NakStep, AcceptStep
     DEF Next, Transmitter, Receiver

\* The invariant holds at first.
LEMMA InvInit == Init => Inv
<1>. SUFFICES ASSUME Init PROVE Inv
  OBVIOUS
<1>1. 0 % SEQ_RANGE = 0 /\ 0 \in SFPseq
  <2>1. (0 * SEQ_RANGE + 0) % SEQ_RANGE = 0
    BY Sizes, ModUnique
  <2>. QED
    BY <2>1, Sizes DEF SFPseq
<1>2. TypeOK
  <2>1. /\ history = <<>> /\ data = <<>> /\ naks = <<>> /\ delivered = <<>>
        /\ txSeq = 0 /\ rxSeq = 0 /\ written = 0 /\ resynced = FALSE
        /\ faults = 0
    BY DEF Init, SFP_INITIAL_SEQ
  <2>2. /\ history \in Seq(Packet) /\ Len(history) = 0
        /\ data \in Seq(Data) /\ naks \in Seq(Nak)
        /\ delivered \in Seq(Packet)
    BY <2>1
  <2>3. 0 \in 0 .. MaxWritten /\ 0 \in 0 .. MaxFaults
    BY Sizes
  <2>4. Len(history) <= HISTORY_CAPACITY /\ resynced \in BOOLEAN
    <3>1. Len(history) <= HISTORY_CAPACITY
      BY <2>2, Sizes
    <3>2. resynced \in BOOLEAN
      BY <2>1
    <3>. QED
      BY <3>1, <3>2
  <2>. QED
    BY <1>1, <2>1, <2>2, <2>3, <2>4 DEF TypeOK
<1>3. OnlyWritten
  BY DEF Init, OnlyWritten
<1>4. Synchronised
  BY <1>1, Sizes DEF Init, Synchronised, SFP_INITIAL_SEQ, LastBefore,
     AllRecent, AllAsked
<1>. QED
  BY <1>2, <1>3, <1>4 DEF Inv

\* The invariant holds in every reachable state.
LEMMA InvHolds == Spec => []Inv
<1>1. Inv /\ [Next]_vars => Inv'
  BY InvStep
<1>. QED
  BY <1>1, InvInit, PTL DEF Spec

-----------------------------------------------------------------------------
(* The properties.                                                         *)

\* Sequence numbers stay in range, the history within its capacity, and the
\* lines carry frames, whatever is lost or damaged.
THEOREM TypeCorrect == Spec => []TypeOK
<1>1. Inv => TypeOK
  BY DEF Inv
<1>. QED
  BY <1>1, InvHolds, PTL

\* Until the transmitter resynchronises, sfpHandleUSR delivers every packet
\* once and in order, for every range of sequence numbers larger than the
\* history and than the number of packets outstanding.
THEOREM InOrder == Spec => []DeliveredInOrder
<1>1. Inv => DeliveredInOrder
  BY DEF Inv, Synchronised, DeliveredInOrder
<1>. QED
  BY <1>1, InvHolds, PTL

\* A NAK for a packet that is still in the history never makes
\* sfpTransmitHistoryFromSeq resynchronise.
LEMMA ForgottenStep ==
    ASSUME Inv, [Next]_vars, ~resynced, resynced'
    PROVE  Head(naks).waiting < written - Len(history)
<1>1. AnswerNAK /\ Synchronised /\ TypeOK
  BY DEF Inv, Next, Transmitter, Receiver, WriteUSR, DropBadNAK, Accept,
     Reject, RejectBad, LoseFrame, DamageFrame, vars, txVars
<1>2. /\ naks \in Seq(Nak) /\ naks # <<>> /\ Head(naks) = naks[1]
      /\ 1 \in 1 .. Len(naks) /\ naks[1] \in Nak /\ naks[1].type = "NAK"
  BY <1>1 DEF AnswerNAK, TypeOK
<1>3. PICK x \in Nat : x = Head(naks).waiting
  BY <1>2, NakFields
<1>4. PICK w, h, d : w = written /\ h = Len(history) /\ d = Len(delivered)
  OBVIOUS
<1>5. /\ Head(naks).seq = x % SEQ_RANGE /\ x <= d /\ d <= w
      /\ txSeq = w % SEQ_RANGE /\ h < SEQ_RANGE
      /\ h <= w
      /\ w \in Nat /\ h \in Nat /\ d \in Nat
  <2>1. Asked(naks[1], d)
    BY <1>1, <1>2, <1>4 DEF Synchronised, AllAsked
  <2>2. /\ d <= w /\ txSeq = w % SEQ_RANGE /\ h <= w
    BY <1>1, <1>4 DEF Synchronised, LastBefore
  <2>3. /\ w \in Nat /\ h \in Nat /\ d \in Nat /\ h <= HISTORY_CAPACITY
    BY <1>1, <1>4, Sizes DEF TypeOK
  <2>4. Head(naks).seq = x % SEQ_RANGE /\ x <= d
    BY <1>2, <1>3, <2>1 DEF Asked
  <2>. QED
    BY <2>2, <2>3, <2>4, Sizes
<1>6. /\ x % SEQ_RANGE # w % SEQ_RANGE
      /\ ~InHistory(history, w % SEQ_RANGE, x % SEQ_RANGE)
  BY <1>1, <1>2, <1>5 DEF AnswerNAK, txVars
<1>7. fastforward(history, w % SEQ_RANGE, x % SEQ_RANGE)
         = (x - (w - h)) % SEQ_RANGE
  <2>1. PICK a \in 0 .. SEQ_RANGE - 1, k \in Int :
           a = x % SEQ_RANGE /\ x = k * SEQ_RANGE + a
    <3>1. PICK k \in Int : x = k * SEQ_RANGE + (x % SEQ_RANGE)
      BY <1>5, Sizes, x \in Int, ModSplit
    <3>2. x % SEQ_RANGE \in 0 .. SEQ_RANGE - 1
      BY <1>5, Sizes, x \in Int, ModSplit
    <3>. QED
      BY <3>1, <3>2
  <2>2. PICK b \in 0 .. SEQ_RANGE - 1, m \in Int :
           b = w % SEQ_RANGE /\ w = m * SEQ_RANGE + b
    <3>1. PICK m \in Int : w = m * SEQ_RANGE + (w % SEQ_RANGE)
      BY <1>5, Sizes, w \in Int, ModSplit
    <3>2. w % SEQ_RANGE \in 0 .. SEQ_RANGE - 1
      BY <1>5, Sizes, w \in Int, ModSplit
    <3>. QED
      BY <3>1, <3>2
  <2>3. x - (w - h) = (a - (b - h)) + (k - m) * SEQ_RANGE
    BY <1>5, <2>1, <2>2, Sizes
  <2>4. ((a - (b - h)) + (k - m) * SEQ_RANGE) % SEQ_RANGE
           = (a - (b - h)) % SEQ_RANGE
    <3>1. a - (b - h) \in Int /\ k - m \in Int
      BY <1>5, <2>1, <2>2, Sizes
    <3>. QED
      BY <3>1, Sizes, ModShift
  <2>. QED
    BY <1>4, <2>1, <2>2, <2>3, <2>4 DEF fastforward
<1>8. ASSUME x >= w - h PROVE FALSE
  <2>1. x # w
    BY <1>6
  <2>2. x - (w - h) \in 0 .. h - 1
    BY <1>5, <1>8, <2>1
  <2>3. (0 * SEQ_RANGE + (x - (w - h))) % SEQ_RANGE = x - (w - h)
    <3>1. x - (w - h) \in 0 .. SEQ_RANGE - 1 /\ 0 \in Int
      BY <1>5, <2>2, Sizes
    <3>. QED
      BY <3>1, Sizes, ModUnique
  <2>4. (x - (w - h)) % SEQ_RANGE = x - (w - h)
    BY <1>5, <2>2, <2>3, Sizes
  <2>5. h > fastforward(history, w % SEQ_RANGE, x % SEQ_RANGE)
    BY <1>5, <1>7, <2>2, <2>4
  <2>. QED
    BY <1>4, <1>6, <2>5 DEF InHistory
<1>. QED
  BY <1>3, <1>4, <1>5, <1>8

\* The transmitter forgets which packet had which number only if the packet
\* it was asked for has left the history.
THEOREM ResyncJustified == Spec => ResyncOnlyIfForgotten
<1>1. Inv /\ [Next]_vars =>
         [~resynced /\ resynced' =>
             Head(naks).waiting < written - Len(history)]_vars
  BY ForgottenStep
<1>. QED
  BY <1>1, InvHolds, PTL DEF Spec, ResyncOnlyIfForgotten

\* Every step of a direction of the link is a step of the stream it promises.
LEMMA StepRefines ==
    ASSUME Inv, [Next]_vars
    PROVE  [Stream!Next]_(Stream!vars)
<1>1. CASE WriteUSR
  BY <1>1 DEF WriteUSR, rxVars, Stream!Next, Stream!Write
<1>2. CASE AnswerNAK
  <2>1. UNCHANGED <<written, delivered>>
    BY <1>2 DEF AnswerNAK, rxVars, txVars
  <2>2. UNCHANGED resynced \/ resynced' = TRUE
    BY <1>2 DEF Inv, TypeOK, AnswerNAK, txVars
  <2>. QED
    BY <2>1, <2>2 DEF Stream!Next, Stream!Resynchronise, Stream!vars
<1>3. CASE Accept
  <2>1. /\ data # <<>> /\ Carries(Head(data)) /\ Head(data) \in Data
        /\ delivered' = Append(delivered, Head(data).packet)
        /\ UNCHANGED <<written, resynced>>
    BY <1>3 DEF Inv, TypeOK, Accept, txVars, Carries
  <2>2. Head(data).packet < written /\ Head(data).packet \in Nat
    <3>1. Head(data) = data[1] /\ 1 \in 1 .. Len(data)
      BY <2>1 DEF Inv, TypeOK
    <3>2. Head(data).packet < written
      BY <2>1, <3>1 DEF Inv, OnlyWritten
    <3>. QED
      BY <2>1, <3>2, DataFields, PacketType
  <2>3. CASE resynced
    <3>1. Head(data).packet \in 0 .. written - 1
      BY <2>2 DEF Inv, TypeOK
    <3>. QED
      BY <2>1, <2>3, <3>1 DEF Stream!Next, Stream!DeliverAny
  <2>4. CASE ~resynced
    <3>1. Head(data).packet = Len(delivered)
      BY <1>3, <2>4, AcceptedIsNext
    <3>. QED
      BY <2>1, <2>2, <3>1 DEF Stream!Next, Stream!Deliver
  <2>. QED
    BY <2>3, <2>4
<1>4. CASE DropBadNAK \/ Reject \/ RejectBad \/ LoseFrame \/ DamageFrame
  <2>1. UNCHANGED <<txVars, rxVars>>
    BY <1>4 DEF DropBadNAK, Reject, RejectBad, LoseFrame, DamageFrame
  <2>. QED
    BY <2>1 DEF txVars, rxVars, Stream!vars
<1>5. CASE UNCHANGED vars
  BY <1>5 DEF vars, Stream!vars
<1>. QED
  BY <1>1, <1>2, <1>3, <1>4, <1>5 DEF Next, Transmitter, Receiver

\* One direction of the link implements the reliable stream.
THEOREM TransferImplementsStream == Spec => ImplementsReliableStream
<1>1. Init => Stream!Init
  BY DEF Init, Stream!Init
<1>2. Inv /\ [Next]_vars => [Stream!Next]_(Stream!vars)
  BY StepRefines
<1>. QED
  BY <1>1, <1>2, InvHolds, PTL DEF Spec, ImplementsReliableStream, Stream!Spec

-----------------------------------------------------------------------------
(* The ring buffer that the history is kept in (PotRingbuffer), for any     *)
(* packets: remainders case by case, as the solver reasons about the linear *)
(* forms.                                                                   *)

\* A buffer has at least one slot.
LEMMA CapacityPositive == Capacity \in Nat \ {0}
BY CapacityAssumption

\* What Incr and Decr do to an index: one step around the two laps.
LEMMA IncrDecr ==
    ASSUME NEW i \in Index
    PROVE  /\ Incr(i) = IF i = 2 * Capacity - 1 THEN 0 ELSE i + 1
           /\ Decr(i) = IF i = 0 THEN 2 * Capacity - 1 ELSE i - 1
<1>. USE CapacityPositive
<1>. DEFINE n == 2 * Capacity
<1>1. n \in Nat \ {0}
  OBVIOUS
<1>2. \A q \in Int, r \in 0 .. n - 1 : (q * n + r) % n = r
  BY <1>1, ModUnique
<1>3. ASSUME i = n - 1 PROVE (i + 1) % n = 0
  BY <1>2, <1>3, i + 1 = 1 * n + 0
<1>4. ASSUME i # n - 1 PROVE (i + 1) % n = i + 1
  BY <1>2, <1>4, i + 1 = 0 * n + (i + 1) DEF Index
<1>5. ASSUME i = 0 PROVE (i - 1) % n = n - 1
  BY <1>2, <1>5, i - 1 = (-1) * n + (n - 1)
<1>6. ASSUME i # 0 PROVE (i - 1) % n = i - 1
  BY <1>2, <1>6, i - 1 = 0 * n + (i - 1) DEF Index
<1>. QED
  BY <1>3, <1>4, <1>5, <1>6 DEF Incr, Decr

\* The slot of an index, and of the sums and differences the code masks.
LEMMA SlotOfIs ==
    ASSUME NEW a \in -1 .. 3 * Capacity - 1
    PROVE  /\ a = -1 => SlotOf(a) = Capacity - 1
           /\ a \in 0 .. Capacity - 1 => SlotOf(a) = a
           /\ a \in Capacity .. 2 * Capacity - 1 =>
                 SlotOf(a) = a - Capacity
           /\ a \in 2 * Capacity .. 3 * Capacity - 1 =>
                SlotOf(a) = a - 2 * Capacity
<1>. USE CapacityPositive
<1>1. \A q \in Int, r \in 0 .. Capacity - 1 :
         (q * Capacity + r) % Capacity = r
  BY ModUnique
<1>2. CASE a = -1
  BY <1>1, <1>2, a = (-1) * Capacity + (Capacity - 1) DEF SlotOf
<1>3. CASE a \in 0 .. Capacity - 1
  BY <1>1, <1>3, a = 0 * Capacity + a DEF SlotOf
<1>4. CASE a \in Capacity .. 2 * Capacity - 1
  BY <1>1, <1>4, a = 1 * Capacity + (a - Capacity) DEF SlotOf
<1>5. CASE a \in 2 * Capacity .. 3 * Capacity - 1
  BY <1>1, <1>5, a = 2 * Capacity + (a - 2 * Capacity) DEF SlotOf
<1>. QED
  BY <1>2, <1>3, <1>4, <1>5

\* How far index e is ahead of index b, counted around the two laps.
Ahead(b, e) == IF b <= e THEN e - b ELSE e - b + 2 * Capacity

\* The masked difference that the code computes is that distance.
LEMMA DifferenceIsAhead ==
    ASSUME NEW b \in Index, NEW e \in Index
    PROVE  (e - b) % (2 * Capacity) = Ahead(b, e)
<1>. USE CapacityPositive
<1>. DEFINE n == 2 * Capacity
<1>1. n \in Nat \ {0}
  OBVIOUS
<1>2. \A q \in Int, r \in 0 .. n - 1 : (q * n + r) % n = r
  BY <1>1, ModUnique
<1>3. CASE b <= e
  BY <1>2, <1>3, e - b = 0 * n + (e - b) DEF Index, Ahead
<1>4. CASE ~(b <= e)
  BY <1>2, <1>4, e - b = (-1) * n + (e - b + n) DEF Index, Ahead
<1>. QED
  BY <1>3, <1>4

\* The number of packets in the buffer.
Gap == Ahead(mBegin, mEnd)

\* The tests of the code on the indices, in terms of the distance.
LEMMA FullAndEmpty ==
    ASSUME RingTypeOK
    PROVE  /\ Full <=> Gap = Capacity
           /\ Empty <=> Gap = 0
BY CapacityPositive
   DEF RingTypeOK, Index, Full, Empty, FlipTopBit, Gap, Ahead

\* Moving one index, or both, moves them apart or together by one, or not.
LEMMA AheadMoves ==
    ASSUME NEW b \in Index, NEW e \in Index
    PROVE  /\ Ahead(b, e) \in 1 .. Capacity =>
                /\ Ahead(Incr(b), e) = Ahead(b, e) - 1
                /\ Ahead(b, Decr(e)) = Ahead(b, e) - 1
                /\ Ahead(Incr(b), Incr(e)) = Ahead(b, e)
                /\ Ahead(Decr(b), Decr(e)) = Ahead(b, e)
           /\ Ahead(b, e) \in 0 .. Capacity - 1 =>
                /\ Ahead(b, Incr(e)) = Ahead(b, e) + 1
                /\ Ahead(Decr(b), e) = Ahead(b, e) + 1
<1>. USE CapacityPositive
<1>1. /\ b \in 0 .. 2 * Capacity - 1
      /\ e \in 0 .. 2 * Capacity - 1
  BY DEF Index
<1>2. /\ Incr(b) = IF b = 2 * Capacity - 1 THEN 0 ELSE b + 1
      /\ Decr(b) = IF b = 0 THEN 2 * Capacity - 1 ELSE b - 1
      /\ Incr(e) = IF e = 2 * Capacity - 1 THEN 0 ELSE e + 1
      /\ Decr(e) = IF e = 0 THEN 2 * Capacity - 1 ELSE e - 1
  BY IncrDecr
<1>3. Ahead(b, e) \in 1 .. Capacity => Ahead(Incr(b), e) = Ahead(b, e) - 1
  BY <1>1, <1>2 DEF Ahead
<1>4. Ahead(b, e) \in 1 .. Capacity => Ahead(b, Decr(e)) = Ahead(b, e) - 1
  BY <1>1, <1>2 DEF Ahead
<1>5. Ahead(b, e) \in 1 .. Capacity =>
         Ahead(Incr(b), Incr(e)) = Ahead(b, e)
  BY <1>1, <1>2 DEF Ahead
<1>6. Ahead(b, e) \in 1 .. Capacity =>
         Ahead(Decr(b), Decr(e)) = Ahead(b, e)
  BY <1>1, <1>2 DEF Ahead
<1>7. Ahead(b, e) \in 0 .. Capacity - 1 =>
         Ahead(b, Incr(e)) = Ahead(b, e) + 1
  BY <1>1, <1>2 DEF Ahead
<1>8. Ahead(b, e) \in 0 .. Capacity - 1 =>
         Ahead(Decr(b), e) = Ahead(b, e) + 1
  BY <1>1, <1>2 DEF Ahead
<1>. QED
  BY <1>3, <1>4, <1>5, <1>6, <1>7, <1>8

-----------------------------------------------------------------------------
(* The indices.                                                            *)

RingInv == RingTypeOK /\ Gap <= Capacity

\* The buffer reports exactly the packets between its two indices.
LEMMA SizeIsGap == RingInv => Size = Gap /\ Gap \in 0 .. Capacity
<1>. SUFFICES ASSUME RingInv PROVE Size = Gap /\ Gap \in 0 .. Capacity
  OBVIOUS
<1>. USE CapacityPositive
<1>1. Gap \in 0 .. Capacity
  BY DEF RingInv, RingTypeOK, Index, Gap, Ahead
<1>2. CASE Full
  BY <1>1, <1>2, FullAndEmpty DEF RingInv, Size
<1>3. CASE ~Full
  <2>1. Gap \in 0 .. Capacity - 1
    BY <1>1, <1>3, FullAndEmpty DEF RingInv
  <2>2. \A q \in Int : (q * Capacity + Gap) % Capacity = Gap
    BY <2>1, ModUnique
  <2>3. CASE mBegin <= mEnd
    <3>1. mEnd - mBegin = 0 * Capacity + Gap
      BY <2>3 DEF RingInv, RingTypeOK, Index, Gap, Ahead
    <3>. QED
      BY <1>1, <1>3, <2>2, <3>1, 0 \in Int DEF Size
  <2>4. CASE ~(mBegin <= mEnd)
    <3>1. mEnd - mBegin = (-2) * Capacity + Gap
      BY <2>4 DEF RingInv, RingTypeOK, Index, Gap, Ahead
    <3>. QED
      BY <1>1, <1>3, <2>2, <3>1, -2 \in Int DEF Size
  <2>. QED
    BY <2>3, <2>4
<1>. QED
  BY <1>2, <1>3

\* Every operation keeps the indices in range, and where it moves them apart
\* it does so only from a buffer that is not full.
LEMMA RingInvStep ==
    ASSUME RingInv, [RingNext]_ringVars
    PROVE  RingInv'
<1>. USE CapacityPositive
<1>1. /\ mBegin \in Index /\ mEnd \in Index
      /\ mData \in [Slot -> SFPpacket]
      /\ Gap \in 0 .. Capacity
      /\ Full <=> Gap = Capacity
      /\ Empty <=> Gap = 0
  BY SizeIsGap, FullAndEmpty DEF RingInv, RingTypeOK
<1>2. \A i \in Index :
         /\ Incr(i) = IF i = 2 * Capacity - 1 THEN 0 ELSE i + 1
         /\ Decr(i) = IF i = 0 THEN 2 * Capacity - 1 ELSE i - 1
         /\ Incr(i) \in Index /\ Decr(i) \in Index
  BY IncrDecr DEF Index
<1>3. /\ Gap \in 1 .. Capacity =>
           /\ Ahead(Incr(mBegin), mEnd) = Gap - 1
           /\ Ahead(mBegin, Decr(mEnd)) = Gap - 1
           /\ Ahead(Incr(mBegin), Incr(mEnd)) = Gap
           /\ Ahead(Decr(mBegin), Decr(mEnd)) = Gap
      /\ Gap \in 0 .. Capacity - 1 =>
           /\ Ahead(mBegin, Incr(mEnd)) = Gap + 1
           /\ Ahead(Decr(mBegin), mEnd) = Gap + 1
  BY <1>1, AheadMoves DEF Gap
<1>. SUFFICES /\ mBegin' \in Index /\ mEnd' \in Index
              /\ mData' \in [Slot -> SFPpacket]
              /\ Gap' <= Capacity
  BY DEF RingInv, RingTypeOK
<1>4. CASE Reinit
  BY <1>1, <1>4 DEF Reinit, Index, Gap, Ahead
<1>5. ASSUME NEW packet \in SFPpacket, PushBack(packet)
      PROVE  /\ mBegin' \in Index /\ mEnd' \in Index
             /\ mData' \in [Slot -> SFPpacket]
             /\ Gap' <= Capacity
  <2>1. mBegin' \in Index /\ mEnd' \in Index
    BY <1>1, <1>2, <1>5 DEF PushBack
  <2>2. mData' \in [Slot -> SFPpacket]
    BY <1>1, <1>5 DEF PushBack
  <2>3. Gap' = IF Full THEN Gap ELSE Gap + 1
    BY <1>1, <1>3, <1>5 DEF PushBack, Gap
  <2>. QED
    BY <1>1, <2>1, <2>2, <2>3
<1>6. ASSUME NEW packet \in SFPpacket, PushFront(packet)
      PROVE  /\ mBegin' \in Index /\ mEnd' \in Index
             /\ mData' \in [Slot -> SFPpacket]
             /\ Gap' <= Capacity
  <2>1. mBegin' \in Index /\ mEnd' \in Index
    BY <1>1, <1>2, <1>6 DEF PushFront
  <2>2. mData' \in [Slot -> SFPpacket]
    BY <1>1, <1>6 DEF PushFront
  <2>3. Gap' = IF Full THEN Gap ELSE Gap + 1
    BY <1>1, <1>3, <1>6 DEF PushFront, Gap
  <2>. QED
    BY <1>1, <2>1, <2>2, <2>3
<1>7. CASE PopFront
  BY <1>1, <1>2, <1>3, <1>7 DEF PopFront, Gap
<1>8. CASE PopBack
  BY <1>1, <1>2, <1>3, <1>8 DEF PopBack, Gap
<1>9. CASE UNCHANGED ringVars
  BY <1>1, <1>9 DEF ringVars, Gap
<1>. QED
  BY <1>4, <1>5, <1>6, <1>7, <1>8, <1>9 DEF RingNext

\* The strengthened invariant holds in every reachable state.
LEMMA RingInvHolds == RingSpec => []RingInv
<1>1. RingInit => RingInv
  <2>. SUFFICES ASSUME RingInit PROVE RingInv
    OBVIOUS
  <2>. QED
    BY CapacityPositive DEF RingInit, RingInv, RingTypeOK, Index, Gap, Ahead
<1>2. RingInv /\ [RingNext]_ringVars => RingInv'
  BY RingInvStep
<1>. QED
  BY <1>1, <1>2, PTL DEF RingSpec

\* The indices of the ring buffer stay in the two laps and its slots hold
\* packets, after any sequence of the operations of potringbuffer.c.
THEOREM RingTypeCorrect == RingSpec => []RingTypeOK
<1>1. RingInv => RingTypeOK
  BY DEF RingInv
<1>. QED
  BY <1>1, RingInvHolds, PTL

\* No sequence of pushes at either end and guarded pops drives the indices
\* further apart than there are slots.
THEOREM IndicesTogether == RingSpec => []AtMostCapacityApart
<1>1. RingInv => AtMostCapacityApart
  BY DifferenceIsAhead DEF RingInv, RingTypeOK, AtMostCapacityApart, Gap
<1>. QED
  BY <1>1, RingInvHolds, PTL

-----------------------------------------------------------------------------
(* The contents.                                                           *)

\* The packet at distance j is in the same slot whichever neighbouring index
\* the distance is counted from.
LEMMA SlotMoves ==
    ASSUME NEW b \in Index, NEW j \in 0 .. Capacity - 1
    PROVE  /\ SlotOf(Incr(b) + j) = SlotOf(b + (j + 1))
           /\ SlotOf(Decr(b) + (j + 1)) = SlotOf(b + j)
           /\ SlotOf(Incr(b) - 1) = SlotOf(b)
           /\ SlotOf(b + j) \in Slot
<1>. USE CapacityPositive
<1>1. /\ b \in 0 .. 2 * Capacity - 1
      /\ Incr(b) = IF b = 2 * Capacity - 1 THEN 0 ELSE b + 1
      /\ Decr(b) = IF b = 0 THEN 2 * Capacity - 1 ELSE b - 1
  BY IncrDecr DEF Index
<1>2. SlotOf(Incr(b) + j) = SlotOf(b + (j + 1))
  BY <1>1, SlotOfIs
<1>3. SlotOf(Decr(b) + (j + 1)) = SlotOf(b + j)
  BY <1>1, SlotOfIs
<1>4. SlotOf(Incr(b) - 1) = SlotOf(b)
  BY <1>1, SlotOfIs
<1>5. SlotOf(b + j) \in Slot
  BY <1>1, SlotOfIs DEF Slot
<1>. QED
  BY <1>2, <1>3, <1>4, <1>5

\* The end index selects the slot behind the last packet.
LEMMA SlotOfEnd ==
    ASSUME NEW b \in Index, NEW e \in Index, Ahead(b, e) <= Capacity
    PROVE  SlotOf(e) = SlotOf(b + Ahead(b, e))
<1>. USE CapacityPositive
<1>1. /\ b \in 0 .. 2 * Capacity - 1 /\ e \in 0 .. 2 * Capacity - 1
      /\ Ahead(b, e) = IF b <= e THEN e - b ELSE e - b + 2 * Capacity
  BY DEF Index, Ahead
<1>2. CASE b <= e
  BY <1>1, <1>2
<1>3. CASE ~(b <= e)
  <2>1. b + Ahead(b, e) = e + 2 * Capacity /\ e \in 0 .. Capacity - 1
    BY <1>1, <1>3
  <2>2. SlotOf(e) = e /\ SlotOf(e + 2 * Capacity) = e
    BY <2>1, SlotOfIs
  <2>. QED
    BY <2>1, <2>2
<1>. QED
  BY <1>2, <1>3

\* Packets less than Capacity apart are in different slots.
LEMMA SlotsDiffer ==
    ASSUME NEW b \in Index,
           NEW j \in 0 .. Capacity, NEW k \in 0 .. Capacity,
           j < k, k - j < Capacity
    PROVE  SlotOf(b + j) # SlotOf(b + k)
<1>. USE CapacityPositive
<1>1. /\ b \in 0 .. 2 * Capacity - 1
      /\ b + j \in -1 .. 3 * Capacity - 1
      /\ b + k \in -1 .. 3 * Capacity - 1
  BY DEF Index
<1>2. /\ b + j \in 0 .. Capacity - 1 => SlotOf(b + j) = b + j
      /\ b + j \in Capacity .. 2 * Capacity - 1 =>
            SlotOf(b + j) = b + j - Capacity
      /\ b + j \in 2 * Capacity .. 3 * Capacity - 1 =>
            SlotOf(b + j) = b + j - 2 * Capacity
  BY <1>1, SlotOfIs
<1>3. /\ b + k \in 0 .. Capacity - 1 => SlotOf(b + k) = b + k
      /\ b + k \in Capacity .. 2 * Capacity - 1 =>
            SlotOf(b + k) = b + k - Capacity
      /\ b + k \in 2 * Capacity .. 3 * Capacity - 1 =>
            SlotOf(b + k) = b + k - 2 * Capacity
  BY <1>1, SlotOfIs
<1>. QED
  BY <1>1, <1>2, <1>3

\* The contents are the packets in the slots from the beginning to the end.
ContentsInSlots ==
    /\ Contents \in Seq(SFPpacket)
    /\ Len(Contents) = Gap
    /\ \A i \in 1 .. Gap : Contents[i] = mData[SlotOf(mBegin + (i - 1))]

\* At and ReverseAt see the slots from the begin index on, in order.
LEMMA ContentsAreInSlots == RingInv => ContentsInSlots
<1>. SUFFICES ASSUME RingInv PROVE ContentsInSlots
  OBVIOUS
<1>. USE CapacityPositive
<1>1. Size = Gap /\ Gap \in 0 .. Capacity
  BY SizeIsGap
<1>2. \A i \in 1 .. Gap : mData[SlotOf(mBegin + (i - 1))] \in SFPpacket
  <2>. SUFFICES ASSUME NEW i \in 1 .. Gap
                PROVE  mData[SlotOf(mBegin + (i - 1))] \in SFPpacket
    OBVIOUS
  <2>1. i - 1 \in 0 .. Capacity - 1 /\ mBegin \in Index
    BY <1>1 DEF RingInv, RingTypeOK
  <2>2. SlotOf(mBegin + (i - 1)) \in Slot
    BY <2>1, SlotMoves
  <2>. QED
    BY <2>2 DEF RingInv, RingTypeOK
<1>3. Contents = [i \in 1 .. Gap |-> mData[SlotOf(mBegin + (i - 1))]]
  BY <1>1 DEF Contents, At
<1>. QED
  BY <1>1, <1>2, <1>3 DEF ContentsInSlots

\* The same in the next state.
LEMMA ContentsAreInSlotsNext == RingInv' => ContentsInSlots'
BY ContentsAreInSlots, PTL

\* A push at the back appends, after forgetting the oldest packet if full.
LEMMA PushBackAppends ==
    ASSUME RingInv, RingInv', NEW packet \in SFPpacket, PushBack(packet)
    PROVE  Queue!PushBack(packet)
<1>. USE CapacityPositive
<1>. DEFINE kept == IF Queue!Full THEN Tail(Contents) ELSE Contents
<1>1. /\ mBegin \in Index /\ mEnd \in Index
      /\ mData \in [Slot -> SFPpacket]
      /\ Gap \in 0 .. Capacity
      /\ Full <=> Gap = Capacity
  BY SizeIsGap, FullAndEmpty DEF RingInv, RingTypeOK
<1>2. /\ Contents \in Seq(SFPpacket) /\ Len(Contents) = Gap
      /\ \A i \in 1 .. Gap : Contents[i] = mData[SlotOf(mBegin + (i - 1))]
  BY ContentsAreInSlots DEF ContentsInSlots
<1>3. /\ Contents' \in Seq(SFPpacket) /\ Len(Contents') = Gap'
      /\ \A i \in 1 .. Gap' : Contents'[i] = mData'[SlotOf(mBegin' + (i - 1))]
  BY ContentsAreInSlotsNext DEF ContentsInSlots
<1>4. mData' = [mData EXCEPT ![SlotOf(mBegin + Gap)] = packet]
  <2>1. SlotOf(Incr(mEnd) - 1) = SlotOf(mEnd)
    BY <1>1, SlotMoves, 0 \in 0 .. Capacity - 1
  <2>2. SlotOf(mEnd) = SlotOf(mBegin + Gap)
    BY <1>1, SlotOfEnd DEF Gap
  <2>. QED
    BY <2>1, <2>2 DEF PushBack
<1>5. CASE Full
  <2>1. mBegin' = Incr(mBegin) /\ Gap = Capacity /\ Gap' = Capacity
    BY <1>1, <1>5, AheadMoves DEF PushBack, Gap
  <2>2. /\ kept = Tail(Contents) /\ kept \in Seq(SFPpacket)
        /\ Len(kept) = Capacity - 1
        /\ \A i \in 1 .. Capacity - 1 : kept[i] = Contents[i + 1]
    BY <1>2, <2>1, HeadTailProperties, EmptySeq DEF Queue!Full
  <2>3. ASSUME NEW i \in 1 .. Capacity
        PROVE  Contents'[i] = Append(kept, packet)[i]
    <3>1. /\ Contents'[i] = mData'[SlotOf(mBegin + i)]
          /\ SlotOf(mBegin + i) \in Slot
      <4>1. i - 1 \in 0 .. Capacity - 1
        OBVIOUS
      <4>2. SlotOf(Incr(mBegin) + (i - 1)) = SlotOf(mBegin + ((i - 1) + 1))
        BY <1>1, <4>1, SlotMoves
      <4>3. Incr(mBegin) \in Index
        BY <2>1 DEF RingInv, RingTypeOK
      <4>4. SlotOf(Incr(mBegin) + (i - 1)) \in Slot
        BY <4>1, <4>3, SlotMoves
      <4>. QED
        BY <1>3, <2>1, <4>2, <4>4
    <3>2. CASE i = Capacity
      BY <1>1, <1>4, <2>1, <2>2, <3>1, <3>2
    <3>3. CASE i # Capacity
      <4>1. SlotOf(mBegin + i) # SlotOf(mBegin + Capacity)
        BY <1>1, <3>3, SlotsDiffer
      <4>2. Contents'[i] = mData[SlotOf(mBegin + i)]
        BY <1>1, <1>4, <2>1, <3>1, <4>1
      <4>3. Contents[i + 1] = mData[SlotOf(mBegin + i)]
        BY <1>2, <2>1, <3>3, i + 1 \in 1 .. Capacity, (i + 1) - 1 = i
      <4>. QED
        BY <2>2, <3>3, <4>2, <4>3
    <3>. QED
      BY <3>2, <3>3
  <2>4. Contents' = Append(kept, packet)
    BY <1>3, <2>1, <2>2, <2>3, SeqEqual
  <2>. QED
    BY <2>4 DEF Queue!PushBack
<1>6. CASE ~Full
  <2>1. mBegin' = mBegin /\ Gap \in 0 .. Capacity - 1 /\ Gap' = Gap + 1
    BY <1>1, <1>6, AheadMoves DEF PushBack, Gap
  <2>2. kept = Contents
    BY <1>2, <2>1 DEF Queue!Full
  <2>3. ASSUME NEW i \in 1 .. Gap + 1
        PROVE  Contents'[i] = Append(kept, packet)[i]
    <3>1. /\ Contents'[i] = mData'[SlotOf(mBegin + (i - 1))]
          /\ SlotOf(mBegin + (i - 1)) \in Slot
      <4>1. i - 1 \in 0 .. Capacity - 1
        BY <2>1
      <4>. QED
        BY <1>1, <1>3, <2>1, <4>1, SlotMoves
    <3>2. CASE i = Gap + 1
      BY <1>1, <1>2, <1>4, <2>1, <2>2, <3>1, <3>2
    <3>3. CASE i # Gap + 1
      <4>1. SlotOf(mBegin + (i - 1)) # SlotOf(mBegin + Gap)
        BY <1>1, <2>1, <3>3, SlotsDiffer
      <4>. QED
        BY <1>1, <1>2, <1>4, <2>1, <2>2, <3>1, <3>3, <4>1
    <3>. QED
      BY <3>2, <3>3
  <2>4. Contents' = Append(kept, packet)
    BY <1>2, <1>3, <2>1, <2>2, <2>3, SeqEqual
  <2>. QED
    BY <2>4 DEF Queue!PushBack
<1>. QED
  BY <1>5, <1>6

\* A push at the front prepends, after forgetting the newest packet if full.
LEMMA PushFrontPrepends ==
    ASSUME RingInv, RingInv', NEW packet \in SFPpacket, PushFront(packet)
    PROVE  Queue!PushFront(packet)
<1>. USE CapacityPositive
<1>. DEFINE kept == IF Queue!Full THEN Queue!Front ELSE Contents
<1>1. /\ mBegin \in Index /\ mEnd \in Index
      /\ mData \in [Slot -> SFPpacket]
      /\ Gap \in 0 .. Capacity
      /\ Full <=> Gap = Capacity
  BY SizeIsGap, FullAndEmpty DEF RingInv, RingTypeOK
<1>2. /\ Contents \in Seq(SFPpacket) /\ Len(Contents) = Gap
      /\ \A i \in 1 .. Gap : Contents[i] = mData[SlotOf(mBegin + (i - 1))]
  BY ContentsAreInSlots DEF ContentsInSlots
<1>3. /\ Contents' \in Seq(SFPpacket) /\ Len(Contents') = Gap'
      /\ \A i \in 1 .. Gap' : Contents'[i] = mData'[SlotOf(mBegin' + (i - 1))]
  BY ContentsAreInSlotsNext DEF ContentsInSlots
<1>4. /\ mBegin' = Decr(mBegin) /\ mBegin' \in Index
      /\ mData' = [mData EXCEPT ![SlotOf(mBegin')] = packet]
  BY DEF PushFront, RingInv, RingTypeOK
<1>a. PICK n \in 0 .. Capacity, m \in 1 .. Capacity :
         n = Gap /\ m = Gap' /\ m - 1 <= n
  <2>1. CASE Full
    BY <1>1, <2>1, AheadMoves DEF PushFront, Gap
  <2>2. CASE ~Full
    BY <1>1, <2>2, AheadMoves DEF PushFront, Gap
  <2>. QED
    BY <2>1, <2>2
<1>b. m - 1 <= n
  BY <1>a
<1>5. /\ kept \in Seq(SFPpacket) /\ Len(kept) = m - 1
      /\ \A i \in 1 .. m - 1 : kept[i] = Contents[i]
  <2>1. CASE Full
    <3>1. Gap = Capacity /\ m = Capacity
      BY <1>1, <1>a, <2>1, AheadMoves DEF PushFront, Gap
    <3>. QED
      BY <1>2, <3>1, SubSeqProperties DEF Queue!Full, Queue!Front
  <2>2. CASE ~Full
    <3>1. Gap \in 0 .. Capacity - 1 /\ m = Gap + 1
      BY <1>1, <1>a, <2>2, AheadMoves DEF PushFront, Gap
    <3>. QED
      BY <1>2, <3>1 DEF Queue!Full
  <2>. QED
    BY <2>1, <2>2
<1>6. ASSUME NEW i \in 1 .. m
      PROVE  Contents'[i] = (<<packet>> \o kept)[i]
  <2>1. i - 1 \in 0 .. Capacity - 1
    OBVIOUS
  <2>2. /\ Contents'[i] = mData'[SlotOf(mBegin' + (i - 1))]
        /\ SlotOf(mBegin' + (i - 1)) \in Slot
    BY <1>3, <1>a, <1>4, <2>1, SlotMoves
  <2>3. CASE i = 1
    <3>1. mBegin' + (i - 1) = mBegin'
      BY <1>4, <2>3 DEF Index
    <3>2. Contents'[i] = packet
      BY <1>1, <1>4, <2>2, <3>1
    <3>. QED
      BY <1>5, <2>3, <3>2
  <2>4. CASE i # 1
    <3>. DEFINE h == i - 1
    <3>0. i = h + 1 /\ h \in Int
      BY <2>1
    <3>a. h \in 1 .. m - 1 /\ h \in 1 .. n
      BY <1>b, <2>4
    <3>b. i - 1 = h /\ h - 1 \in 0 .. Capacity - 1 /\ (h - 1) + 1 = h
      BY <3>a
    <3>. HIDE DEF h
    <3>1. mBegin' + 0 = mBegin' /\ 0 \in 0 .. Capacity
      BY <1>4 DEF Index
    <3>2. SlotOf(mBegin' + 0) # SlotOf(mBegin' + (i - 1))
      BY <1>4, <2>1, <2>4, SlotsDiffer
    <3>3. Contents'[i] = mData[SlotOf(mBegin' + (i - 1))]
      BY <1>1, <1>4, <2>2, <3>1, <3>2
    <3>4. SlotOf(Decr(mBegin) + h) = SlotOf(mBegin + (h - 1))
      BY <1>1, <3>b, SlotMoves
    <3>5. Contents[h] = mData[SlotOf(mBegin + (h - 1))]
      BY <1>2, <1>a, <3>a
    <3>6. Contents'[i] = kept[h]
      BY <1>4, <1>5, <3>3, <3>4, <3>5, <3>a, <3>b
    <3>7. (<<packet>> \o kept)[i] = kept[h]
      <4>1. <<packet>> \in Seq(SFPpacket) /\ Len(<<packet>>) = 1
        OBVIOUS
      <4>2. i \in 1 .. 1 + Len(kept) /\ ~(i <= 1)
        BY <1>a, <1>5, <2>4, <3>a, <3>b
      <4>. QED
        BY <1>5, <3>b, <4>1, <4>2, ConcatProperties
    <3>. QED
      BY <3>6, <3>7
  <2>. QED
    BY <2>3, <2>4
<1>7. Contents' = <<packet>> \o kept
  <2>1. /\ <<packet>> \o kept \in Seq(SFPpacket)
        /\ Len(<<packet>> \o kept) = m
    BY <1>a, <1>5, ConcatProperties
  <2>. QED
    BY <1>3, <1>a, <1>6, <2>1, SeqEqual
<1>. QED
  BY <1>7 DEF Queue!PushFront

\* A pop at the front forgets the oldest packet.
LEMMA PopFrontIsTail ==
    ASSUME RingInv, RingInv', PopFront
    PROVE  Queue!PopFront
<1>. USE CapacityPositive
<1>1. mBegin \in Index /\ mEnd \in Index /\ Gap \in 1 .. Capacity
  BY SizeIsGap, FullAndEmpty DEF RingInv, RingTypeOK, PopFront
<1>2. /\ Contents \in Seq(SFPpacket) /\ Len(Contents) = Gap
      /\ \A i \in 1 .. Gap : Contents[i] = mData[SlotOf(mBegin + (i - 1))]
  BY ContentsAreInSlots DEF ContentsInSlots
<1>3. /\ Contents' \in Seq(SFPpacket) /\ Len(Contents') = Gap'
      /\ \A i \in 1 .. Gap' : Contents'[i] = mData'[SlotOf(mBegin' + (i - 1))]
  BY ContentsAreInSlotsNext DEF ContentsInSlots
<1>4. mBegin' = Incr(mBegin) /\ mData' = mData /\ Gap' = Gap - 1
  BY <1>1, AheadMoves DEF PopFront, Gap
<1>5. /\ Contents # <<>> /\ Tail(Contents) \in Seq(SFPpacket)
      /\ Len(Tail(Contents)) = Gap - 1
      /\ \A i \in 1 .. Gap - 1 : Tail(Contents)[i] = Contents[i + 1]
  BY <1>1, <1>2, HeadTailProperties, EmptySeq
<1>6. ASSUME NEW i \in 1 .. Gap - 1
      PROVE  Contents'[i] = Tail(Contents)[i]
  <2>1. /\ i - 1 \in 0 .. Capacity - 1 /\ (i - 1) + 1 = i
        /\ i + 1 \in 1 .. Gap /\ (i + 1) - 1 = i
    BY <1>1
  <2>2. SlotOf(Incr(mBegin) + (i - 1)) = SlotOf(mBegin + ((i - 1) + 1))
    BY <1>1, <2>1, SlotMoves
  <2>3. Contents[i + 1] = mData[SlotOf(mBegin + i)]
    BY <1>2, <2>1
  <2>. QED
    BY <1>3, <1>4, <1>5, <2>1, <2>2, <2>3
<1>7. Contents' = Tail(Contents)
  BY <1>3, <1>4, <1>5, <1>6, SeqEqual
<1>. QED
  BY <1>5, <1>7 DEF Queue!PopFront

\* A pop at the back forgets the newest packet.
LEMMA PopBackIsFront ==
    ASSUME RingInv, RingInv', PopBack
    PROVE  Queue!PopBack
<1>. USE CapacityPositive
<1>1. mBegin \in Index /\ mEnd \in Index /\ Gap \in 1 .. Capacity
  BY SizeIsGap, FullAndEmpty DEF RingInv, RingTypeOK, PopBack
<1>2. /\ Contents \in Seq(SFPpacket) /\ Len(Contents) = Gap
      /\ \A i \in 1 .. Gap : Contents[i] = mData[SlotOf(mBegin + (i - 1))]
  BY ContentsAreInSlots DEF ContentsInSlots
<1>3. /\ Contents' \in Seq(SFPpacket) /\ Len(Contents') = Gap'
      /\ \A i \in 1 .. Gap' : Contents'[i] = mData'[SlotOf(mBegin' + (i - 1))]
  BY ContentsAreInSlotsNext DEF ContentsInSlots
<1>4. mBegin' = mBegin /\ mData' = mData /\ Gap' = Gap - 1
  BY <1>1, AheadMoves DEF PopBack, Gap
<1>5. /\ Contents # <<>> /\ Queue!Front \in Seq(SFPpacket)
      /\ Len(Queue!Front) = Gap - 1
      /\ \A i \in 1 .. Gap - 1 : Queue!Front[i] = Contents[i]
  BY <1>1, <1>2, SubSeqProperties, EmptySeq DEF Queue!Front
<1>6. ASSUME NEW i \in 1 .. Gap - 1
      PROVE  Contents'[i] = Queue!Front[i]
  <2>1. i \in 1 .. Gap /\ i \in 1 .. Gap'
    BY <1>1, <1>4
  <2>2. Contents'[i] = mData'[SlotOf(mBegin' + (i - 1))]
    BY <1>3, <2>1
  <2>3. Contents[i] = mData[SlotOf(mBegin + (i - 1))]
    BY <1>2, <2>1
  <2>4. Contents'[i] = Contents[i]
    BY <1>4, <2>2, <2>3
  <2>. QED
    BY <1>5, <2>4
<1>7. Contents' = Queue!Front
  BY <1>3, <1>4, <1>5, <1>6, SeqEqual
<1>. QED
  BY <1>5, <1>7 DEF Queue!PopBack

\* Every step of the ring buffer is a step of the queue it implements.
LEMMA RingStepRefines ==
    ASSUME RingInv, RingInv', [RingNext]_ringVars
    PROVE  [Queue!Next]_Contents
<1>1. CASE Reinit
  <2>1. Gap' = 0
    BY <1>1 DEF Reinit, Gap, Ahead
  <2>2. Contents' \in Seq(SFPpacket) /\ Len(Contents') = 0
    BY <2>1, ContentsAreInSlotsNext DEF ContentsInSlots
  <2>3. Contents' = <<>>
    BY <2>2, EmptySeq
  <2>. QED
    BY <2>3 DEF Queue!Next, Queue!Clear
<1>2. ASSUME NEW packet \in SFPpacket, PushBack(packet) PROVE Queue!Next
  BY <1>2, PushBackAppends DEF Queue!Next
<1>3. ASSUME NEW packet \in SFPpacket, PushFront(packet) PROVE Queue!Next
  BY <1>3, PushFrontPrepends DEF Queue!Next
<1>4. CASE PopFront
  BY <1>4, PopFrontIsTail DEF Queue!Next
<1>5. CASE PopBack
  BY <1>5, PopBackIsFront DEF Queue!Next
<1>6. CASE UNCHANGED ringVars
  BY <1>6 DEF ringVars, Contents, Size, Full, At
<1>. QED
  BY <1>1, <1>2, <1>3, <1>4, <1>5, <1>6 DEF RingNext

\* With twice as many index values as slots, and the slot taken from the low
\* bits, the ring buffer of potringbuffer.c behaves as a queue that forgets
\* the packet at the far end, for every capacity.
THEOREM RingImplementsQueue == RingSpec => ImplementsHistoryQueue
<1>1. RingInit => Queue!Init
  <2>. SUFFICES ASSUME RingInit PROVE Contents = <<>>
    BY DEF Queue!Init
  <2>1. RingInv /\ Gap = 0
    BY CapacityPositive DEF RingInit, RingInv, RingTypeOK, Index, Gap, Ahead
  <2>2. Contents \in Seq(SFPpacket) /\ Len(Contents) = 0
    BY <2>1, ContentsAreInSlots DEF ContentsInSlots
  <2>. QED
    BY <2>2, EmptySeq
<1>2. RingInv /\ RingInv' /\ [RingNext]_ringVars => [Queue!Next]_Contents
  BY RingStepRefines
<1>. QED
  BY <1>1, <1>2, RingInvHolds, PTL
     DEF RingSpec, ImplementsHistoryQueue, Queue!Spec
-----------------------------------------------------------------------------
(* Two endpoints.  What is on a line, of the frames of some types.         *)

SessionPacket == [session : Nat, place : Nat]

LinkFrame ==
    [type : {"USR", "RTX"}, seq : SFPseq, packet : SessionPacket]
        \cup [type : {"NAK"}, seq : SFPseq]
        \cup [type : {"SYN0", "SYN1", "SYN2", "DIS"}]
        \cup {Bad}

\* A frame of one of the types is on the line.
Has(frames, types) == \E i \in 1 .. Len(frames) : frames[i].type \in types

\* No frame of one of the types is behind one of the marks.
NoneBehind(frames, types, marks) ==
    \A i, j \in 1 .. Len(frames) :
        i < j /\ frames[i].type \in marks => frames[j].type \notin types

UserTypes == {"USR", "RTX"}

\* Of the frames of the types, those after a step were on the line before it,
\* in this order.
Within(after, before, types) ==
    \E from \in [1 .. Len(after) -> Int] :
        /\ \A i \in 1 .. Len(after) :
              after[i].type \in types =>
                  from[i] \in 1 .. Len(before) /\ after[i] = before[from[i]]
        /\ \A i, j \in 1 .. Len(after) :
              i < j /\ after[i].type \in types /\ after[j].type \in types =>
                  from[i] < from[j]

\* Nothing happened to the line.
LEMMA WithinSelf ==
    ASSUME NEW frames \in Seq(LinkFrame), NEW types
    PROVE  Within(frames, frames, types)
<1>. DEFINE from == [i \in 1 .. Len(frames) |-> i]
<1>1. from \in [1 .. Len(frames) -> Int] /\ \A i \in 1 .. Len(frames) : from[i] = i
  OBVIOUS
<1>. HIDE DEF from
<1>. QED
  BY <1>1 DEF Within

\* The first frame has left the line.
LEMMA WithinTail ==
    ASSUME NEW frames \in Seq(LinkFrame), frames # <<>>, NEW types
    PROVE  /\ Tail(frames) \in Seq(LinkFrame)
           /\ Within(Tail(frames), frames, types)
<1>1. /\ Len(Tail(frames)) = Len(frames) - 1
      /\ \A i \in 1 .. Len(Tail(frames)) : Tail(frames)[i] = frames[i + 1]
      /\ Tail(frames) \in Seq(LinkFrame) /\ Len(frames) \in Nat
  BY HeadTailProperties
<1>. DEFINE from == [i \in 1 .. Len(Tail(frames)) |-> i + 1]
<1>2. /\ from \in [1 .. Len(Tail(frames)) -> Int]
      /\ \A i \in 1 .. Len(Tail(frames)) : from[i] = i + 1
  OBVIOUS
<1>. HIDE DEF from
<1>3. \A i \in 1 .. Len(Tail(frames)) : i + 1 \in 1 .. Len(frames)
  BY <1>1
<1>. QED
  BY <1>1, <1>2, <1>3 DEF Within

\* Debris has taken the place of the first frame.
LEMMA WithinDamaged ==
    ASSUME NEW frames \in Seq(LinkFrame), frames # <<>>, NEW debris \in Debris,
           NEW types, "BAD" \notin types
    PROVE  /\ debris \o Tail(frames) \in Seq(LinkFrame)
           /\ Within(debris \o Tail(frames), frames, types)
<1>1. /\ Len(Tail(frames)) = Len(frames) - 1
      /\ \A i \in 1 .. Len(Tail(frames)) : Tail(frames)[i] = frames[i + 1]
      /\ Tail(frames) \in Seq(LinkFrame) /\ Len(frames) \in Nat
  BY HeadTailProperties
<1>2. /\ debris \in Seq(LinkFrame) /\ Len(debris) \in Nat
      /\ \A i \in 1 .. Len(debris) : debris[i] = Bad
  <2>0. Bad \in LinkFrame
    BY DEF LinkFrame
  <2>1. CASE debris = <<Bad>>
    BY <2>0, <2>1
  <2>2. CASE debris = <<Bad, Bad>>
    <3>1. Len(debris) = 2 /\ debris[1] = Bad /\ debris[2] = Bad
          /\ debris \in Seq(LinkFrame)
      BY <2>0, <2>2
    <3>2. \A i \in 1 .. 2 : i = 1 \/ i = 2
      OBVIOUS
    <3>. QED
      BY <3>1, <3>2
  <2>. QED
    BY <2>1, <2>2 DEF Debris
<1>3. PICK rest, after : rest = Tail(frames) /\ after = debris \o rest
  OBVIOUS
<1>4. /\ after \in Seq(LinkFrame)
      /\ Len(after) = Len(debris) + Len(rest) /\ Len(rest) \in Nat
      /\ \A i \in 1 .. Len(after) :
            after[i] = IF i <= Len(debris) THEN debris[i]
                                           ELSE rest[i - Len(debris)]
  BY <1>1, <1>2, <1>3, ConcatProperties
<1>. DEFINE from == [i \in 1 .. Len(after) |-> i - Len(debris) + 1]
<1>5. /\ from \in [1 .. Len(after) -> Int]
      /\ \A i \in 1 .. Len(after) : from[i] = i - Len(debris) + 1
  BY <1>2
<1>. HIDE DEF from
<1>6. ASSUME NEW i \in 1 .. Len(after), after[i].type \in types
      PROVE  from[i] \in 1 .. Len(frames) /\ after[i] = frames[from[i]]
  <2>1. ~(i <= Len(debris))
    <3>1. Bad.type = "BAD"
      BY DEF Bad
    <3>2. ASSUME i <= Len(debris) PROVE after[i] = Bad
      BY <1>2, <1>4, <3>2
    <3>. QED
      BY <1>6, <3>1, <3>2
  <2>2. i - Len(debris) \in 1 .. Len(rest) /\ after[i] = rest[i - Len(debris)]
    BY <1>2, <1>4, <2>1
  <2>. QED
    BY <1>1, <1>2, <1>3, <1>5, <2>2
<1>7. \A i, j \in 1 .. Len(after) : i < j => from[i] < from[j]
  BY <1>2, <1>5
<1>8. Within(after, frames, types)
  BY <1>5, <1>6, <1>7 DEF Within
<1>. QED
  BY <1>3, <1>4, <1>8

\* Frames of other types have been sent.
LEMMA WithinLonger ==
    ASSUME NEW frames \in Seq(LinkFrame), NEW sent \in Seq(LinkFrame), NEW types,
           \A i \in 1 .. Len(sent) : sent[i].type \notin types
    PROVE  /\ frames \o sent \in Seq(LinkFrame)
           /\ Within(frames \o sent, frames, types)
<1>1. PICK after : after = frames \o sent
  OBVIOUS
<1>2. /\ after \in Seq(LinkFrame)
      /\ Len(after) = Len(frames) + Len(sent)
      /\ Len(frames) \in Nat /\ Len(sent) \in Nat
      /\ \A i \in 1 .. Len(after) :
            after[i] = IF i <= Len(frames) THEN frames[i]
                                           ELSE sent[i - Len(frames)]
  BY <1>1, ConcatProperties
<1>. DEFINE from == [i \in 1 .. Len(after) |-> i]
<1>3. /\ from \in [1 .. Len(after) -> Int]
      /\ \A i \in 1 .. Len(after) : from[i] = i
  OBVIOUS
<1>. HIDE DEF from
<1>4. ASSUME NEW i \in 1 .. Len(after), after[i].type \in types
      PROVE  i \in 1 .. Len(frames) /\ after[i] = frames[i]
  <2>1. CASE i <= Len(frames)
    BY <1>2, <2>1
  <2>2. CASE ~(i <= Len(frames))
    <3>1. i - Len(frames) \in 1 .. Len(sent) /\ after[i] = sent[i - Len(frames)]
      BY <1>2, <2>2
    <3>. QED
      BY <1>4, <3>1
  <2>. QED
    BY <2>1, <2>2
<1>5. Within(after, frames, types)
  BY <1>3, <1>4 DEF Within
<1>. QED
  BY <1>1, <1>2, <1>5

\* What holds of some types holds of fewer.
LEMMA WithinFewer ==
    ASSUME NEW after, NEW before, NEW types, NEW fewer, fewer \subseteq types,
           Within(after, before, types)
    PROVE  Within(after, before, fewer)
BY DEF Within

\* No frame of the types appears.
LEMMA WithinHas ==
    ASSUME NEW after, NEW before, NEW types, NEW some, some \subseteq types,
           Within(after, before, types), Has(after, some)
    PROVE  Has(before, some)
<1>1. PICK from \in [1 .. Len(after) -> Int] :
         \A i \in 1 .. Len(after) :
              after[i].type \in types =>
                  from[i] \in 1 .. Len(before) /\ after[i] = before[from[i]]
  BY DEF Within
<1>2. PICK i \in 1 .. Len(after) : after[i].type \in some
  BY DEF Has
<1>. QED
  BY <1>1, <1>2 DEF Has

\* Nor does one move behind another.
LEMMA WithinOrder ==
    ASSUME NEW after, NEW before, NEW types, NEW some, NEW marks,
           some \subseteq types, marks \subseteq types,
           Within(after, before, types), NoneBehind(before, some, marks)
    PROVE  NoneBehind(after, some, marks)
<1>1. PICK from \in [1 .. Len(after) -> Int] :
         /\ \A i \in 1 .. Len(after) :
              after[i].type \in types =>
                  from[i] \in 1 .. Len(before) /\ after[i] = before[from[i]]
         /\ \A i, j \in 1 .. Len(after) :
              i < j /\ after[i].type \in types /\ after[j].type \in types =>
                  from[i] < from[j]
  BY DEF Within
<1>2. SUFFICES ASSUME NEW i \in 1 .. Len(after), NEW j \in 1 .. Len(after),
                      i < j, after[i].type \in marks, after[j].type \in some
               PROVE  FALSE
  BY DEF NoneBehind
<1>3. /\ from[i] \in 1 .. Len(before) /\ after[i] = before[from[i]]
      /\ from[j] \in 1 .. Len(before) /\ after[j] = before[from[j]]
      /\ from[i] < from[j]
  BY <1>1, <1>2
<1>. QED
  BY <1>2, <1>3 DEF NoneBehind

\* What is on a line to which frames have been added.
LEMMA LongerHas ==
    ASSUME NEW frames \in Seq(LinkFrame), NEW sent \in Seq(LinkFrame), NEW types
    PROVE  /\ frames \o sent \in Seq(LinkFrame)
           /\ Has(frames \o sent, types) <=> Has(frames, types) \/ Has(sent, types)
<1>1. PICK after : after = frames \o sent
  OBVIOUS
<1>2. /\ after \in Seq(LinkFrame)
      /\ Len(after) = Len(frames) + Len(sent)
      /\ Len(frames) \in Nat /\ Len(sent) \in Nat
      /\ \A i \in 1 .. Len(after) :
            after[i] = IF i <= Len(frames) THEN frames[i]
                                           ELSE sent[i - Len(frames)]
  BY <1>1, ConcatProperties
<1>3. ASSUME NEW i \in 1 .. Len(after), after[i].type \in types
      PROVE  Has(frames, types) \/ Has(sent, types)
  <2>1. CASE i <= Len(frames)
    BY <1>2, <1>3, <2>1 DEF Has
  <2>2. CASE ~(i <= Len(frames))
    <3>1. i - Len(frames) \in 1 .. Len(sent) /\ after[i] = sent[i - Len(frames)]
      BY <1>2, <2>2
    <3>. QED
      BY <1>3, <3>1 DEF Has
  <2>. QED
    BY <2>1, <2>2
<1>4. ASSUME NEW i \in 1 .. Len(frames), frames[i].type \in types
      PROVE  Has(after, types)
  <2>1. i \in 1 .. Len(after) /\ after[i] = frames[i]
    BY <1>2
  <2>. QED
    BY <1>4, <2>1 DEF Has
<1>5. ASSUME NEW i \in 1 .. Len(sent), sent[i].type \in types
      PROVE  Has(after, types)
  <2>1. /\ i + Len(frames) \in 1 .. Len(after) /\ ~(i + Len(frames) <= Len(frames))
        /\ (i + Len(frames)) - Len(frames) = i
    BY <1>2
  <2>2. after[i + Len(frames)] = sent[i]
    BY <1>2, <2>1
  <2>. QED
    BY <1>5, <2>1, <2>2 DEF Has
<1>6. Has(after, types) <=> Has(frames, types) \/ Has(sent, types)
  BY <1>3, <1>4, <1>5 DEF Has
<1>. QED
  BY <1>1, <1>2, <1>6

\* What is added is behind all the rest.
LEMMA LongerOrder ==
    ASSUME NEW frames \in Seq(LinkFrame), NEW sent \in Seq(LinkFrame),
           NEW types, NEW marks,
           NoneBehind(frames, types, marks), NoneBehind(sent, types, marks),
           Has(frames, marks) => ~Has(sent, types)
    PROVE  NoneBehind(frames \o sent, types, marks)
<1>1. PICK after : after = frames \o sent
  OBVIOUS
<1>2. /\ Len(after) = Len(frames) + Len(sent)
      /\ Len(frames) \in Nat /\ Len(sent) \in Nat
      /\ \A i \in 1 .. Len(after) :
            after[i] = IF i <= Len(frames) THEN frames[i]
                                           ELSE sent[i - Len(frames)]
  BY <1>1, ConcatProperties
<1>3. ASSUME NEW i \in 1 .. Len(after), NEW j \in 1 .. Len(after), i < j,
             after[i].type \in marks, after[j].type \in types
      PROVE  FALSE
  <2>1. CASE j <= Len(frames)
    <3>1. /\ i \in 1 .. Len(frames) /\ j \in 1 .. Len(frames)
          /\ after[i] = frames[i] /\ after[j] = frames[j]
      BY <1>2, <1>3, <2>1
    <3>. QED
      BY <1>3, <3>1 DEF NoneBehind
  <2>2. CASE ~(j <= Len(frames))
    <3>1. j - Len(frames) \in 1 .. Len(sent) /\ after[j] = sent[j - Len(frames)]
      BY <1>2, <2>2
    <3>2. Has(sent, types)
      BY <1>3, <3>1 DEF Has
    <3>3. CASE i <= Len(frames)
      <4>1. i \in 1 .. Len(frames) /\ after[i] = frames[i]
        BY <1>2, <3>3
      <4>2. Has(frames, marks)
        BY <1>3, <4>1 DEF Has
      <4>. QED
        BY <3>2, <4>2
    <3>4. CASE ~(i <= Len(frames))
      <4>1. /\ i - Len(frames) \in 1 .. Len(sent)
            /\ after[i] = sent[i - Len(frames)]
            /\ i - Len(frames) < j - Len(frames)
        BY <1>2, <1>3, <3>4
      <4>. QED
        BY <1>3, <3>1, <4>1 DEF NoneBehind
    <3>. QED
      BY <3>3, <3>4
  <2>. QED
    BY <2>1, <2>2
<1>. QED
  BY <1>1, <1>3 DEF NoneBehind

\* When a mark is the first frame, none of the types is left.
LEMMA TailClear ==
    ASSUME NEW frames \in Seq(LinkFrame), frames # <<>>, NEW types, NEW marks,
           Head(frames).type \in marks, NoneBehind(frames, types, marks)
    PROVE  ~Has(Tail(frames), types)
<1>1. /\ Len(Tail(frames)) = Len(frames) - 1
      /\ \A i \in 1 .. Len(Tail(frames)) : Tail(frames)[i] = frames[i + 1]
      /\ Len(frames) \in Nat /\ Head(frames) = frames[1]
  BY HeadTailProperties
<1>2. ASSUME NEW i \in 1 .. Len(Tail(frames)), Tail(frames)[i].type \in types
      PROVE  FALSE
  <2>1. /\ i + 1 \in 1 .. Len(frames) /\ 1 \in 1 .. Len(frames) /\ 1 < i + 1
        /\ frames[i + 1].type \in types
    BY <1>1, <1>2
  <2>. QED
    BY <1>1, <2>1 DEF NoneBehind
<1>. QED
  BY <1>2 DEF Has

\* The first frame is on the line.
LEMMA HeadThere ==
    ASSUME NEW frames \in Seq(LinkFrame), frames # <<>>, NEW types,
           Head(frames).type \in types
    PROVE  Has(frames, types)
<1>1. Head(frames) = frames[1] /\ 1 \in 1 .. Len(frames)
  BY HeadTailProperties
<1>. QED
  BY <1>1 DEF Has

\* A line with one frame.
LEMMA OneFrame ==
    ASSUME NEW frame \in LinkFrame
    PROVE  /\ <<frame>> \in Seq(LinkFrame)
           /\ \A types : Has(<<frame>>, types) <=> frame.type \in types
           /\ \A types, marks : NoneBehind(<<frame>>, types, marks)
<1>1. <<frame>> \in Seq(LinkFrame) /\ Len(<<frame>>) = 1 /\ <<frame>>[1] = frame
  OBVIOUS
<1>2. \A i \in 1 .. 1 : i = 1
  OBVIOUS
<1>3. \A types : Has(<<frame>>, types) <=> frame.type \in types
  BY <1>1, <1>2 DEF Has
<1>4. \A types, marks : NoneBehind(<<frame>>, types, marks)
  BY <1>1, <1>2 DEF NoneBehind
<1>. QED
  BY <1>1, <1>3, <1>4

\* A line without frames.
LEMMA NoFrame ==
    /\ <<>> \in Seq(LinkFrame)
    /\ \A types : ~Has(<<>>, types)
    /\ \A types, marks : NoneBehind(<<>>, types, marks)
<1>1. <<>> \in Seq(LinkFrame) /\ Len(<<>>) = 0
  OBVIOUS
<1>2. \A i : i \notin 1 .. 0
  OBVIOUS
<1>. QED
  BY <1>1, <1>2 DEF Has, NoneBehind

-----------------------------------------------------------------------------
(* Endpoints.                                                              *)

EndpointState ==
    [ state     : SFPstate,
      txSeq     : SFPseq,
      history   : Seq(SessionPacket),
      rxSeq     : SFPseq,
      session   : Nat,
      place     : Nat,
      resynced  : SUBSET Nat,
      delivered : Seq(SessionPacket) ]

\* An endpoint remembers no more than it can, and has resynchronised in no
\* session to come.
Sound(p) ==
    /\ p \in EndpointState
    /\ Len(p.history) <= HISTORY_CAPACITY
    /\ \A s \in p.resynced : s <= p.session

\* p has a new session, of which q has been given nothing.
Unused(p, q) ==
    /\ p.txSeq = 0 /\ p.rxSeq = 0 /\ p.history = <<>> /\ p.place = 0
    /\ p.session >= 1 /\ p.session \notin p.resynced
    /\ \A i \in 1 .. Len(q.delivered) : q.delivered[i].session < p.session

-----------------------------------------------------------------------------
(* One direction: p's stream of packets to q.  The packets of a session    *)
(* and the pings among them are numbered together; c[k] of those before    *)
(* number k are packets of the session.                                    *)

Counting ==
    {c \in [Nat -> Nat] :
        c[0] = 0 /\ \A k \in Nat : c[k + 1] \in {c[k], c[k] + 1}}

\* The packet with number k in session s.
PacketAt(c, s, k) ==
    IF c[k + 1] = c[k] THEN PingPacket ELSE [session |-> s, place |-> c[k]]

OfStream(packet, s) == packet = PingPacket \/ packet.session = s

\* How many of the packets are of session s, if none is of a later one.
PlaceAfter(packets, s) ==
    IF packets # <<>> /\ packets[Len(packets)].session = s
    THEN packets[Len(packets)].place + 1 ELSE 0

\* The packets are the last before number w.
LastOf(packets, c, s, w) ==
    /\ Len(packets) <= w /\ (w # 0 => Len(packets) # 0)
    /\ \A i \in 1 .. Len(packets) :
          packets[i] = PacketAt(c, s, w - Len(packets) + (i - 1))

\* There is a number for one more packet of p, or it is the first.
Room(p, q) == nextSeq(p.txSeq) # q.rxSeq \/ p.history = <<>>

(***************************************************************************)
(* Frames on their way when the packets below number w have been sent and  *)
(* those below d accepted: frame i has the packet with number[i], which is *)
(* not so old that it could be mistaken for another.                       *)
(***************************************************************************)
OnTime(frames, number, c, s, w, d) ==
    /\ \A i \in 1 .. Len(frames) :
          Carries(frames[i]) =>
              /\ frames[i].seq = number[i] % SEQ_RANGE
              /\ frames[i].packet = PacketAt(c, s, number[i])
              /\ number[i] < w
              /\ d <= number[i] + HISTORY_CAPACITY
    /\ \A i, j \in 1 .. Len(frames) :
          i < j /\ Carries(frames[i]) /\ Carries(frames[j]) =>
              number[i] < number[j] + HISTORY_CAPACITY

\* The packets of session s below number w have been sent and those below d
\* accepted; no more if q is about to start anew.
Counted(p, q, frames, s, w, d, c) ==
    /\ d <= w /\ w - d < SEQ_RANGE
    /\ q.rxSeq = d % SEQ_RANGE
    /\ PlaceAfter(q.delivered, s) = c[d]
    /\ p.state = "CONNECTED" =>
          /\ p.txSeq = w % SEQ_RANGE
          /\ p.place = c[w]
          /\ LastOf(p.history, c, s, w)
    /\ Has(frames, {"SYN0"}) => d = 0
    /\ \E number \in [1 .. Len(frames) -> Nat] :
          OnTime(frames, number, c, s, w, d)

\* All packets on their way are of one session, and numbered unless the
\* transmitter has resynchronised in it.
Streams(p, q, frames) ==
    \E s \in Nat \ {0} :
        /\ s <= p.session
        /\ p.state = "CONNECTED" =>
              /\ s = p.session
              /\ \A i \in 1 .. Len(p.history) : OfStream(p.history[i], s)
        /\ \A i \in 1 .. Len(frames) :
              Carries(frames[i]) => OfStream(frames[i].packet, s)
        /\ \A i \in 1 .. Len(q.delivered) : q.delivered[i].session <= s
        /\ \/ s \in p.resynced
           \/ \E w, d \in Nat : \E c \in Counting :
                 Counted(p, q, frames, s, w, d, c)

StreamTypes == {"USR", "RTX", "SYN0"}

\* The first packet has number 0, whatever the range.
LEMMA ZeroSeq == 0 % SEQ_RANGE = 0 /\ 0 \in SFPseq /\ SFP_INITIAL_SEQ = 0
<1>1. (0 * SEQ_RANGE + 0) % SEQ_RANGE = 0
  BY Sizes, ModUnique
<1>. QED
  BY <1>1, Sizes DEF SFPseq, SFP_INITIAL_SEQ

\* What a frame of a user carries.
LEMMA UserFields ==
    ASSUME NEW frame \in LinkFrame, Carries(frame)
    PROVE  frame.seq \in SFPseq /\ frame.packet \in SessionPacket
BY DEF LinkFrame, Carries, Bad

\* A stream survives whatever happens to the line, and all that happens to
\* its ends but writing, sending again and accepting.
LEMMA StreamKept ==
    ASSUME NEW p \in EndpointState, NEW q \in EndpointState,
           NEW p2 \in EndpointState, NEW q2 \in EndpointState,
           NEW frames \in Seq(LinkFrame), NEW after \in Seq(LinkFrame),
           Streams(p, q, frames), Within(after, frames, StreamTypes),
           p.session <= p2.session, p.resynced \subseteq p2.resynced,
           p2.state = "CONNECTED" =>
              /\ p.state = "CONNECTED" /\ p2.session = p.session
              /\ p2.txSeq = p.txSeq /\ p2.place = p.place
              /\ p2.history = p.history,
           q2.delivered = q.delivered,
           \/ q2.rxSeq = q.rxSeq
           \/ Has(frames, {"SYN0"}) /\ q2.rxSeq = 0
    PROVE  Streams(p2, q2, after)
<1>1. PICK s \in Nat \ {0} :
        /\ s <= p.session
        /\ p.state = "CONNECTED" =>
              /\ s = p.session
              /\ \A i \in 1 .. Len(p.history) : OfStream(p.history[i], s)
        /\ \A i \in 1 .. Len(frames) :
              Carries(frames[i]) => OfStream(frames[i].packet, s)
        /\ \A i \in 1 .. Len(q.delivered) : q.delivered[i].session <= s
        /\ \/ s \in p.resynced
           \/ \E w, d \in Nat : \E c \in Counting :
                 Counted(p, q, frames, s, w, d, c)
  BY DEF Streams
<1>2. PICK from \in [1 .. Len(after) -> Int] :
        /\ \A i \in 1 .. Len(after) :
              after[i].type \in StreamTypes =>
                  from[i] \in 1 .. Len(frames) /\ after[i] = frames[from[i]]
        /\ \A i, j \in 1 .. Len(after) :
              i < j /\ after[i].type \in StreamTypes
                    /\ after[j].type \in StreamTypes =>
                  from[i] < from[j]
  BY DEF Within
<1>3. /\ \A i \in 1 .. Len(after) :
              Carries(after[i]) =>
                  from[i] \in 1 .. Len(frames) /\ after[i] = frames[from[i]]
      /\ \A i, j \in 1 .. Len(after) :
              i < j /\ Carries(after[i]) /\ Carries(after[j]) =>
                  from[i] < from[j]
  BY <1>2 DEF Carries, StreamTypes
<1>4. s <= p2.session
  <2>1. p.session \in Nat /\ p2.session \in Nat
    BY DEF EndpointState
  <2>. QED
    BY <1>1, <2>1
<1>5. p2.state = "CONNECTED" =>
              /\ s = p2.session
              /\ \A i \in 1 .. Len(p2.history) : OfStream(p2.history[i], s)
  BY <1>1
<1>6. \A i \in 1 .. Len(after) :
         Carries(after[i]) => OfStream(after[i].packet, s)
  BY <1>1, <1>3
<1>7. ASSUME NEW w \in Nat, NEW d \in Nat, NEW c \in Counting,
             Counted(p, q, frames, s, w, d, c)
      PROVE  Counted(p2, q2, after, s, w, d, c)
  <2>1. Has(after, {"SYN0"}) => Has(frames, {"SYN0"})
    BY WithinHas DEF StreamTypes
  <2>2. q2.rxSeq = d % SEQ_RANGE
    BY <1>7, ZeroSeq DEF Counted
  <2>3. PICK number \in [1 .. Len(frames) -> Nat] :
           OnTime(frames, number, c, s, w, d)
    BY <1>7 DEF Counted
  <2>. DEFINE moved == [i \in 1 .. Len(after) |->
                           IF Carries(after[i]) THEN number[from[i]] ELSE 0]
  <2>4. /\ moved \in [1 .. Len(after) -> Nat]
        /\ \A i \in 1 .. Len(after) :
              Carries(after[i]) => moved[i] = number[from[i]]
    BY <1>3
  <2>. HIDE DEF moved
  <2>5. OnTime(after, moved, c, s, w, d)
    <3>1. ASSUME NEW i \in 1 .. Len(after), Carries(after[i])
          PROVE  /\ after[i].seq = moved[i] % SEQ_RANGE
                 /\ after[i].packet = PacketAt(c, s, moved[i])
                 /\ moved[i] < w
                 /\ d <= moved[i] + HISTORY_CAPACITY
      BY <1>3, <2>3, <2>4, <3>1 DEF OnTime
    <3>2. ASSUME NEW i \in 1 .. Len(after), NEW j \in 1 .. Len(after),
                 i < j, Carries(after[i]), Carries(after[j])
          PROVE  moved[i] < moved[j] + HISTORY_CAPACITY
      <4>1. /\ from[i] \in 1 .. Len(frames) /\ from[j] \in 1 .. Len(frames)
            /\ Carries(frames[from[i]]) /\ Carries(frames[from[j]])
            /\ from[i] < from[j]
        BY <1>3, <3>2
      <4>2. number[from[i]] < number[from[j]] + HISTORY_CAPACITY
        BY <2>3, <4>1 DEF OnTime
      <4>. QED
        BY <2>4, <3>2, <4>2
    <3>. QED
      BY <3>1, <3>2 DEF OnTime
  <2>6. /\ d <= w /\ w - d < SEQ_RANGE
        /\ PlaceAfter(q2.delivered, s) = c[d]
        /\ p2.state = "CONNECTED" =>
              /\ p2.txSeq = w % SEQ_RANGE
              /\ p2.place = c[w]
              /\ LastOf(p2.history, c, s, w)
        /\ Has(after, {"SYN0"}) => d = 0
    BY <1>7, <2>1 DEF Counted
  <2>. QED
    BY <2>2, <2>4, <2>5, <2>6 DEF Counted
<1>8. \/ s \in p2.resynced
      \/ \E w, d \in Nat : \E c \in Counting :
            Counted(p2, q2, after, s, w, d, c)
  BY <1>1, <1>7
<1>9. \A i \in 1 .. Len(q2.delivered) : q2.delivered[i].session <= s
  BY <1>1
<1>. QED
  BY <1>4, <1>5, <1>6, <1>8, <1>9 DEF Streams

\* The last of some packets of earlier sessions says nothing of this one.
LEMMA NoneOfSession ==
    ASSUME NEW packets \in Seq(SessionPacket), NEW s \in Nat,
           \A i \in 1 .. Len(packets) : packets[i].session < s
    PROVE  PlaceAfter(packets, s) = 0
<1>1. ASSUME packets # <<>>
      PROVE  packets[Len(packets)].session # s
  <2>1. Len(packets) \in 1 .. Len(packets) /\ packets[Len(packets)] \in SessionPacket
    BY <1>1
  <2>2. packets[Len(packets)].session < s /\ packets[Len(packets)].session \in Nat
    BY <2>1 DEF SessionPacket
  <2>. QED
    BY <2>2
<1>. QED
  BY <1>1 DEF PlaceAfter

\* A stream begins with a new session, and a receiver that starts anew.
LEMMA StreamStarts ==
    ASSUME NEW p \in EndpointState, NEW q \in EndpointState,
           NEW frames \in Seq(LinkFrame),
           Unused(p, q), q.rxSeq = 0, ~Has(frames, UserTypes)
    PROVE  Streams(p, q, frames)
<1>1. /\ p.session \in Nat \ {0} /\ p.session \notin p.resynced
      /\ p.txSeq = 0 /\ p.history = <<>> /\ p.place = 0
      /\ q.delivered \in Seq(SessionPacket)
      /\ \A i \in 1 .. Len(q.delivered) :
            q.delivered[i].session < p.session /\ q.delivered[i].session \in Nat
  <2>1. p.session \in Nat /\ q.delivered \in Seq(SessionPacket)
    BY DEF EndpointState
  <2>2. \A i \in 1 .. Len(q.delivered) : q.delivered[i] \in SessionPacket
    BY <2>1
  <2>. QED
    BY <2>1, <2>2 DEF Unused, SessionPacket
<1>2. \A i \in 1 .. Len(frames) : ~Carries(frames[i])
  BY DEF Has, UserTypes, Carries
<1>3. Len(p.history) = 0
  BY <1>1
<1>. DEFINE s == p.session
<1>. DEFINE c == [k \in Nat |-> 0]
<1>. DEFINE number == [i \in 1 .. Len(frames) |-> 0]
<1>4. c \in Counting /\ c[0] = 0
  <2>1. c \in [Nat -> Nat] /\ \A k \in Nat : c[k] = 0 /\ c[k + 1] = 0
    OBVIOUS
  <2>. QED
    BY <2>1 DEF Counting
<1>5. number \in [1 .. Len(frames) -> Nat]
  OBVIOUS
<1>6. PlaceAfter(q.delivered, s) = 0
  BY <1>1, NoneOfSession
<1>. HIDE DEF c, number
<1>7. OnTime(frames, number, c, s, 0, 0)
  BY <1>2 DEF OnTime
<1>8. LastOf(p.history, c, s, 0)
  BY <1>3 DEF LastOf
<1>9. Counted(p, q, frames, s, 0, 0, c)
  BY <1>1, <1>4, <1>5, <1>6, <1>7, <1>8, Sizes, ZeroSeq DEF Counted
<1>10. \A i \in 1 .. Len(q.delivered) : q.delivered[i].session <= s
  BY <1>1
<1>. QED
  BY <1>1, <1>2, <1>3, <1>4, <1>9, <1>10 DEF Streams

-----------------------------------------------------------------------------
(* Writing a packet.                                                       *)

\* What is counted: nothing before number 0, and at most one more each time.
LEMMA CountingIs ==
    ASSUME NEW c \in Counting
    PROVE  /\ c \in [Nat -> Nat] /\ c[0] = 0
           /\ \A k \in Nat : c[k] \in Nat /\ c[k + 1] \in {c[k], c[k] + 1}
BY DEF Counting

LEMMA NoMoreThan ==
    ASSUME NEW a \in Nat, NEW b \in Nat, NEW c \in Nat, a <= b \/ a < b, b <= c
    PROVE  a <= c
OBVIOUS

\* The packet with number w may be of the session or not.
LEMMA CountOn ==
    ASSUME NEW c \in Counting, NEW w \in Nat, NEW more \in {0, 1}
    PROVE  \E c2 \in Counting :
              /\ \A k \in 0 .. w : c2[k] = c[k]
              /\ c2[w + 1] = c[w] + more
<1>. DEFINE c2 == [k \in Nat |-> IF k <= w THEN c[k] ELSE c[w] + more]
<1>1. c \in [Nat -> Nat] /\ \A k \in Nat : c[k] \in Nat
  BY CountingIs
<1>2. c2 \in [Nat -> Nat]
  BY <1>1
<1>3. /\ \A k \in Nat : k <= w => c2[k] = c[k]
      /\ \A k \in Nat : ~(k <= w) => c2[k] = c[w] + more
  OBVIOUS
<1>. HIDE DEF c2
<1>4. c2[0] = 0
  BY <1>3, CountingIs
<1>5. ASSUME NEW k \in Nat
      PROVE  c2[k + 1] \in {c2[k], c2[k] + 1}
  <2>1. CASE k + 1 <= w
    <3>1. k \in Nat /\ k + 1 \in Nat /\ k <= w
      BY <2>1
    <3>2. c2[k] = c[k] /\ c2[k + 1] = c[k + 1]
      BY <1>3, <2>1, <3>1
    <3>3. c[k + 1] \in {c[k], c[k] + 1}
      BY CountingIs
    <3>. QED
      BY <3>2, <3>3
  <2>2. CASE k = w
    <3>1. c2[k] = c[w] /\ c2[k + 1] = c[w] + more
      BY <1>3, <2>2
    <3>. QED
      BY <3>1, <1>1
  <2>3. CASE k > w
    <3>1. c2[k] = c[w] + more /\ c2[k + 1] = c[w] + more
      BY <1>3, <2>3
    <3>. QED
      BY <3>1
  <2>. QED
    BY <2>1, <2>2, <2>3
<1>6. c2 \in Counting
  BY <1>2, <1>4, <1>5 DEF Counting
<1>7. /\ \A k \in 0 .. w : c2[k] = c[k]
      /\ c2[w + 1] = c[w] + more
  BY <1>3
<1>. QED
  BY <1>6, <1>7

\* The packets without the oldest, or all of them, and one more.
Remembers(longer, packets, packet) ==
    /\ longer \in Seq(SessionPacket)
    /\ Len(longer) \in Nat \ {0}
    /\ Len(longer) <= HISTORY_CAPACITY
    /\ Len(longer) <= Len(packets) + 1
    /\ longer[Len(longer)] = packet
    /\ \A i \in 1 .. Len(longer) - 1 :
          /\ Len(packets) + 1 - (Len(longer) - i) \in 1 .. Len(packets)
          /\ longer[i] = packets[Len(packets) + 1 - (Len(longer) - i)]

\* A history that remembers one more packet.
LEMMA RememberMore ==
    ASSUME NEW packets \in Seq(SessionPacket), NEW packet \in SessionPacket,
           Len(packets) <= HISTORY_CAPACITY
    PROVE  Remembers(Remember(packets, packet), packets, packet)
<1>0. PICK longer : longer = Remember(packets, packet)
  OBVIOUS
<1>. DEFINE older == IF Len(packets) = HISTORY_CAPACITY THEN Tail(packets)
                     ELSE packets
<1>1. longer = Append(older, packet)
  BY <1>0 DEF Remember
<1>2. /\ older \in Seq(SessionPacket)
      /\ Len(older) \in Nat /\ Len(older) < HISTORY_CAPACITY
      /\ Len(older) <= Len(packets)
      /\ \A i \in 1 .. Len(older) :
            /\ i + (Len(packets) - Len(older)) \in 1 .. Len(packets)
            /\ older[i] = packets[i + (Len(packets) - Len(older))]
  <2>1. CASE Len(packets) = HISTORY_CAPACITY
    <3>1. packets # <<>>
      BY <2>1, Sizes
    <3>2. /\ Tail(packets) \in Seq(SessionPacket)
          /\ Len(Tail(packets)) = Len(packets) - 1
          /\ \A i \in 1 .. Len(Tail(packets)) : Tail(packets)[i] = packets[i + 1]
      BY <3>1, HeadTailProperties
    <3>3. older = Tail(packets) /\ Len(packets) \in Nat
      BY <2>1
    <3>. HIDE DEF older
    <3>4. Len(packets) - Len(older) = 1
      BY <3>2, <3>3
    <3>. QED
      BY <2>1, <3>2, <3>3, <3>4, Sizes
  <2>2. CASE Len(packets) # HISTORY_CAPACITY
    <3>1. older = packets /\ Len(packets) \in Nat
      BY <2>2
    <3>. HIDE DEF older
    <3>. QED
      BY <2>2, <3>1, Sizes
  <2>. QED
    BY <2>1, <2>2
<1>. HIDE DEF older
<1>4. /\ longer \in Seq(SessionPacket)
      /\ Len(longer) = Len(older) + 1
      /\ \A i \in 1 .. Len(older) : longer[i] = older[i]
      /\ longer[Len(older) + 1] = packet
  BY <1>1, <1>2, AppendProperties
<1>5. ASSUME NEW i \in 1 .. Len(longer) - 1
      PROVE  /\ Len(packets) + 1 - (Len(longer) - i) \in 1 .. Len(packets)
             /\ longer[i] = packets[Len(packets) + 1 - (Len(longer) - i)]
  <2>1. /\ i \in 1 .. Len(older)
        /\ Len(packets) + 1 - (Len(longer) - i)
              = i + (Len(packets) - Len(older))
    BY <1>2, <1>4
  <2>. QED
    BY <1>2, <1>4, <2>1
<1>6. /\ Len(longer) \in Nat \ {0}
      /\ Len(longer) <= HISTORY_CAPACITY
      /\ Len(longer) <= Len(packets) + 1
      /\ longer[Len(longer)] = packet
  BY <1>2, <1>4, Sizes
<1>. QED
  BY <1>0, <1>4, <1>5, <1>6 DEF Remembers

\* Writing a packet: it has the next number, and is not a lap ahead.
LEMMA StreamWrites ==
    ASSUME NEW p \in EndpointState, NEW q \in EndpointState,
           NEW p2 \in EndpointState, NEW frames \in Seq(LinkFrame),
           Streams(p, q, frames), Sound(p), p.state = "CONNECTED",
           NEW packet \in SessionPacket,
           \/ /\ packet = [session |-> p.session, place |-> p.place]
              /\ p2.place = p.place + 1
           \/ packet = PingPacket /\ p2.place = p.place,
           p.session \notin p.resynced => Room(p, q),
           p2.session = p.session, p2.resynced = p.resynced,
           p2.txSeq = nextSeq(p.txSeq),
           p2.history = Remember(p.history, packet)
    PROVE  Streams(p2, q, Append(frames, UsrFrame(p.txSeq, packet)))
<1>. DEFINE frame == UsrFrame(p.txSeq, packet)
<1>. DEFINE s == p.session
<1>0. /\ p.session \in Nat /\ p.txSeq \in SFPseq /\ p.place \in Nat
      /\ p.history \in Seq(SessionPacket) /\ Len(p.history) <= HISTORY_CAPACITY
      /\ q.rxSeq \in SFPseq
  BY DEF EndpointState, Sound
<1>1. /\ s \in Nat \ {0}
      /\ \A i \in 1 .. Len(p.history) : OfStream(p.history[i], s)
      /\ \A i \in 1 .. Len(frames) :
              Carries(frames[i]) => OfStream(frames[i].packet, s)
      /\ \A i \in 1 .. Len(q.delivered) : q.delivered[i].session <= s
      /\ \/ s \in p.resynced
         \/ \E w, d \in Nat : \E c \in Counting :
                 Counted(p, q, frames, s, w, d, c)
  BY DEF Streams
<1>2. /\ frame \in LinkFrame /\ frame.seq = p.txSeq /\ frame.packet = packet
      /\ Carries(frame) /\ frame.type = "USR"
  BY <1>0 DEF UsrFrame, LinkFrame, Carries
<1>. HIDE DEF frame
<1>3. PICK after : after = Append(frames, frame)
  OBVIOUS
<1>4. /\ Len(after) = Len(frames) + 1 /\ Len(frames) \in Nat
      /\ \A i \in 1 .. Len(frames) : after[i] = frames[i]
      /\ after[Len(frames) + 1] = frame
  BY <1>2, <1>3, AppendProperties
<1>5. OfStream(packet, s)
  BY DEF OfStream
<1>6. \A i \in 1 .. Len(after) :
         Carries(after[i]) => OfStream(after[i].packet, s)
  <2>1. ASSUME NEW i \in 1 .. Len(after), Carries(after[i])
        PROVE  OfStream(after[i].packet, s)
    <3>1. CASE i \in 1 .. Len(frames)
      BY <1>1, <1>4, <2>1, <3>1
    <3>2. CASE i = Len(frames) + 1
      BY <1>2, <1>4, <1>5, <3>2
    <3>. QED
      BY <1>4, <3>1, <3>2
  <2>. QED
    BY <2>1
<1>7. PICK history2 : history2 = Remember(p.history, packet)
  OBVIOUS
<1>8. /\ Len(history2) \in Nat \ {0}
      /\ Len(history2) <= Len(p.history) + 1
      /\ history2[Len(history2)] = packet
      /\ \A i \in 1 .. Len(history2) - 1 :
            /\ Len(p.history) + 1 - (Len(history2) - i) \in 1 .. Len(p.history)
            /\ history2[i] = p.history[Len(p.history) + 1 - (Len(history2) - i)]
  <2>1. Remembers(history2, p.history, packet)
    BY <1>0, <1>7, RememberMore
  <2>. QED
    BY <2>1 DEF Remembers
<1>9. \A i \in 1 .. Len(history2) : OfStream(history2[i], s)
  <2>1. ASSUME NEW i \in 1 .. Len(history2)
        PROVE  OfStream(history2[i], s)
    <3>1. CASE i = Len(history2)
      BY <1>5, <1>8, <3>1
    <3>2. CASE i # Len(history2)
      <4>1. i \in 1 .. Len(history2) - 1
        BY <1>8, <3>2
      <4>. QED
        BY <1>1, <1>8, <4>1
    <3>. QED
      BY <3>1, <3>2
  <2>. QED
    BY <2>1
<1>10. ASSUME s \notin p.resynced
       PROVE  \E w, d \in Nat : \E c \in Counting :
                 Counted(p2, q, after, s, w, d, c)
  <2>1. PICK w \in Nat, d \in Nat, c \in Counting :
           Counted(p, q, frames, s, w, d, c)
    BY <1>1, <1>10
  <2>2. /\ d <= w /\ w - d < SEQ_RANGE
        /\ q.rxSeq = d % SEQ_RANGE
        /\ PlaceAfter(q.delivered, s) = c[d]
        /\ p.txSeq = w % SEQ_RANGE
        /\ p.place = c[w]
        /\ LastOf(p.history, c, s, w)
        /\ Has(frames, {"SYN0"}) => d = 0
    BY <2>1 DEF Counted
  <2>3. PICK number \in [1 .. Len(frames) -> Nat] :
           OnTime(frames, number, c, s, w, d)
    BY <2>1 DEF Counted
  <2>4. /\ c[w] \in Nat
        /\ \/ p2.place = c[w] + 1 /\ packet = [session |-> s, place |-> c[w]]
           \/ p2.place = c[w] /\ packet = PingPacket
    BY <2>2, CountingIs
  <2>5. PICK c2 \in Counting :
           /\ \A k \in 0 .. w : c2[k] = c[k]
           /\ c2[w + 1] = p2.place
    <3>1. PICK more \in {0, 1} : p2.place = c[w] + more
      <4>1. p2.place = c[w] + 0 \/ p2.place = c[w] + 1
        BY <2>4
      <4>. QED
        BY <4>1
    <3>2. PICK c2 \in Counting :
             /\ \A k \in 0 .. w : c2[k] = c[k]
             /\ c2[w + 1] = c[w] + more
      BY CountOn
    <3>. QED
      BY <3>1, <3>2
  <2>6. PacketAt(c2, s, w) = packet
    <3>1. w \in 0 .. w
      OBVIOUS
    <3>2. c2[w] = c[w] /\ c2[w + 1] = p2.place
      BY <2>5, <3>1
    <3>3. c[w] + 1 # c[w]
      BY <2>4
    <3>4. CASE p2.place = c[w] + 1 /\ packet = [session |-> s, place |-> c[w]]
      <4>1. c2[w + 1] # c2[w]
        BY <3>2, <3>3, <3>4
      <4>. QED
        BY <3>2, <3>4, <4>1 DEF PacketAt
    <3>5. CASE p2.place = c[w] /\ packet = PingPacket
      BY <3>2, <3>5 DEF PacketAt
    <3>. QED
      BY <2>4, <3>4, <3>5
  <2>7. \A k \in Nat : k < w => PacketAt(c2, s, k) = PacketAt(c, s, k)
    <3>1. ASSUME NEW k \in Nat, k < w
          PROVE  PacketAt(c2, s, k) = PacketAt(c, s, k)
      <4>1. k \in 0 .. w /\ k + 1 \in 0 .. w
        BY <3>1
      <4>. QED
        BY <2>5, <4>1 DEF PacketAt
    <3>. QED
      BY <3>1
  <2>8. /\ p2.txSeq = (w + 1) % SEQ_RANGE
        /\ (w + 1) % SEQ_RANGE # d % SEQ_RANGE
    <3>1. p2.txSeq = (w + 1) % SEQ_RANGE
      BY <2>2, NextSeqIs
    <3>2. CASE nextSeq(p.txSeq) # q.rxSeq
      BY <2>2, <3>2, NextSeqIs
    <3>3. CASE p.history = <<>>
      <4>1. w = 0 /\ d = 0
        <5>1. Len(p.history) = 0
          BY <3>3
        <5>2. w = 0
          BY <2>2, <5>1 DEF LastOf
        <5>. QED
          BY <2>2, <5>2
      <4>2. (0 * SEQ_RANGE + 1) % SEQ_RANGE = 1 /\ 0 * SEQ_RANGE + 1 = w + 1
        <5>1. /\ SEQ_RANGE \in Nat \ {0} /\ 0 \in Int
              /\ 1 \in 0 .. (SEQ_RANGE - 1)
          BY Sizes
        <5>2. (0 * SEQ_RANGE + 1) % SEQ_RANGE = 1
          BY <5>1, ModUnique
        <5>3. 0 * SEQ_RANGE + 1 = w + 1
          BY <4>1, Sizes
        <5>. QED
          BY <5>2, <5>3
      <4>. QED
        BY <3>1, <4>1, <4>2, ZeroSeq
    <3>. QED
      BY <1>10, <3>1, <3>2, <3>3 DEF Room
  <2>9. d <= w + 1 /\ (w + 1) - d < SEQ_RANGE
    <3>1. ASSUME (w + 1) - d = SEQ_RANGE
          PROVE  FALSE
      <4>1. d + 1 * SEQ_RANGE = w + 1
        BY <3>1, Sizes
      <4>2. (d + 1 * SEQ_RANGE) % SEQ_RANGE = d % SEQ_RANGE
        BY Sizes, d \in Int, 1 \in Int, ModShift
      <4>. QED
        BY <2>8, <4>1, <4>2
    <3>. QED
      BY <2>2, <3>1, Sizes
  <2>10. LastOf(history2, c2, s, w + 1)
    <3>1. Len(p.history) <= w /\ Len(p.history) \in Nat
      BY <1>0, <2>2 DEF LastOf
    <3>2. ASSUME NEW i \in 1 .. Len(history2)
          PROVE  history2[i] = PacketAt(c2, s, (w + 1) - Len(history2) + (i - 1))
      <4>1. CASE i = Len(history2)
        <5>1. (w + 1) - Len(history2) + (i - 1) = w
          BY <1>8, <4>1
        <5>. QED
          BY <1>8, <2>6, <4>1, <5>1
      <4>2. CASE i # Len(history2)
        <5>1. i \in 1 .. Len(history2) - 1
          BY <1>8, <4>2
        <5>2. PICK j : j = Len(p.history) + 1 - (Len(history2) - i)
          OBVIOUS
        <5>3. j \in 1 .. Len(p.history) /\ history2[i] = p.history[j]
          BY <1>8, <5>1, <5>2
        <5>4. p.history[j] = PacketAt(c, s, w - Len(p.history) + (j - 1))
          BY <2>2, <5>3 DEF LastOf
        <5>5. /\ w - Len(p.history) + (j - 1)
                    = (w + 1) - Len(history2) + (i - 1)
              /\ w - Len(p.history) + (j - 1) \in Nat
              /\ w - Len(p.history) + (j - 1) < w
          <6>1. PICK n, m : n = Len(history2) /\ m = Len(p.history)
            OBVIOUS
          <6>2. /\ n \in Nat /\ m \in Nat /\ m <= w /\ i \in Int
                /\ j = m + 1 - (n - i) /\ j \in 1 .. m
            <7>1. n \in Nat /\ m \in Nat /\ m <= w /\ i \in Int
              BY <1>8, <3>1, <6>1
            <7>2. j = m + 1 - (n - i) /\ j \in 1 .. m
              BY <5>2, <5>3, <6>1
            <7>. QED
              BY <7>1, <7>2
          <6>3. /\ w - m + (j - 1) = (w + 1) - n + (i - 1)
                /\ w - m + (j - 1) \in Nat
                /\ w - m + (j - 1) < w
            BY <6>2
          <6>. QED
            BY <6>1, <6>3
        <5>. QED
          BY <2>7, <5>3, <5>4, <5>5
      <4>. QED
        BY <4>1, <4>2
    <3>3. Len(history2) <= w + 1 /\ Len(history2) # 0
      BY <1>8, <3>1
    <3>. QED
      BY <3>2, <3>3 DEF LastOf
  <2>. DEFINE number2 == [i \in 1 .. Len(after) |->
                             IF i <= Len(frames) THEN number[i] ELSE w]
  <2>11. /\ number2 \in [1 .. Len(after) -> Nat]
         /\ \A i \in 1 .. Len(frames) : number2[i] = number[i]
         /\ number2[Len(frames) + 1] = w
    BY <1>4
  <2>. HIDE DEF number2
  <2>12. OnTime(after, number2, c2, s, w + 1, d)
    <3>1. ASSUME NEW i \in 1 .. Len(after), Carries(after[i])
          PROVE  /\ after[i].seq = number2[i] % SEQ_RANGE
                 /\ after[i].packet = PacketAt(c2, s, number2[i])
                 /\ number2[i] < w + 1
                 /\ d <= number2[i] + HISTORY_CAPACITY
      <4>1. CASE i \in 1 .. Len(frames)
        <5>1. /\ after[i] = frames[i] /\ number2[i] = number[i]
              /\ Carries(frames[i]) /\ number[i] \in Nat
          BY <1>4, <2>11, <3>1, <4>1
        <5>2. /\ frames[i].seq = number[i] % SEQ_RANGE
              /\ frames[i].packet = PacketAt(c, s, number[i])
              /\ number[i] < w
              /\ d <= number[i] + HISTORY_CAPACITY
          BY <2>3, <4>1, <5>1 DEF OnTime
        <5>. QED
          BY <2>7, <5>1, <5>2
      <4>2. CASE i = Len(frames) + 1
        <5>1. after[i] = frame /\ number2[i] = w
          BY <1>4, <2>11, <4>2
        <5>2. d <= w + HISTORY_CAPACITY
          BY <2>2, Sizes
        <5>. QED
          BY <1>2, <2>2, <2>6, <5>1, <5>2
      <4>. QED
        BY <1>4, <4>1, <4>2
    <3>2. ASSUME NEW i \in 1 .. Len(after), NEW j \in 1 .. Len(after),
                 i < j, Carries(after[i]), Carries(after[j])
          PROVE  number2[i] < number2[j] + HISTORY_CAPACITY
      <4>1. /\ i \in 1 .. Len(frames) /\ Carries(frames[i])
            /\ number2[i] = number[i] /\ number[i] \in Nat
        BY <1>4, <2>11, <3>2
      <4>2. number[i] < w
        BY <2>3, <4>1 DEF OnTime
      <4>3. CASE j \in 1 .. Len(frames)
        <5>1. /\ Carries(frames[j]) /\ number2[j] = number[j]
          BY <1>4, <2>11, <3>2, <4>3
        <5>. QED
          BY <2>3, <3>2, <4>1, <4>3, <5>1 DEF OnTime
      <4>4. CASE j = Len(frames) + 1
        BY <2>11, <4>1, <4>2, <4>4, Sizes
      <4>. QED
        BY <1>4, <4>3, <4>4
    <3>. QED
      BY <3>1, <3>2 DEF OnTime
  <2>13. c2[d] = c[d]
    <3>1. d \in 0 .. w
      BY <2>2
    <3>. QED
      BY <2>5, <3>1
  <2>14. Has(after, {"SYN0"}) => Has(frames, {"SYN0"})
    <3>1. ASSUME NEW i \in 1 .. Len(after), after[i].type \in {"SYN0"}
          PROVE  Has(frames, {"SYN0"})
      <4>1. i # Len(frames) + 1
        BY <1>2, <1>4, <3>1
      <4>2. i \in 1 .. Len(frames) /\ after[i] = frames[i]
        BY <1>4, <4>1
      <4>. QED
        BY <3>1, <4>2 DEF Has
    <3>. QED
      BY <3>1 DEF Has
  <2>15. Counted(p2, q, after, s, w + 1, d, c2)
    BY <1>7, <2>2, <2>5, <2>8, <2>9, <2>10, <2>11, <2>12, <2>13, <2>14
       DEF Counted
  <2>. QED
    BY <2>15, w + 1 \in Nat
<1>11. Streams(p2, q, after)
  BY <1>0, <1>1, <1>6, <1>7, <1>9, <1>10 DEF Streams
<1>. QED
  BY <1>3, <1>11 DEF frame

-----------------------------------------------------------------------------
(* Sending again.                                                          *)

\* The last of some packets.
Suffix(kept, packets) ==
    /\ kept \in Seq(SessionPacket)
    /\ Len(kept) \in Nat /\ Len(kept) <= Len(packets)
    /\ \A i \in 1 .. Len(kept) :
          /\ Len(packets) - Len(kept) + i \in 1 .. Len(packets)
          /\ kept[i] = packets[Len(packets) - Len(kept) + i]

\* What is left of a history are the last packets.
LEMMA KeptAreLast ==
    ASSUME NEW packets \in Seq(SessionPacket), NEW tx \in SFPseq, NEW seq \in SFPseq
    PROVE  /\ Suffix(HistoryFrom(packets, tx, seq), packets)
           /\ fastforward(packets, tx, seq) \in Nat
           /\ InHistory(packets, tx, seq) =>
                 Len(HistoryFrom(packets, tx, seq))
                    = Len(packets) - fastforward(packets, tx, seq)
<1>1. /\ Len(packets) \in Nat /\ tx \in Int /\ seq \in Int
      /\ seq - (tx - Len(packets)) \in Int
  BY Sizes DEF SFPseq
<1>2. fastforward(packets, tx, seq) \in Nat
  BY <1>1, SeqType, Sizes DEF fastforward, SFPseq
<1>3. CASE InHistory(packets, tx, seq)
  <2>1. PICK f \in Nat : f = fastforward(packets, tx, seq)
    BY <1>2
  <2>2. PICK kept : kept = HistoryFrom(packets, tx, seq)
    OBVIOUS
  <2>3. f < Len(packets) /\ kept = SubSeq(packets, f + 1, Len(packets))
    BY <1>1, <1>3, <2>1, <2>2 DEF InHistory, HistoryFrom
  <2>4. \A i \in f + 1 .. Len(packets) : packets[i] \in SessionPacket
    BY <1>1
  <2>5. /\ kept \in Seq(SessionPacket)
        /\ Len(kept) = Len(packets) - f
        /\ \A i \in 1 .. Len(packets) - f : kept[i] = packets[f + i]
    BY <1>1, <2>3, <2>4, SubSeqProperties
  <2>6. ASSUME NEW i \in 1 .. Len(kept)
        PROVE  /\ Len(packets) - Len(kept) + i \in 1 .. Len(packets)
               /\ kept[i] = packets[Len(packets) - Len(kept) + i]
    <3>1. Len(packets) - Len(kept) + i = f + i
      BY <1>1, <2>5
    <3>2. f + i \in 1 .. Len(packets) /\ i \in 1 .. Len(packets) - f
      BY <1>1, <2>5
    <3>. QED
      BY <2>5, <3>1, <3>2
  <2>7. Len(kept) \in Nat /\ Len(kept) <= Len(packets)
    BY <1>1, <2>3, <2>5
  <2>. QED
    BY <1>2, <2>1, <2>2, <2>5, <2>6, <2>7 DEF Suffix
<1>4. CASE ~InHistory(packets, tx, seq)
  <2>1. HistoryFrom(packets, tx, seq) = packets
    BY <1>4 DEF HistoryFrom
  <2>2. \A i \in 1 .. Len(packets) : Len(packets) - Len(packets) + i = i
    BY <1>1
  <2>. QED
    BY <1>1, <1>2, <1>4, <2>1, <2>2 DEF Suffix
<1>. QED
  BY <1>3, <1>4

\* What is sent again are the packets that are kept.
LEMMA ResentIs ==
    ASSUME NEW kept \in Seq(SessionPacket), NEW seq \in SFPseq
    PROVE  /\ Retransmission(kept, seq) \in Seq(LinkFrame)
           /\ Len(Retransmission(kept, seq)) = Len(kept)
           /\ \A i \in 1 .. Len(kept) :
                /\ Retransmission(kept, seq)[i].type = "RTX"
                /\ Retransmission(kept, seq)[i].packet = kept[i]
                /\ Retransmission(kept, seq)[i].seq =
                      (seq + (i - 1)) % SEQ_RANGE
<1>1. \A i \in 1 .. Len(kept) :
         RtxFrame((seq + (i - 1)) % SEQ_RANGE, kept[i]) \in LinkFrame
  <2>. SUFFICES ASSUME NEW i \in 1 .. Len(kept)
                PROVE  RtxFrame((seq + (i - 1)) % SEQ_RANGE, kept[i])
                          \in LinkFrame
    OBVIOUS
  <2>1. seq + (i - 1) \in Int
    BY Sizes DEF SFPseq
  <2>2. (seq + (i - 1)) % SEQ_RANGE \in SFPseq /\ kept[i] \in SessionPacket
    BY <2>1, SeqType
  <2>. QED
    BY <2>2 DEF RtxFrame, LinkFrame
<1>2. /\ Retransmission(kept, seq) \in Seq(LinkFrame)
      /\ Len(Retransmission(kept, seq)) = Len(kept)
  BY <1>1 DEF Retransmission
<1>3. \A i \in 1 .. Len(kept) :
         Retransmission(kept, seq)[i]
            = RtxFrame((seq + (i - 1)) % SEQ_RANGE, kept[i])
  BY DEF Retransmission
<1>4. \A number, packet :
         /\ RtxFrame(number, packet).type = "RTX"
         /\ RtxFrame(number, packet).packet = packet
         /\ RtxFrame(number, packet).seq = number
  BY DEF RtxFrame
<1>. QED
  BY <1>2, <1>3, <1>4

\* What sfpTransmitHistoryFromSeq leaves of an endpoint.
LEMMA RewoundIs ==
    ASSUME NEW p, Sound(p), NEW seq \in SFPseq
    PROVE  /\ Sound(Rewound(p, seq))
           /\ Rewound(p, seq).state = p.state
           /\ Rewound(p, seq).rxSeq = p.rxSeq
           /\ Rewound(p, seq).session = p.session
           /\ Rewound(p, seq).place = p.place
           /\ Rewound(p, seq).delivered = p.delivered
           /\ Rewound(p, seq).history = HistoryFrom(p.history, p.txSeq, seq)
           /\ Rewound(p, seq).txSeq
                 = SeqAfter(HistoryFrom(p.history, p.txSeq, seq), seq)
           /\ Rewound(p, seq).resynced
                 = IF InHistory(p.history, p.txSeq, seq) THEN p.resynced
                   ELSE p.resynced \cup {p.session}
           /\ Suffix(HistoryFrom(p.history, p.txSeq, seq), p.history)
           /\ Resent(p, seq) \in Seq(LinkFrame)
           /\ Len(Resent(p, seq)) = Len(HistoryFrom(p.history, p.txSeq, seq))
           /\ \A i \in 1 .. Len(Resent(p, seq)) :
                 /\ Resent(p, seq)[i].type = "RTX"
                 /\ Resent(p, seq)[i].packet
                       = HistoryFrom(p.history, p.txSeq, seq)[i]
                 /\ Resent(p, seq)[i].seq = (seq + (i - 1)) % SEQ_RANGE
<1>1. /\ p \in EndpointState /\ Len(p.history) <= HISTORY_CAPACITY
      /\ \A s \in p.resynced : s <= p.session
  BY DEF Sound
<1>2. /\ p.history \in Seq(SessionPacket) /\ p.txSeq \in SFPseq
      /\ p.session \in Nat /\ p.resynced \in SUBSET Nat
  BY <1>1 DEF EndpointState
<1>3. PICK kept : kept = HistoryFrom(p.history, p.txSeq, seq)
  OBVIOUS
<1>4. Suffix(kept, p.history)
  BY <1>2, <1>3, KeptAreLast
<1>5. kept \in Seq(SessionPacket) /\ Len(kept) \in Nat /\ Len(kept) <= Len(p.history)
  BY <1>4 DEF Suffix
<1>6. SeqAfter(kept, seq) \in SFPseq
  BY <1>5, SeqType, Sizes, seq + Len(kept) \in Int DEF SeqAfter, SFPseq
<1>7. PICK shifted : shifted = IF InHistory(p.history, p.txSeq, seq)
                               THEN p.resynced ELSE p.resynced \cup {p.session}
  OBVIOUS
<1>8. shifted \in SUBSET Nat /\ \A s \in shifted : s <= p.session
  BY <1>1, <1>2, <1>7
<1>9. PICK p2 : p2 = [p EXCEPT !.history = kept, !.txSeq = SeqAfter(kept, seq),
                               !.resynced = shifted]
  OBVIOUS
<1>10. Rewound(p, seq) = p2
  BY <1>3, <1>7, <1>9 DEF Rewound
<1>11. /\ p2 \in EndpointState
       /\ p2.state = p.state /\ p2.rxSeq = p.rxSeq /\ p2.session = p.session
       /\ p2.place = p.place /\ p2.delivered = p.delivered
       /\ p2.history = kept /\ p2.txSeq = SeqAfter(kept, seq)
       /\ p2.resynced = shifted
  BY <1>1, <1>5, <1>6, <1>8, <1>9 DEF EndpointState
<1>12. Len(kept) <= HISTORY_CAPACITY
  <2>1. Len(p.history) \in Nat
    BY <1>2
  <2>. QED
    BY <1>1, <1>5, <2>1, Sizes
<1>13. Sound(p2)
  BY <1>8, <1>11, <1>12 DEF Sound
<1>14. Resent(p, seq) = Retransmission(kept, seq)
  BY <1>3 DEF Resent
<1>15. /\ Resent(p, seq) \in Seq(LinkFrame)
       /\ Len(Resent(p, seq)) = Len(kept)
       /\ \A i \in 1 .. Len(kept) :
            /\ Resent(p, seq)[i].type = "RTX"
            /\ Resent(p, seq)[i].packet = kept[i]
            /\ Resent(p, seq)[i].seq = (seq + (i - 1)) % SEQ_RANGE
  BY <1>5, <1>14, ResentIs
<1>. QED
  BY <1>3, <1>4, <1>7, <1>10, <1>11, <1>13, <1>15

\* The number of the oldest packet that is kept, when the one that was asked
\* for is there.
LEMMA FirstKept ==
    ASSUME NEW packets \in Seq(SessionPacket), NEW w \in Nat, Len(packets) <= w,
           NEW tx, tx = w % SEQ_RANGE,
           NEW seq \in SFPseq, InHistory(packets, tx, seq),
           NEW n \in Nat, n = Len(HistoryFrom(packets, tx, seq))
    PROVE  n # 0 /\ n <= w /\ (w - n) % SEQ_RANGE = seq
<1>0. tx = w % SEQ_RANGE
  OBVIOUS
<1>1. /\ tx \in SFPseq /\ tx \in Int /\ Len(packets) \in Nat
      /\ seq \in Int /\ seq \in 0 .. SEQ_RANGE - 1
  <2>1. w \in Int
    OBVIOUS
  <2>2. tx \in SFPseq
    BY <1>0, <2>1, SeqType
  <2>. QED
    BY <2>2, Sizes DEF SFPseq
<1>2. PICK f \in Nat : f = fastforward(packets, tx, seq)
  BY <1>1, KeptAreLast
<1>3. n = Len(packets) - f
  <2>1. InHistory(packets, tx, seq) /\ n = Len(HistoryFrom(packets, tx, seq))
    BY <1>0
  <2>2. Len(HistoryFrom(packets, tx, seq))
            = Len(packets) - fastforward(packets, tx, seq)
    BY <1>1, <2>1, KeptAreLast
  <2>. QED
    BY <1>2, <2>1, <2>2
<1>4. f = (seq - (tx - Len(packets))) % SEQ_RANGE
  BY <1>2 DEF fastforward
<1>5. PICK m \in Int : w = m * SEQ_RANGE + tx
  <2>1. w \in Int
    OBVIOUS
  <2>. QED
    BY <1>0, <2>1, Sizes, ModSplit
<1>6. PICK k \in Int : seq - (tx - Len(packets)) = k * SEQ_RANGE + f
  BY <1>1, <1>4, Sizes, seq - (tx - Len(packets)) \in Int, ModSplit
<1>7. w - n = seq + (m - k) * SEQ_RANGE
  <2>1. PICK a \in Int, b \in Int : a = m * SEQ_RANGE /\ b = k * SEQ_RANGE
    BY Sizes
  <2>2. (m - k) * SEQ_RANGE = a - b
    BY ONLY <2>1, Sizes, m \in Int, k \in Int
  <2>3. w = a + tx /\ seq - (tx - Len(packets)) = b + f
    BY ONLY <1>5, <1>6, <2>1
  <2>4. PICK kept : kept = Len(packets)
    OBVIOUS
  <2>5. kept \in Int /\ n = kept - f /\ seq - (tx - kept) = b + f
    BY ONLY <1>1, <1>3, <2>3, <2>4
  <2>6. w - n = seq + (a - b)
    <3>1. a \in Int /\ b \in Int /\ f \in Int /\ w \in Int /\ n \in Int
      BY ONLY <2>1, w \in Nat, n \in Nat, f \in Nat
    <3>. QED
      BY ONLY <1>1, <2>3, <2>5, <3>1
  <2>. QED
    BY ONLY <2>2, <2>6
<1>8. (seq + (m - k) * SEQ_RANGE) % SEQ_RANGE = seq % SEQ_RANGE
  BY <1>1, Sizes, m - k \in Int, ModShift
<1>9. seq % SEQ_RANGE = seq
  <2>1. (0 * SEQ_RANGE + seq) % SEQ_RANGE = seq
    BY <1>1, Sizes, 0 \in Int, ModUnique
  <2>. QED
    BY <1>1, <2>1, Sizes
<1>10. n <= w
  BY <1>1, <1>3
<1>11. n # 0
  <2>1. Len(packets) > f
    BY <1>0, <1>2 DEF InHistory
  <2>. QED
    BY <1>1, <1>3, <2>1
<1>. QED
  BY <1>7, <1>8, <1>9, <1>10, <1>11

\* Sending again: with the numbers the packets had, unless the transmitter
\* resynchronises.
LEMMA StreamRewinds ==
    ASSUME NEW p, NEW q \in EndpointState, NEW frames \in Seq(LinkFrame),
           Streams(p, q, frames), Sound(p), p.state = "CONNECTED",
           NEW seq \in SFPseq
    PROVE  Streams(Rewound(p, seq), q, frames \o Resent(p, seq))
<1>. DEFINE s == p.session
<1>1. /\ s \in Nat \ {0}
      /\ \A i \in 1 .. Len(p.history) : OfStream(p.history[i], s)
      /\ \A i \in 1 .. Len(frames) :
              Carries(frames[i]) => OfStream(frames[i].packet, s)
      /\ \A i \in 1 .. Len(q.delivered) : q.delivered[i].session <= s
      /\ \/ s \in p.resynced
         \/ \E w, d \in Nat : \E c \in Counting :
                 Counted(p, q, frames, s, w, d, c)
  BY DEF Streams
<1>2. /\ p.history \in Seq(SessionPacket) /\ p.txSeq \in SFPseq
      /\ Len(p.history) <= HISTORY_CAPACITY
  BY DEF Sound, EndpointState
<1>3. PICK p2, kept, sent, after :
         /\ p2 = Rewound(p, seq) /\ kept = HistoryFrom(p.history, p.txSeq, seq)
         /\ sent = Resent(p, seq) /\ after = frames \o sent
  OBVIOUS
<1>4. /\ Sound(p2) /\ p2.state = p.state /\ p2.session = p.session
      /\ p2.place = p.place /\ p2.history = kept
      /\ p2.txSeq = SeqAfter(kept, seq)
      /\ p2.resynced = IF InHistory(p.history, p.txSeq, seq) THEN p.resynced
                       ELSE p.resynced \cup {p.session}
      /\ Suffix(kept, p.history)
      /\ sent \in Seq(LinkFrame) /\ Len(sent) = Len(kept)
      /\ \A i \in 1 .. Len(sent) :
            /\ sent[i].type = "RTX"
            /\ sent[i].packet = kept[i]
            /\ sent[i].seq = (seq + (i - 1)) % SEQ_RANGE
  BY <1>3, RewoundIs
<1>5. /\ kept \in Seq(SessionPacket)
      /\ Len(kept) \in Nat /\ Len(kept) <= Len(p.history)
      /\ \A i \in 1 .. Len(kept) :
            /\ Len(p.history) - Len(kept) + i \in 1 .. Len(p.history)
            /\ kept[i] = p.history[Len(p.history) - Len(kept) + i]
  BY <1>4 DEF Suffix
<1>6. /\ Len(after) = Len(frames) + Len(sent)
      /\ Len(frames) \in Nat /\ Len(sent) \in Nat
      /\ \A i \in 1 .. Len(after) :
            after[i] = IF i <= Len(frames) THEN frames[i]
                                           ELSE sent[i - Len(frames)]
  <2>1. sent \in Seq(LinkFrame) /\ after = frames \o sent
    BY <1>3, <1>4
  <2>. QED
    BY <2>1, ConcatProperties
<1>7. \A i \in 1 .. Len(kept) : OfStream(kept[i], s)
  BY <1>1, <1>5
<1>8. ASSUME NEW i \in 1 .. Len(after), ~(i <= Len(frames))
      PROVE  i - Len(frames) \in 1 .. Len(sent) /\ after[i] = sent[i - Len(frames)]
  BY <1>6, <1>8
<1>9. ASSUME NEW i \in 1 .. Len(after), Carries(after[i])
      PROVE  OfStream(after[i].packet, s)
  <2>1. CASE i <= Len(frames)
    <3>1. i \in 1 .. Len(frames) /\ after[i] = frames[i]
      BY <1>6, <2>1
    <3>. QED
      BY <1>1, <1>9, <3>1
  <2>2. CASE ~(i <= Len(frames))
    <3>1. i - Len(frames) \in 1 .. Len(sent) /\ after[i] = sent[i - Len(frames)]
      BY <1>8, <2>2
    <3>. QED
      BY <1>4, <1>7, <3>1
  <2>. QED
    BY <2>1, <2>2
<1>10. ASSUME s \notin p2.resynced
       PROVE  \E w, d \in Nat : \E c \in Counting :
                 Counted(p2, q, after, s, w, d, c)
  <2>1. s \notin p.resynced /\ InHistory(p.history, p.txSeq, seq)
    BY <1>4, <1>10
  <2>2. PICK w \in Nat, d \in Nat, c \in Counting :
           Counted(p, q, frames, s, w, d, c)
    BY <1>1, <2>1
  <2>3. /\ d <= w /\ w - d < SEQ_RANGE
        /\ q.rxSeq = d % SEQ_RANGE
        /\ PlaceAfter(q.delivered, s) = c[d]
        /\ p.txSeq = w % SEQ_RANGE
        /\ p.place = c[w]
        /\ LastOf(p.history, c, s, w)
        /\ Has(frames, {"SYN0"}) => d = 0
    BY <2>2 DEF Counted
  <2>4. PICK number \in [1 .. Len(frames) -> Nat] :
           OnTime(frames, number, c, s, w, d)
    BY <2>2 DEF Counted
  <2>5. PICK n \in Nat : n = Len(kept)
    BY <1>5
  <2>6. n # 0 /\ n <= w /\ (w - n) % SEQ_RANGE = seq
    <3>1. PICK past, tx : past = p.history /\ tx = p.txSeq
      OBVIOUS
    <3>2. past \in Seq(SessionPacket) /\ Len(past) <= w
      <4>1. Len(p.history) <= w
        BY <2>3 DEF LastOf
      <4>. QED
        BY <1>2, <3>1, <4>1
    <3>3. InHistory(past, tx, seq)
      BY <2>1, <3>1
    <3>4. n = Len(HistoryFrom(past, tx, seq))
      BY <1>3, <2>5, <3>1
    <3>5. tx = w % SEQ_RANGE
      BY <2>3, <3>1
    <3>. QED
      BY ONLY <3>2, <3>3, <3>4, <3>5, FirstKept,
              w \in Nat, n \in Nat, seq \in SFPseq
  <2>7. \A i \in 1 .. n : kept[i] = PacketAt(c, s, w - n + (i - 1))
    <3>1. ASSUME NEW i \in 1 .. n
          PROVE  kept[i] = PacketAt(c, s, w - n + (i - 1))
      <4>1. PICK m \in Nat : m = Len(p.history)
        BY <1>2
      <4>2. m - n + i \in 1 .. m /\ kept[i] = p.history[m - n + i]
        BY <1>5, <2>5, <4>1
      <4>3. p.history[m - n + i] = PacketAt(c, s, w - m + ((m - n + i) - 1))
        <5>1. \A j \in 1 .. m : p.history[j] = PacketAt(c, s, w - m + (j - 1))
          BY <2>3, <4>1 DEF LastOf
        <5>2. PICK j : j = m - n + i
          OBVIOUS
        <5>3. p.history[j] = PacketAt(c, s, w - m + (j - 1))
          BY <4>2, <5>1, <5>2
        <5>. QED
          BY <5>2, <5>3
      <4>4. w - m + ((m - n + i) - 1) = w - n + (i - 1)
        <5>1. i \in Int /\ w \in Int /\ m \in Int /\ n \in Int
          OBVIOUS
        <5>. QED
          BY <5>1
      <4>. QED
        BY <4>2, <4>3, <4>4
    <3>. QED
      BY <3>1
  <2>8. LastOf(kept, c, s, w)
    BY <2>5, <2>6, <2>7 DEF LastOf
  <2>9. p2.txSeq = w % SEQ_RANGE
    <3>1. (((w - n) % SEQ_RANGE) + n) % SEQ_RANGE = ((w - n) + n) % SEQ_RANGE
      BY Sizes, w - n \in Int, n \in Int, ModAdd
    <3>2. (w - n) + n = w
      OBVIOUS
    <3>. QED
      BY <1>4, <2>5, <2>6, <3>1, <3>2 DEF SeqAfter
  <2>. DEFINE number2 == [i \in 1 .. Len(after) |->
                             IF i <= Len(frames) THEN number[i]
                             ELSE w - n + ((i - Len(frames)) - 1)]
  <2>10. /\ number2 \in [1 .. Len(after) -> Nat]
         /\ \A i \in 1 .. Len(after) :
               /\ number2[i] \in Nat
               /\ i <= Len(frames) => number2[i] = number[i]
               /\ ~(i <= Len(frames)) =>
                     number2[i] = w - n + ((i - Len(frames)) - 1)
    <3>1. ASSUME NEW i \in 1 .. Len(after)
          PROVE  (IF i <= Len(frames) THEN number[i]
                  ELSE w - n + ((i - Len(frames)) - 1)) \in Nat
      <4>1. CASE i <= Len(frames)
        <5>1. i \in 1 .. Len(frames)
          BY <1>6, <4>1
        <5>2. number[i] \in Nat
          BY <5>1
        <5>. QED
          BY <4>1, <5>2
      <4>2. CASE ~(i <= Len(frames))
        BY <1>6, <2>6, <4>2
      <4>. QED
        BY <4>1, <4>2
    <3>2. number2 \in [1 .. Len(after) -> Nat]
      BY <3>1
    <3>. QED
      BY <3>1, <3>2
  <2>. HIDE DEF number2
  <2>11. ASSUME NEW i \in 1 .. Len(after), ~(i <= Len(frames))
         PROVE  /\ after[i].seq = number2[i] % SEQ_RANGE
                /\ after[i].packet = PacketAt(c, s, number2[i])
                /\ number2[i] < w
                /\ w <= number2[i] + HISTORY_CAPACITY
    <3>1. PICK j : j = i - Len(frames)
      OBVIOUS
    <3>2. j \in 1 .. n /\ after[i] = sent[j] /\ number2[i] = w - n + (j - 1)
      <4>1. j \in 1 .. Len(sent) /\ after[i] = sent[j]
        BY <1>8, <2>11, <3>1
      <4>2. number2[i] = w - n + (j - 1)
        BY <2>10, <2>11, <3>1
      <4>3. Len(sent) = n
        BY <1>4, <2>5
      <4>. QED
        BY <4>1, <4>2, <4>3
    <3>3. after[i].packet = PacketAt(c, s, number2[i])
      BY <1>4, <2>5, <2>7, <3>2
    <3>4. after[i].seq = number2[i] % SEQ_RANGE
      <4>1. after[i].seq = (seq + (j - 1)) % SEQ_RANGE
        BY <1>4, <2>5, <3>2
      <4>2. (((w - n) % SEQ_RANGE) + (j - 1)) % SEQ_RANGE
               = ((w - n) + (j - 1)) % SEQ_RANGE
        <5>1. w - n \in Int /\ j - 1 \in Int /\ SEQ_RANGE \in Nat \ {0}
          BY <3>2, Sizes
        <5>. QED
          BY <5>1, ModAdd
      <4>. QED
        BY <2>6, <3>2, <4>1, <4>2
    <3>5. n <= HISTORY_CAPACITY
      <4>1. Len(p.history) \in Nat
        BY <1>2
      <4>. QED
        BY <1>2, <1>5, <2>5, <4>1, Sizes
    <3>6. number2[i] < w /\ w <= number2[i] + HISTORY_CAPACITY
      BY <2>6, <3>2, <3>5, Sizes
    <3>. QED
      BY <3>3, <3>4, <3>6
  <2>12. ASSUME NEW i \in 1 .. Len(after), i <= Len(frames), Carries(after[i])
         PROVE  /\ i \in 1 .. Len(frames) /\ Carries(frames[i])
                /\ number2[i] = number[i] /\ after[i] = frames[i]
                /\ number2[i] < w
    <3>1. i \in 1 .. Len(frames) /\ after[i] = frames[i] /\ number2[i] = number[i]
      BY <1>6, <2>10, <2>12
    <3>. QED
      BY <2>4, <2>12, <3>1 DEF OnTime
  <2>13. OnTime(after, number2, c, s, w, d)
    <3>1. ASSUME NEW i \in 1 .. Len(after), Carries(after[i])
          PROVE  /\ after[i].seq = number2[i] % SEQ_RANGE
                 /\ after[i].packet = PacketAt(c, s, number2[i])
                 /\ number2[i] < w
                 /\ d <= number2[i] + HISTORY_CAPACITY
      <4>1. CASE i <= Len(frames)
        BY <2>4, <2>12, <3>1, <4>1 DEF OnTime
      <4>2. CASE ~(i <= Len(frames))
        <5>1. d <= number2[i] + HISTORY_CAPACITY
          BY <2>3, <2>10, <2>11, <4>2, Sizes
        <5>. QED
          BY <2>11, <4>2, <5>1
      <4>. QED
        BY <4>1, <4>2
    <3>2. ASSUME NEW i \in 1 .. Len(after), NEW j \in 1 .. Len(after),
                 i < j, Carries(after[i]), Carries(after[j])
          PROVE  number2[i] < number2[j] + HISTORY_CAPACITY
      <4>1. CASE j <= Len(frames)
        <5>1. i <= Len(frames)
          BY <1>6, <3>2, <4>1
        <5>. QED
          BY <2>4, <2>12, <3>2, <4>1, <5>1 DEF OnTime
      <4>2. CASE ~(j <= Len(frames))
        <5>1. number2[i] < w
          BY <2>11, <2>12, <3>2
        <5>2. w <= number2[j] + HISTORY_CAPACITY
          BY <2>11, <4>2
        <5>3. number2[i] \in Nat /\ number2[j] \in Nat
          BY <2>10
        <5>. QED
          BY <5>1, <5>2, <5>3, Sizes
      <4>. QED
        BY <4>1, <4>2
    <3>. QED
      BY <3>1, <3>2 DEF OnTime
  <2>14. Has(after, {"SYN0"}) => Has(frames, {"SYN0"})
    <3>1. ASSUME NEW i \in 1 .. Len(after), after[i].type \in {"SYN0"}
          PROVE  Has(frames, {"SYN0"})
      <4>1. i <= Len(frames)
        BY <1>4, <1>8, <3>1
      <4>2. i \in 1 .. Len(frames) /\ after[i] = frames[i]
        BY <1>6, <4>1
      <4>. QED
        BY <3>1, <4>2 DEF Has
    <3>. QED
      BY <3>1 DEF Has
  <2>15. Counted(p2, q, after, s, w, d, c)
    BY <1>4, <2>3, <2>8, <2>9, <2>10, <2>13, <2>14 DEF Counted
  <2>. QED
    BY <2>15
<1>11. s <= p2.session
  BY <1>1, <1>4
<1>12. Streams(p2, q, after)
  BY <1>1, <1>4, <1>7, <1>9, <1>10, <1>11 DEF Streams
<1>. QED
  BY <1>3, <1>12

-----------------------------------------------------------------------------
(* Accepting.                                                              *)

\* The packets q was given by p are in order.
InOrderSoFar(q, p) ==
    \A i \in 1 .. Len(q.delivered) :
        /\ q.delivered[i].session <= p.session
        /\ i > 1 => q.delivered[i - 1].session <= q.delivered[i].session
        /\ q.delivered[i].session \in p.resynced \/ ComesNext(q.delivered, i)

\* After the packets there is one more.
OneMore(after, packets, packet) ==
    /\ after \in Seq(SessionPacket)
    /\ Len(after) = Len(packets) + 1 /\ Len(packets) \in Nat
    /\ \A i \in 1 .. Len(packets) :
          /\ after[i] = packets[i]
          /\ ComesNext(after, i) <=> ComesNext(packets, i)
    /\ after[Len(packets) + 1] = packet
    /\ PlaceAfter(after, packet.session) = packet.place + 1
    /\ packet.place = PlaceAfter(packets, packet.session) =>
          ComesNext(after, Len(packets) + 1)

\* One more packet.
LEMMA InOrderLonger ==
    ASSUME NEW packets \in Seq(SessionPacket), NEW packet \in SessionPacket
    PROVE  OneMore(Append(packets, packet), packets, packet)
<1>0. PICK after : after = Append(packets, packet)
  OBVIOUS
<1>1. /\ after \in Seq(SessionPacket)
      /\ Len(after) = Len(packets) + 1 /\ Len(packets) \in Nat
      /\ \A i \in 1 .. Len(packets) : after[i] = packets[i]
      /\ after[Len(packets) + 1] = packet
  BY <1>0, AppendProperties
<1>2. ASSUME NEW i \in 1 .. Len(packets)
      PROVE  ComesNext(after, i) <=> ComesNext(packets, i)
  <2>1. after[i] = packets[i]
    BY <1>1
  <2>2. i > 1 => after[i - 1] = packets[i - 1]
    <3>1. i > 1 => i - 1 \in 1 .. Len(packets)
      BY <1>1
    <3>. QED
      BY <1>1, <3>1
  <2>. QED
    BY <2>1, <2>2 DEF ComesNext
<1>3. PlaceAfter(after, packet.session) = packet.place + 1
  <2>1. after # <<>> /\ after[Len(after)] = packet
    BY <1>1
  <2>. QED
    BY <2>1 DEF PlaceAfter
<1>4. ASSUME packet.place = PlaceAfter(packets, packet.session)
      PROVE  ComesNext(after, Len(packets) + 1)
  <2>1. PICK n \in Nat : n = Len(packets)
    BY <1>1
  <2>2. after[n + 1] = packet
    BY <1>1, <2>1
  <2>3. CASE packets = <<>>
    <3>1. n = 0 /\ ~(n + 1 > 1)
      BY <2>1, <2>3
    <3>2. packet.place = 0
      BY <1>4, <2>3 DEF PlaceAfter
    <3>. QED
      BY <2>1, <2>2, <3>1, <3>2 DEF ComesNext
  <2>4. CASE packets # <<>>
    <3>1. n \in 1 .. Len(packets) /\ n + 1 > 1 /\ (n + 1) - 1 = n
      BY <2>1, <2>4
    <3>2. after[(n + 1) - 1] = packets[n]
      BY <1>1, <3>1
    <3>3. packet.place = IF packets[n].session = packet.session
                         THEN packets[n].place + 1 ELSE 0
      BY <1>4, <2>1, <2>4 DEF PlaceAfter
    <3>4. ComesNext(after, n + 1)
      BY <1>4, <2>2, <3>1, <3>2, <3>3 DEF ComesNext
    <3>. QED
      BY <2>1, <3>4
  <2>. QED
    BY <2>3, <2>4
<1>. QED
  BY <1>0, <1>1, <1>2, <1>3, <1>4 DEF OneMore

\* Accepting the number that is expected: no other packet on its way has it,
\* unless the transmitter has resynchronised.
LEMMA StreamAccepts ==
    ASSUME NEW p \in EndpointState, NEW q \in EndpointState,
           NEW q2 \in EndpointState, NEW frames \in Seq(LinkFrame),
           Streams(p, q, frames), InOrderSoFar(q, p),
           frames # <<>>, Carries(Head(frames)), Head(frames).seq = q.rxSeq,
           ~Has(frames, {"SYN0"}),
           q2.rxSeq = nextSeq(q.rxSeq),
           q2.delivered = IF Head(frames).packet = PingPacket THEN q.delivered
                          ELSE Append(q.delivered, Head(frames).packet)
    PROVE  /\ Streams(p, q2, Tail(frames))
           /\ InOrderSoFar(q2, p)
           /\ Head(frames).packet # PingPacket =>
                 Head(frames).packet.session <= p.session
<1>1. PICK s \in Nat \ {0} :
        /\ s <= p.session
        /\ p.state = "CONNECTED" =>
              /\ s = p.session
              /\ \A i \in 1 .. Len(p.history) : OfStream(p.history[i], s)
        /\ \A i \in 1 .. Len(frames) :
              Carries(frames[i]) => OfStream(frames[i].packet, s)
        /\ \A i \in 1 .. Len(q.delivered) : q.delivered[i].session <= s
        /\ \/ s \in p.resynced
           \/ \E w, d \in Nat : \E c \in Counting :
                 Counted(p, q, frames, s, w, d, c)
  BY DEF Streams
<1>2. PICK rest, frame : rest = Tail(frames) /\ frame = Head(frames)
  OBVIOUS
<1>3. /\ Len(rest) = Len(frames) - 1 /\ Len(frames) \in Nat
      /\ \A i \in 1 .. Len(rest) :
            rest[i] = frames[i + 1] /\ i + 1 \in 1 .. Len(frames)
      /\ rest \in Seq(LinkFrame)
      /\ frame = frames[1] /\ 1 \in 1 .. Len(frames) /\ frame \in LinkFrame
      /\ Carries(frame) /\ frame.seq = q.rxSeq
  BY <1>2, HeadTailProperties
<1>4. frame.packet \in SessionPacket /\ OfStream(frame.packet, s)
  BY <1>1, <1>3, UserFields
<1>5. q.delivered \in Seq(SessionPacket) /\ p.session \in Nat
  BY DEF EndpointState
<1>6. /\ PingPacket.session = 0
      /\ frame.packet # PingPacket => frame.packet.session = s
  BY <1>4 DEF PingPacket, OfStream
<1>7. \A i \in 1 .. Len(rest) : Carries(rest[i]) => OfStream(rest[i].packet, s)
  BY <1>1, <1>3
<1>8. ASSUME frame.packet # PingPacket
      PROVE  \A i \in 1 .. Len(q2.delivered) : q2.delivered[i].session <= s
  <2>1. OneMore(q2.delivered, q.delivered, frame.packet)
    BY <1>2, <1>4, <1>5, <1>8, InOrderLonger
  <2>2. ASSUME NEW i \in 1 .. Len(q2.delivered)
        PROVE  q2.delivered[i].session <= s
    <3>1. CASE i \in 1 .. Len(q.delivered)
      BY <1>1, <2>1, <3>1 DEF OneMore
    <3>2. CASE i = Len(q.delivered) + 1
      BY <1>6, <1>8, <2>1, <3>2 DEF OneMore
    <3>. QED
      BY <2>1, <3>1, <3>2 DEF OneMore
  <2>. QED
    BY <2>2
<1>9. \A i \in 1 .. Len(q2.delivered) : q2.delivered[i].session <= s
  BY <1>1, <1>2, <1>8
<1>10. ASSUME NEW w \in Nat, NEW d \in Nat, NEW c \in Counting,
              Counted(p, q, frames, s, w, d, c)
       PROVE  /\ Counted(p, q2, rest, s, w, d + 1, c)
              /\ frame.packet # PingPacket =>
                    frame.packet.place = PlaceAfter(q.delivered, s)
  <2>1. /\ d <= w /\ w - d < SEQ_RANGE
        /\ q.rxSeq = d % SEQ_RANGE
        /\ PlaceAfter(q.delivered, s) = c[d]
        /\ p.state = "CONNECTED" =>
              /\ p.txSeq = w % SEQ_RANGE
              /\ p.place = c[w]
              /\ LastOf(p.history, c, s, w)
    BY <1>10 DEF Counted
  <2>2. PICK number \in [1 .. Len(frames) -> Nat] :
           OnTime(frames, number, c, s, w, d)
    BY <1>10 DEF Counted
  <2>3. /\ number[1] \in Nat
        /\ frame.seq = number[1] % SEQ_RANGE
        /\ frame.packet = PacketAt(c, s, number[1])
        /\ number[1] < w
        /\ d <= number[1] + HISTORY_CAPACITY
    BY <1>3, <2>2 DEF OnTime
  <2>4. number[1] = d
    <3>1. PICK k \in Nat : k = number[1]
      BY <2>3
    <3>2. k % SEQ_RANGE = d % SEQ_RANGE /\ k < w /\ d <= k + HISTORY_CAPACITY
      BY <1>3, <2>1, <2>3, <3>1
    <3>3. k - d < SEQ_RANGE /\ d - k < SEQ_RANGE
      BY <2>1, <3>2, Sizes
    <3>4. k = d
      <4>1. k \in Int /\ d \in Int /\ SEQ_RANGE \in Nat \ {0}
        BY Sizes
      <4>. QED
        BY <3>2, <3>3, <4>1, ModClose
    <3>. QED
      BY <3>1, <3>4
  <2>5. frame.packet = PacketAt(c, s, d) /\ d < w
    BY <2>3, <2>4
  <2>6. /\ c[d] \in Nat /\ c[d + 1] \in {c[d], c[d] + 1}
    BY CountingIs
  <2>7. /\ frame.packet # PingPacket => frame.packet.place = c[d]
        /\ PlaceAfter(q2.delivered, s) = c[d + 1]
    <3>1. CASE frame.packet = PingPacket
      <4>1. c[d + 1] = c[d]
        <5>1. ASSUME c[d + 1] # c[d]
              PROVE  FALSE
          <6>1. frame.packet = [session |-> s, place |-> c[d]]
            BY <2>5, <5>1 DEF PacketAt
          <6>2. frame.packet.session = s /\ s # 0
            BY <6>1
          <6>. QED
            BY <1>6, <3>1, <6>2
        <5>. QED
          BY <5>1
      <4>2. q2.delivered = q.delivered
        BY <1>2, <3>1
      <4>. QED
        BY <2>1, <3>1, <4>1, <4>2
    <3>2. CASE frame.packet # PingPacket
      <4>1. c[d + 1] # c[d] /\ frame.packet = [session |-> s, place |-> c[d]]
        BY <2>5, <3>2 DEF PacketAt
      <4>2. frame.packet.place = c[d] /\ frame.packet.session = s
        BY <4>1
      <4>3. OneMore(q2.delivered, q.delivered, frame.packet)
        BY <1>2, <1>4, <1>5, <3>2, InOrderLonger
      <4>4. PlaceAfter(q2.delivered, s) = frame.packet.place + 1
        BY <4>2, <4>3 DEF OneMore
      <4>. QED
        BY <2>6, <4>1, <4>2, <4>4
    <3>. QED
      BY <3>1, <3>2
  <2>8. q2.rxSeq = (d + 1) % SEQ_RANGE
    BY <2>1, NextSeqIs
  <2>. DEFINE number2 == [i \in 1 .. Len(rest) |-> number[i + 1]]
  <2>9. /\ number2 \in [1 .. Len(rest) -> Nat]
        /\ \A i \in 1 .. Len(rest) : number2[i] = number[i + 1]
    BY <1>3
  <2>. HIDE DEF number2
  <2>10. OnTime(rest, number2, c, s, w, d + 1)
    <3>1. ASSUME NEW i \in 1 .. Len(rest), Carries(rest[i])
          PROVE  /\ rest[i].seq = number2[i] % SEQ_RANGE
                 /\ rest[i].packet = PacketAt(c, s, number2[i])
                 /\ number2[i] < w
                 /\ d + 1 <= number2[i] + HISTORY_CAPACITY
      <4>1. /\ i + 1 \in 1 .. Len(frames) /\ 1 < i + 1
            /\ Carries(frames[i + 1]) /\ Carries(frames[1])
            /\ rest[i] = frames[i + 1] /\ number2[i] = number[i + 1]
        BY <1>3, <2>9, <3>1
      <4>2. number[1] < number[i + 1] + HISTORY_CAPACITY
        BY <1>3, <2>2, <4>1 DEF OnTime
      <4>3. number[i + 1] \in Nat
        BY <4>1
      <4>4. d + 1 <= number[i + 1] + HISTORY_CAPACITY
        BY <2>4, <4>2, <4>3, Sizes
      <4>. QED
        BY <2>2, <4>1, <4>4 DEF OnTime
    <3>2. ASSUME NEW i \in 1 .. Len(rest), NEW j \in 1 .. Len(rest),
                 i < j, Carries(rest[i]), Carries(rest[j])
          PROVE  number2[i] < number2[j] + HISTORY_CAPACITY
      <4>1. /\ i + 1 \in 1 .. Len(frames) /\ j + 1 \in 1 .. Len(frames)
            /\ i + 1 < j + 1
            /\ Carries(frames[i + 1]) /\ Carries(frames[j + 1])
        BY <1>3, <3>2
      <4>2. number[i + 1] < number[j + 1] + HISTORY_CAPACITY
        BY <2>2, <4>1 DEF OnTime
      <4>. QED
        BY <2>9, <4>2
    <3>. QED
      BY <3>1, <3>2 DEF OnTime
  <2>11. ~Has(rest, {"SYN0"})
    BY <1>3 DEF Has
  <2>12. d + 1 <= w /\ w - (d + 1) < SEQ_RANGE
    BY <2>1, <2>5, Sizes
  <2>. QED
    BY <2>1, <2>7, <2>8, <2>9, <2>10, <2>11, <2>12 DEF Counted
<1>11. \/ s \in p.resynced
       \/ \E w, d \in Nat : \E c \in Counting :
             Counted(p, q2, rest, s, w, d, c)
  <2>1. ASSUME NEW w \in Nat, NEW d \in Nat, NEW c \in Counting,
               Counted(p, q, frames, s, w, d, c)
        PROVE  \E v, e \in Nat : \E k \in Counting :
                  Counted(p, q2, rest, s, v, e, k)
    <3>1. Counted(p, q2, rest, s, w, d + 1, c) /\ d + 1 \in Nat
      BY <1>10, <2>1
    <3>. QED
      BY <3>1
  <2>. QED
    BY <1>1, <2>1
<1>12. Streams(p, q2, rest)
  BY <1>1, <1>7, <1>9, <1>11 DEF Streams
<1>13. ASSUME frame.packet # PingPacket
       PROVE  InOrderSoFar(q2, p)
  <2>1. OneMore(q2.delivered, q.delivered, frame.packet)
    BY <1>2, <1>4, <1>5, <1>13, InOrderLonger
  <2>2. frame.packet.session = s
    BY <1>6, <1>13
  <2>3. PICK n \in Nat : n = Len(q.delivered)
    BY <1>5
  <2>4. /\ Len(q2.delivered) = n + 1
        /\ \A i \in 1 .. n : q2.delivered[i] = q.delivered[i]
        /\ q2.delivered[n + 1] = frame.packet
        /\ \A i \in 1 .. n : ComesNext(q2.delivered, i) <=> ComesNext(q.delivered, i)
        /\ frame.packet.place = PlaceAfter(q.delivered, s) =>
              ComesNext(q2.delivered, n + 1)
    BY <2>1, <2>2, <2>3 DEF OneMore
  <2>5. ASSUME NEW i \in 1 .. n
        PROVE  /\ q2.delivered[i].session <= p.session
               /\ i > 1 => q2.delivered[i - 1].session <= q2.delivered[i].session
               /\ q2.delivered[i].session \in p.resynced
                  \/ ComesNext(q2.delivered, i)
    <3>1. i > 1 => i - 1 \in 1 .. n
      OBVIOUS
    <3>. QED
      BY <2>3, <2>4, <3>1 DEF InOrderSoFar
  <2>6. /\ q2.delivered[n + 1].session <= p.session
        /\ n + 1 > 1 => q2.delivered[(n + 1) - 1].session
                           <= q2.delivered[n + 1].session
    <3>1. n + 1 > 1 => n \in 1 .. n /\ (n + 1) - 1 = n
      OBVIOUS
    <3>. QED
      BY <1>1, <2>2, <2>3, <2>4, <3>1
  <2>7. q2.delivered[n + 1].session \in p.resynced \/ ComesNext(q2.delivered, n + 1)
    BY <1>1, <1>10, <1>13, <2>2, <2>4
  <2>8. \A i \in 1 .. n + 1 : i \in 1 .. n \/ i = n + 1
    OBVIOUS
  <2>. QED
    BY <2>4, <2>5, <2>6, <2>7, <2>8 DEF InOrderSoFar
<1>14. InOrderSoFar(q2, p)
  BY <1>2, <1>13 DEF InOrderSoFar
<1>. QED
  BY <1>1, <1>2, <1>6, <1>12, <1>14

-----------------------------------------------------------------------------
(* A transmitter that goes on sending after a reset.                       *)

\* A packet of session u or a later one.
Late(frame, u) == Carries(frame) /\ frame.packet.session >= u

\* The line without those packets.
Masked(frames, u) ==
    [i \in 1 .. Len(frames) |->
        IF Late(frames[i], u) THEN SynFrame("DIS") ELSE frames[i]]

Apart(p) == [p EXCEPT !.state = "DISCONNECTED"]

\* The packets from session u on are of sessions with shifted numbers, and
\* behind those of earlier sessions.
LateInOrder(p, q, frames, u) ==
    \A i \in 1 .. Len(frames) :
        Late(frames[i], u) =>
            /\ frames[i].packet.session \in p.resynced
            /\ \A k \in 1 .. Len(q.delivered) :
                  q.delivered[k].session <= frames[i].packet.session
            /\ \A j \in 1 .. Len(frames) :
                  i < j /\ Carries(frames[j]) =>
                      frames[i].packet.session <= frames[j].packet.session

\* A transmitter whose own numbers have never been agreed on has sent packets
\* behind those of an earlier stream.
GoesOn(p, q, frames) ==
    /\ p.state = "CONNECTED" =>
          /\ p.session \in p.resynced
          /\ \A i \in 1 .. Len(p.history) : p.history[i].session = p.session
    /\ \E u \in Nat \ {0} :
          /\ u <= p.session
          /\ Streams(Apart(p), q, Masked(frames, u))
          /\ LateInOrder(p, q, frames, u)

Heard(p, q, frames) == Streams(p, q, frames) \/ GoesOn(p, q, frames)

-----------------------------------------------------------------------------
(* Host and robot, with the frames on their way to each.                   *)

\* The robot has nothing of a session that was before, nor has the host heard
\* anything of the session to come.
Fresh(h, r, toH) ==
    /\ r.state # "CONNECTED" /\ Unused(r, h)
    /\ h.rxSeq = 0 /\ ~Has(toH, UserTypes)

\* Each end sends only frames of its own part of a handshake, and the host has
\* not begun another behind the end of one.
WellFormed(h, r, toH, toR) ==
    /\ Sound(h) /\ h.state \in {"DISCONNECTED", "SENT_SYN0", "CONNECTED"}
    /\ Sound(r) /\ r.state \in {"DISCONNECTED", "SENT_SYN1", "CONNECTED"}
    /\ toH \in Seq(LinkFrame) /\ ~Has(toH, {"SYN0", "SYN2"})
    /\ toR \in Seq(LinkFrame) /\ ~Has(toR, {"SYN1"})
    /\ NoneBehind(toR, {"SYN0"}, {"SYN2"})

\* A host that has sent SYN0 has a new session, and everything it sent before
\* has arrived; when SYN1 comes the robot has a new session as well.
HostOpening(h, r, toH, toR) ==
    h.state = "SENT_SYN0" =>
        /\ Unused(h, r)
        /\ ~Has(toR, {"SYN2", "USR", "RTX"})
        /\ NoneBehind(toH, UserTypes, {"SYN1"})
        /\ Has(toH, {"SYN1"}) => r.state # "CONNECTED" /\ Unused(r, h)

\* As long as the robot is to start anew, or has just done so, it has sent
\* nothing.
RobotOpening(h, r, toH, toR) ==
    /\ r.state = "SENT_SYN1" => Unused(r, h)
    /\ h.state = "CONNECTED" /\ (Has(toR, {"SYN0"}) \/ r.state = "SENT_SYN1")
          => Fresh(h, r, toH)
    /\ Has(toR, {"SYN0"}) /\ (h.state = "CONNECTED" \/ Has(toR, UserTypes))
          => r.state # "CONNECTED"

\* What is on its way to a connected host is one stream, or what the robot has
\* sent since it was reset is behind one.
ToHost(h, r, toH) == h.state = "CONNECTED" => Heard(r, h, toH)

\* So is the robot, if it accepts packets or is about to; what a host has left
\* behind that is no longer connected included.
ToRobot(h, r, toR) ==
    /\ r.state \in {"SENT_SYN1", "CONNECTED"} \/ Has(toR, {"SYN0"})
    /\ h.state = "CONNECTED" \/ Has(toR, UserTypes)
    => Streams(h, r, toR)

\* All of this, and what has been delivered is in order.
Good(h, r, toH, toR) ==
    /\ WellFormed(h, r, toH, toR)
    /\ HostOpening(h, r, toH, toR)
    /\ RobotOpening(h, r, toH, toR)
    /\ ToHost(h, r, toH)
    /\ ToRobot(h, r, toR)
    /\ InOrderSoFar(h, r)
    /\ InOrderSoFar(r, h)

\* Frames that matter to the invariant; DIS, NAK and damaged ones do not.
Tracked == {"USR", "RTX", "SYN0", "SYN1", "SYN2"}

\* Endpoints have the fields of one.
LEMMA SoundFields ==
    ASSUME NEW p, Sound(p)
    PROVE  /\ p \in EndpointState
           /\ p.session \in Nat /\ p.resynced \in SUBSET Nat
           /\ p.txSeq \in SFPseq /\ p.rxSeq \in SFPseq /\ p.place \in Nat
           /\ p.history \in Seq(SessionPacket)
           /\ p.delivered \in Seq(SessionPacket)
           /\ \A i \in 1 .. Len(p.delivered) :
                 p.delivered[i].session \in Nat
<1>1. /\ p \in EndpointState
      /\ p.session \in Nat /\ p.resynced \in SUBSET Nat
      /\ p.txSeq \in SFPseq /\ p.rxSeq \in SFPseq /\ p.place \in Nat
      /\ p.history \in Seq(SessionPacket)
      /\ p.delivered \in Seq(SessionPacket)
  BY DEF Sound, EndpointState
<1>2. \A i \in 1 .. Len(p.delivered) : p.delivered[i] \in SessionPacket
  BY <1>1
<1>. QED
  BY <1>1, <1>2 DEF SessionPacket

\* What q was given stays in order when p goes on.
LEMMA InOrderKept ==
    ASSUME NEW p, NEW q, NEW p2, NEW q2, Sound(p), Sound(q), Sound(p2),
           InOrderSoFar(q, p), q2.delivered = q.delivered,
           p.session <= p2.session, p.resynced \subseteq p2.resynced
    PROVE  InOrderSoFar(q2, p2)
<1>1. p.session \in Nat /\ p2.session \in Nat
  BY SoundFields
<1>2. \A i \in 1 .. Len(q.delivered) : q.delivered[i].session \in Nat
  BY SoundFields
<1>. QED
  BY <1>1, <1>2 DEF InOrderSoFar

\* A stream survives what happens to its ends but writing, sending again and
\* accepting, and frames of other types on the line.
LEMMA StreamQuiet ==
    ASSUME NEW p, NEW q, NEW p2, NEW q2, Sound(p), Sound(q), Sound(p2), Sound(q2),
           NEW frames \in Seq(LinkFrame), NEW after \in Seq(LinkFrame),
           Streams(p, q, frames), Within(after, frames, StreamTypes),
           p.session <= p2.session, p.resynced \subseteq p2.resynced,
           p2.state = "CONNECTED" =>
              /\ p.state = "CONNECTED" /\ p2.session = p.session
              /\ p2.txSeq = p.txSeq /\ p2.place = p.place
              /\ p2.history = p.history,
           q2.delivered = q.delivered,
           \/ q2.rxSeq = q.rxSeq
           \/ Has(frames, {"SYN0"}) /\ q2.rxSeq = 0
    PROVE  Streams(p2, q2, after)
<1>1. /\ p \in EndpointState /\ q \in EndpointState
      /\ p2 \in EndpointState /\ q2 \in EndpointState
  BY DEF Sound
<1>. QED
  BY <1>1, StreamKept

\* What a new session makes of an endpoint.
LEMMA RestartedIs ==
    ASSUME NEW p, NEW q, NEW state \in SFPstate, NEW p2, Sound(p), Sound(q),
           InOrderSoFar(q, p), p2 = Restarted(p, state)
    PROVE  /\ Sound(p2) /\ p2.state = state
           /\ Unused(p2, q)
           /\ p2.delivered = p.delivered /\ p2.resynced = p.resynced
           /\ p2.session = p.session + 1
<1>1. /\ p \in EndpointState /\ p.session \in Nat
      /\ \A s \in p.resynced : s <= p.session /\ s \in Nat
  BY SoundFields DEF Sound
<1>2. /\ 0 \in SFPseq /\ SFP_INITIAL_SEQ = 0
      /\ <<>> \in Seq(SessionPacket) /\ Len(<<>>) = 0
      /\ p.session + 1 \in Nat
  BY <1>1, ZeroSeq
<1>3. /\ p2 \in EndpointState /\ p2.state = state
      /\ p2.txSeq = 0 /\ p2.rxSeq = 0 /\ p2.history = <<>> /\ p2.place = 0
      /\ p2.delivered = p.delivered /\ p2.resynced = p.resynced
      /\ p2.session = p.session + 1
  BY <1>1, <1>2 DEF Restarted, EndpointState
<1>4. p2.session \notin p2.resynced /\ \A s \in p2.resynced : s <= p2.session
  BY <1>1, <1>3
<1>5. \A i \in 1 .. Len(q.delivered) : q.delivered[i].session < p2.session
  <2>1. \A i \in 1 .. Len(q.delivered) : q.delivered[i].session \in Nat
    BY SoundFields
  <2>. QED
    BY <1>1, <1>3, <2>1 DEF InOrderSoFar
<1>6. Sound(p2)
  BY <1>2, <1>3, <1>4, Sizes DEF Sound
<1>. QED
  BY <1>1, <1>3, <1>4, <1>5, <1>6 DEF Unused

\* What is left of an endpoint that is disconnected.
LEMMA FallenIs ==
    ASSUME NEW p, Sound(p), NEW p2, p2 = [p EXCEPT !.state = "DISCONNECTED"]
    PROVE  /\ Sound(p2) /\ p2.state = "DISCONNECTED"
           /\ p2.txSeq = p.txSeq /\ p2.rxSeq = p.rxSeq
           /\ p2.history = p.history /\ p2.place = p.place
           /\ p2.session = p.session /\ p2.resynced = p.resynced
           /\ p2.delivered = p.delivered
           /\ p.session <= p2.session
<1>1. p \in EndpointState /\ p.session \in Nat
  BY SoundFields
<1>2. /\ p2 \in EndpointState /\ p2.state = "DISCONNECTED"
      /\ p2.txSeq = p.txSeq /\ p2.rxSeq = p.rxSeq
      /\ p2.history = p.history /\ p2.place = p.place
      /\ p2.session = p.session /\ p2.resynced = p.resynced
      /\ p2.delivered = p.delivered
  BY <1>1 DEF EndpointState, SFPstate
<1>. QED
  BY <1>1, <1>2 DEF Sound

\* A line without late packets.
LEMMA MaskedIs ==
    ASSUME NEW frames \in Seq(LinkFrame), NEW u
    PROVE  /\ Masked(frames, u) \in Seq(LinkFrame)
           /\ Len(Masked(frames, u)) = Len(frames)
           /\ \A i \in 1 .. Len(frames) :
                 /\ Late(frames[i], u) => Masked(frames, u)[i].type = "DIS"
                 /\ ~Late(frames[i], u) => Masked(frames, u)[i] = frames[i]
                 /\ Masked(frames, u)[i].type \in StreamTypes
                       => ~Late(frames[i], u)
<1>1. SynFrame("DIS") \in LinkFrame /\ SynFrame("DIS").type = "DIS"
  BY DEF SynFrame, LinkFrame
<1>2. \A i \in 1 .. Len(frames) : frames[i] \in LinkFrame
  OBVIOUS
<1>3. /\ Masked(frames, u) \in Seq(LinkFrame)
      /\ Len(Masked(frames, u)) = Len(frames)
  BY <1>1, <1>2 DEF Masked
<1>4. \A i \in 1 .. Len(frames) :
         Masked(frames, u)[i] = IF Late(frames[i], u) THEN SynFrame("DIS") ELSE frames[i]
  BY DEF Masked
<1>. QED
  BY <1>1, <1>3, <1>4 DEF StreamTypes

\* Lines stay alike without their late packets.
LEMMA MaskedWithin ==
    ASSUME NEW frames \in Seq(LinkFrame), NEW after \in Seq(LinkFrame), NEW u,
           Within(after, frames, StreamTypes)
    PROVE  Within(Masked(after, u), Masked(frames, u), StreamTypes)
<1>1. PICK from \in [1 .. Len(after) -> Int] :
         /\ \A i \in 1 .. Len(after) :
              after[i].type \in StreamTypes =>
                  from[i] \in 1 .. Len(frames) /\ after[i] = frames[from[i]]
         /\ \A i, j \in 1 .. Len(after) :
              i < j /\ after[i].type \in StreamTypes /\ after[j].type \in StreamTypes =>
                  from[i] < from[j]
  BY DEF Within
<1>2. PICK masked, before : masked = Masked(after, u) /\ before = Masked(frames, u)
  OBVIOUS
<1>3. /\ Len(masked) = Len(after) /\ Len(before) = Len(frames)
      /\ \A i \in 1 .. Len(after) :
            /\ ~Late(after[i], u) => masked[i] = after[i]
            /\ masked[i].type \in StreamTypes => ~Late(after[i], u)
      /\ \A i \in 1 .. Len(frames) : ~Late(frames[i], u) => before[i] = frames[i]
  BY <1>2, MaskedIs
<1>4. ASSUME NEW i \in 1 .. Len(masked), masked[i].type \in StreamTypes
      PROVE  /\ after[i].type \in StreamTypes /\ i \in 1 .. Len(after)
             /\ from[i] \in 1 .. Len(before) /\ masked[i] = before[from[i]]
  BY <1>1, <1>3, <1>4
<1>5. \A i, j \in 1 .. Len(masked) :
         i < j /\ masked[i].type \in StreamTypes /\ masked[j].type \in StreamTypes =>
             from[i] < from[j]
  BY <1>1, <1>4
<1>6. from \in [1 .. Len(masked) -> Int]
  BY <1>3
<1>. QED
  BY <1>2, <1>4, <1>5, <1>6 DEF Within

\* Nor does what is heard change with what happens to the ends but writing,
\* sending again and accepting, or with frames of other types.
LEMMA HeardQuiet ==
    ASSUME NEW p, NEW q, NEW p2, NEW q2, Sound(p), Sound(q), Sound(p2), Sound(q2),
           NEW frames \in Seq(LinkFrame), NEW after \in Seq(LinkFrame),
           Heard(p, q, frames), Within(after, frames, StreamTypes),
           p.session <= p2.session, p.resynced \subseteq p2.resynced,
           p2.state = "CONNECTED" =>
              /\ p.state = "CONNECTED" /\ p2.session = p.session
              /\ p2.txSeq = p.txSeq /\ p2.place = p.place
              /\ p2.history = p.history,
           q2.delivered = q.delivered, q2.rxSeq = q.rxSeq
    PROVE  Heard(p2, q2, after)
<1>1. CASE Streams(p, q, frames)
  BY <1>1, StreamQuiet DEF Heard
<1>2. CASE GoesOn(p, q, frames)
  <2>1. PICK u \in Nat \ {0} :
           /\ u <= p.session
           /\ Streams(Apart(p), q, Masked(frames, u))
           /\ LateInOrder(p, q, frames, u)
    BY <1>2 DEF GoesOn
  <2>2. PICK a, a2 : a = Apart(p) /\ a2 = Apart(p2)
    OBVIOUS
  <2>3. /\ Sound(a) /\ a.state = "DISCONNECTED"
        /\ a.session = p.session /\ a.resynced = p.resynced
        /\ Sound(a2) /\ a2.state = "DISCONNECTED"
        /\ a2.session = p2.session /\ a2.resynced = p2.resynced
    BY <2>2, FallenIs DEF Apart
  <2>4. PICK masked, masked2 : masked = Masked(frames, u) /\ masked2 = Masked(after, u)
    OBVIOUS
  <2>5. /\ masked \in Seq(LinkFrame) /\ masked2 \in Seq(LinkFrame)
        /\ Within(masked2, masked, StreamTypes)
    BY <2>4, MaskedIs, MaskedWithin
  <2>6. Streams(a2, q2, masked2)
    BY <2>1, <2>2, <2>3, <2>4, <2>5, StreamQuiet
  <2>7. u <= p2.session
    BY <2>1, SoundFields
  <2>8. LateInOrder(p2, q2, after, u)
    <3>1. PICK from \in [1 .. Len(after) -> Int] :
             /\ \A i \in 1 .. Len(after) :
                  after[i].type \in StreamTypes =>
                      from[i] \in 1 .. Len(frames) /\ after[i] = frames[from[i]]
             /\ \A i, j \in 1 .. Len(after) :
                  i < j /\ after[i].type \in StreamTypes /\ after[j].type \in StreamTypes =>
                      from[i] < from[j]
      BY DEF Within
    <3>2. ASSUME NEW i \in 1 .. Len(after), Carries(after[i])
          PROVE  /\ from[i] \in 1 .. Len(frames) /\ after[i] = frames[from[i]]
                 /\ after[i].type \in StreamTypes
      BY <3>1, <3>2 DEF Carries, StreamTypes
    <3>3. ASSUME NEW i \in 1 .. Len(after), Late(after[i], u)
          PROVE  /\ after[i].packet.session \in p2.resynced
                 /\ \A k \in 1 .. Len(q2.delivered) :
                       q2.delivered[k].session <= after[i].packet.session
                 /\ \A j \in 1 .. Len(after) :
                       i < j /\ Carries(after[j]) =>
                           after[i].packet.session <= after[j].packet.session
      <4>1. /\ from[i] \in 1 .. Len(frames) /\ after[i] = frames[from[i]]
            /\ after[i].type \in StreamTypes
        BY <3>2, <3>3 DEF Late
      <4>2. /\ after[i].packet.session \in p.resynced
            /\ \A k \in 1 .. Len(q.delivered) :
                  q.delivered[k].session <= after[i].packet.session
            /\ \A j \in 1 .. Len(frames) :
                  from[i] < j /\ Carries(frames[j]) =>
                      after[i].packet.session <= frames[j].packet.session
        BY <2>1, <3>3, <4>1 DEF LateInOrder
      <4>3. ASSUME NEW j \in 1 .. Len(after), i < j, Carries(after[j])
            PROVE  after[i].packet.session <= after[j].packet.session
        BY <3>1, <3>2, <4>1, <4>2, <4>3
      <4>. QED
        BY <4>2, <4>3
    <3>. QED
      BY <3>3 DEF LateInOrder
  <2>9. p2.state = "CONNECTED" =>
            /\ p2.session \in p2.resynced
            /\ \A i \in 1 .. Len(p2.history) : p2.history[i].session = p2.session
    BY <1>2 DEF GoesOn
  <2>10. GoesOn(p2, q2, after)
    BY <2>2, <2>4, <2>6, <2>7, <2>8, <2>9 DEF GoesOn
  <2>. QED
    BY <2>10 DEF Heard
<1>. QED
  BY <1>1, <1>2 DEF Heard

\* Frames of a session whose numbers were shifted, behind all the others.
LEMMA HeardLonger ==
    ASSUME NEW p, NEW q, NEW p2, Sound(p), Sound(q), Sound(p2),
           NEW frames \in Seq(LinkFrame), NEW sent \in Seq(LinkFrame),
           Heard(p, q, frames), InOrderSoFar(q, p), p.session \in p.resynced,
           \A i \in 1 .. Len(sent) :
              Carries(sent[i]) /\ sent[i].packet.session = p.session,
           p2.session = p.session, p.resynced \subseteq p2.resynced,
           p2.state = "CONNECTED" =>
              \A i \in 1 .. Len(p2.history) : p2.history[i].session = p2.session
    PROVE  Heard(p2, q, frames \o sent)
<1>. DEFINE n == p.session
<1>1. PICK after : after = frames \o sent
  OBVIOUS
<1>2. /\ after \in Seq(LinkFrame)
      /\ Len(after) = Len(frames) + Len(sent)
      /\ Len(frames) \in Nat /\ Len(sent) \in Nat
      /\ \A i \in 1 .. Len(after) :
            after[i] = IF i <= Len(frames) THEN frames[i]
                                           ELSE sent[i - Len(frames)]
  BY <1>1, ConcatProperties
<1>3. ASSUME NEW i \in 1 .. Len(after)
      PROVE  \/ i \in 1 .. Len(frames) /\ after[i] = frames[i]
             \/ ~(i <= Len(frames)) /\ Carries(after[i])
                    /\ after[i].packet.session = n
  <2>1. CASE i <= Len(frames)
    BY <1>2, <2>1
  <2>2. CASE ~(i <= Len(frames))
    <3>1. i - Len(frames) \in 1 .. Len(sent) /\ after[i] = sent[i - Len(frames)]
      BY <1>2, <2>2
    <3>. QED
      BY <2>2, <3>1
  <2>. QED
    BY <2>1, <2>2
<1>4. /\ n \in Nat /\ n \in p2.resynced /\ n \in p.resynced
      /\ \A s \in p.resynced : s <= n /\ s \in Nat
      /\ \A k \in 1 .. Len(q.delivered) :
            q.delivered[k].session <= n /\ q.delivered[k].session \in Nat
  BY SoundFields DEF Sound, InOrderSoFar
<1>5. \A i \in 1 .. Len(frames) : Carries(frames[i]) => frames[i].packet.session \in Nat
  <2>1. \A i \in 1 .. Len(frames) : frames[i] \in LinkFrame
    OBVIOUS
  <2>. QED
    BY <2>1, UserFields DEF SessionPacket
<1>6. PICK a, a2 : a = Apart(p) /\ a2 = Apart(p2)
  OBVIOUS
<1>7. /\ Sound(a) /\ a.state = "DISCONNECTED"
      /\ a.session = n /\ a.resynced = p.resynced
      /\ Sound(a2) /\ a2.state = "DISCONNECTED"
      /\ a2.session = n /\ a2.resynced = p2.resynced
  BY <1>6, FallenIs DEF Apart
<1>8. p2.state = "CONNECTED" =>
         /\ p2.session \in p2.resynced
         /\ \A i \in 1 .. Len(p2.history) : p2.history[i].session = p2.session
  BY <1>4
<1>9. ASSUME NEW u \in Nat \ {0}, u <= n,
             \E s \in Nat \ {0} : s <= n,
             Streams(a, q, Masked(frames, u)), LateInOrder(p, q, frames, u)
      PROVE  GoesOn(p2, q, after)
  <2>1. PICK masked, masked2 : masked = Masked(frames, u) /\ masked2 = Masked(after, u)
    OBVIOUS
  <2>2. /\ masked \in Seq(LinkFrame) /\ Len(masked) = Len(frames)
        /\ masked2 \in Seq(LinkFrame) /\ Len(masked2) = Len(after)
        /\ \A i \in 1 .. Len(frames) : ~Late(frames[i], u) => masked[i] = frames[i]
        /\ \A i \in 1 .. Len(after) :
              /\ ~Late(after[i], u) => masked2[i] = after[i]
              /\ masked2[i].type \in StreamTypes => ~Late(after[i], u)
    BY <1>2, <2>1, MaskedIs
  <2>3. Within(masked2, masked, StreamTypes)
    <3>. DEFINE from == [i \in 1 .. Len(masked2) |-> i]
    <3>1. from \in [1 .. Len(masked2) -> Int] /\ \A i \in 1 .. Len(masked2) : from[i] = i
      OBVIOUS
    <3>. HIDE DEF from
    <3>2. ASSUME NEW i \in 1 .. Len(masked2), masked2[i].type \in StreamTypes
          PROVE  i \in 1 .. Len(masked) /\ masked2[i] = masked[i]
      <4>1. i \in 1 .. Len(after) /\ ~Late(after[i], u) /\ masked2[i] = after[i]
        BY <2>2, <3>2
      <4>2. i \in 1 .. Len(frames) /\ after[i] = frames[i]
        BY <1>3, <1>9, <4>1 DEF Late
      <4>. QED
        BY <2>2, <4>1, <4>2
    <3>. QED
      BY <3>1, <3>2 DEF Within
  <2>4. Streams(a2, q, masked2)
    <3>1. a.session <= a2.session /\ a.resynced \subseteq a2.resynced
      BY <1>4, <1>7
    <3>. QED
      BY <1>7, <1>9, <2>1, <2>2, <2>3, <3>1, StreamQuiet
  <2>5. LateInOrder(p2, q, after, u)
    <3>1. ASSUME NEW i \in 1 .. Len(after), Late(after[i], u)
          PROVE  /\ after[i].packet.session \in p2.resynced
                 /\ \A k \in 1 .. Len(q.delivered) :
                       q.delivered[k].session <= after[i].packet.session
                 /\ \A j \in 1 .. Len(after) :
                       i < j /\ Carries(after[j]) =>
                           after[i].packet.session <= after[j].packet.session
      <4>1. CASE i \in 1 .. Len(frames) /\ after[i] = frames[i]
        <5>1. /\ after[i].packet.session \in p.resynced
              /\ \A k \in 1 .. Len(q.delivered) :
                    q.delivered[k].session <= after[i].packet.session
              /\ \A j \in 1 .. Len(frames) :
                    i < j /\ Carries(frames[j]) =>
                        after[i].packet.session <= frames[j].packet.session
          BY <1>9, <3>1, <4>1 DEF LateInOrder
        <5>2. ASSUME NEW j \in 1 .. Len(after), i < j, Carries(after[j])
              PROVE  after[i].packet.session <= after[j].packet.session
          BY <1>3, <1>4, <5>1, <5>2
        <5>. QED
          BY <5>1, <5>2
      <4>2. CASE ~(i <= Len(frames)) /\ Carries(after[i]) /\ after[i].packet.session = n
        <5>1. ASSUME NEW j \in 1 .. Len(after), i < j, Carries(after[j])
              PROVE  after[i].packet.session <= after[j].packet.session
          <6>1. ~(j \in 1 .. Len(frames))
            BY <1>2, <4>2, <5>1
          <6>2. after[j].packet.session = n
            BY <1>3, <6>1
          <6>. QED
            BY <1>4, <4>2, <6>2
        <5>. QED
          BY <1>4, <4>2, <5>1
      <4>. QED
        BY <1>3, <4>1, <4>2
    <3>. QED
      BY <3>1 DEF LateInOrder
  <2>. QED
    BY <1>6, <1>8, <1>9, <2>1, <2>4, <2>5 DEF GoesOn
<1>10. CASE Streams(p, q, frames)
  <2>1. PICK s \in Nat \ {0} :
           /\ s <= n
           /\ p.state = "CONNECTED" => s = n
           /\ \A i \in 1 .. Len(frames) :
                 Carries(frames[i]) => OfStream(frames[i].packet, s)
           /\ \A i \in 1 .. Len(q.delivered) : q.delivered[i].session <= s
    BY <1>10 DEF Streams
  <2>2. CASE s = n
    <3>1. \A i \in 1 .. Len(after) : Carries(after[i]) => OfStream(after[i].packet, s)
      BY <1>3, <2>1, <2>2 DEF OfStream
    <3>2. p2.state = "CONNECTED" =>
             \A i \in 1 .. Len(p2.history) : OfStream(p2.history[i], s)
      BY <2>2 DEF OfStream
    <3>3. Streams(p2, q, after)
      BY <1>4, <2>1, <2>2, <3>1, <3>2 DEF Streams
    <3>. QED
      BY <1>1, <3>3 DEF Heard
  <2>3. CASE s # n
    <3>1. n \in Nat \ {0} /\ s < n
      BY <1>4, <2>1, <2>3
    <3>2. \A i \in 1 .. Len(frames) : ~Late(frames[i], n)
      <4>1. PingPacket.session = 0
        BY DEF PingPacket
      <4>. QED
        BY <1>5, <2>1, <3>1, <4>1 DEF Late, OfStream
    <3>3. LateInOrder(p, q, frames, n)
      BY <3>2 DEF LateInOrder
    <3>4. PICK masked : masked = Masked(frames, n)
      OBVIOUS
    <3>5. /\ masked \in Seq(LinkFrame) /\ Len(masked) = Len(frames)
          /\ \A i \in 1 .. Len(frames) : masked[i] = frames[i]
      BY <3>2, <3>4, MaskedIs
    <3>6. masked = frames
      BY <3>5, SeqEqual
    <3>7. Streams(a, q, masked)
      <4>1. p.session <= a.session /\ p.resynced \subseteq a.resynced
        BY <1>4, <1>7
      <4>2. Within(masked, frames, StreamTypes)
        BY <3>6, WithinSelf
      <4>. QED
        BY <1>7, <1>10, <3>5, <4>1, <4>2, StreamQuiet
    <3>8. GoesOn(p2, q, after)
      BY <1>4, <1>9, <3>1, <3>3, <3>4, <3>7
    <3>. QED
      BY <1>1, <3>8 DEF Heard
  <2>. QED
    BY <2>2, <2>3
<1>11. CASE GoesOn(p, q, frames)
  <2>1. PICK u \in Nat \ {0} :
           /\ u <= n
           /\ Streams(Apart(p), q, Masked(frames, u))
           /\ LateInOrder(p, q, frames, u)
    BY <1>11 DEF GoesOn
  <2>2. GoesOn(p2, q, after)
    BY <1>6, <1>9, <2>1
  <2>. QED
    BY <1>1, <2>2 DEF Heard
<1>. QED
  BY <1>10, <1>11 DEF Heard

\* Accepting what is heard.
LEMMA HeardAccepts ==
    ASSUME NEW p, NEW q, NEW q2, Sound(p), Sound(q), Sound(q2),
           NEW frames \in Seq(LinkFrame),
           Heard(p, q, frames), InOrderSoFar(q, p),
           frames # <<>>, Carries(Head(frames)), Head(frames).seq = q.rxSeq,
           ~Has(frames, {"SYN0"}),
           q2.rxSeq = nextSeq(q.rxSeq),
           q2.delivered = IF Head(frames).packet = PingPacket THEN q.delivered
                          ELSE Append(q.delivered, Head(frames).packet)
    PROVE  Heard(p, q2, Tail(frames)) /\ InOrderSoFar(q2, p)
<1>1. p \in EndpointState /\ q \in EndpointState /\ q2 \in EndpointState
  BY SoundFields
<1>2. CASE Streams(p, q, frames)
  BY <1>1, <1>2, StreamAccepts DEF Heard
<1>3. CASE GoesOn(p, q, frames)
  <2>1. PICK u \in Nat \ {0} :
           /\ u <= p.session
           /\ Streams(Apart(p), q, Masked(frames, u))
           /\ LateInOrder(p, q, frames, u)
    BY <1>3 DEF GoesOn
  <2>2. PICK a, masked, head, rest :
           /\ a = Apart(p) /\ masked = Masked(frames, u)
           /\ head = Head(frames) /\ rest = Tail(frames)
    OBVIOUS
  <2>3. /\ Sound(a) /\ a \in EndpointState /\ a.state = "DISCONNECTED"
        /\ a.session = p.session /\ a.resynced = p.resynced
    BY <2>2, FallenIs, SoundFields DEF Apart
  <2>4. /\ Len(rest) = Len(frames) - 1 /\ Len(frames) \in Nat
        /\ \A i \in 1 .. Len(rest) :
              rest[i] = frames[i + 1] /\ i + 1 \in 1 .. Len(frames)
        /\ rest \in Seq(LinkFrame)
        /\ head = frames[1] /\ 1 \in 1 .. Len(frames) /\ head \in LinkFrame
    BY <2>2, HeadTailProperties
  <2>5. /\ masked \in Seq(LinkFrame) /\ Len(masked) = Len(frames)
        /\ \A i \in 1 .. Len(frames) :
              /\ ~Late(frames[i], u) => masked[i] = frames[i]
              /\ masked[i].type \in StreamTypes => ~Late(frames[i], u)
    BY <2>2, MaskedIs
  <2>6. /\ q.delivered \in Seq(SessionPacket) /\ p.session \in Nat
        /\ \A k \in 1 .. Len(q.delivered) : q.delivered[k].session \in Nat
        /\ head.packet \in SessionPacket /\ head.packet.session \in Nat
        /\ Len(q.delivered) \in Nat
    BY <2>2, <2>4, SoundFields, UserFields DEF SessionPacket
  <2>7. ASSUME NEW k \in 1 .. Len(q2.delivered)
        PROVE  \/ k \in 1 .. Len(q.delivered)
                     /\ q2.delivered[k] = q.delivered[k]
               \/ q2.delivered[k] = head.packet /\ head.packet # PingPacket
    <3>1. CASE head.packet = PingPacket
      BY <2>2, <3>1
    <3>2. CASE head.packet # PingPacket
      <4>1. q2.delivered = Append(q.delivered, head.packet)
        BY <2>2, <3>2
      <4>2. /\ Len(q2.delivered) = Len(q.delivered) + 1
            /\ \A i \in 1 .. Len(q.delivered) : q2.delivered[i] = q.delivered[i]
            /\ q2.delivered[Len(q.delivered) + 1] = head.packet
        <5>1. OneMore(q2.delivered, q.delivered, head.packet)
          BY <2>6, <4>1, InOrderLonger
        <5>. QED
          BY <5>1 DEF OneMore
      <4>3. k \in 1 .. Len(q.delivered) \/ k = Len(q.delivered) + 1
        BY <2>6, <4>2
      <4>. QED
        BY <3>2, <4>2, <4>3
    <3>. QED
      BY <3>1, <3>2
  <2>8. CASE ~Late(head, u)
    <3>1. masked[1] = head /\ masked # <<>> /\ Head(masked) = head
      BY <2>4, <2>5, <2>8, HeadTailProperties
    <3>2. ~Has(masked, {"SYN0"})
      <4>1. ASSUME NEW i \in 1 .. Len(masked), masked[i].type \in {"SYN0"}
            PROVE  FALSE
        <5>1. i \in 1 .. Len(frames) /\ masked[i] = frames[i]
          BY <2>5, <4>1 DEF StreamTypes
        <5>. QED
          BY <4>1, <5>1 DEF Has
      <4>. QED
        BY <4>1 DEF Has
    <3>3. InOrderSoFar(q, a)
      BY <2>3 DEF InOrderSoFar
    <3>4. Streams(a, q2, Tail(masked)) /\ InOrderSoFar(q2, a)
      BY <1>1, <2>1, <2>2, <2>3, <2>5, <3>1, <3>2, <3>3, StreamAccepts
    <3>5. PICK short, short2 : short = Tail(masked) /\ short2 = Masked(rest, u)
      OBVIOUS
    <3>6. short = short2
      <4>1. /\ short \in Seq(LinkFrame) /\ Len(short) = Len(rest)
            /\ \A i \in 1 .. Len(rest) : short[i] = masked[i + 1]
        BY <2>4, <2>5, <3>1, <3>5, HeadTailProperties
      <4>2. /\ short2 \in Seq(LinkFrame) /\ Len(short2) = Len(rest)
            /\ \A i \in 1 .. Len(rest) :
                  short2[i] = IF Late(rest[i], u) THEN SynFrame("DIS") ELSE rest[i]
        BY <2>4, <3>5, MaskedIs DEF Masked
      <4>3. \A i \in 1 .. Len(frames) :
               masked[i] = IF Late(frames[i], u) THEN SynFrame("DIS") ELSE frames[i]
        BY <2>2 DEF Masked
      <4>4. \A i \in 1 .. Len(rest) : short[i] = short2[i]
        BY <2>4, <4>1, <4>2, <4>3
      <4>. QED
        BY <4>1, <4>2, <4>4, SeqEqual
    <3>7. InOrderSoFar(q2, p)
      BY <2>3, <3>4 DEF InOrderSoFar
    <3>8. LateInOrder(p, q2, rest, u)
      <4>1. ASSUME NEW i \in 1 .. Len(rest), Late(rest[i], u)
            PROVE  /\ rest[i].packet.session \in p.resynced
                   /\ \A k \in 1 .. Len(q2.delivered) :
                         q2.delivered[k].session <= rest[i].packet.session
                   /\ \A j \in 1 .. Len(rest) :
                         i < j /\ Carries(rest[j]) =>
                             rest[i].packet.session <= rest[j].packet.session
        <5>1. i + 1 \in 1 .. Len(frames) /\ rest[i] = frames[i + 1]
          BY <2>4
        <5>2. /\ rest[i].packet.session \in p.resynced
              /\ \A k \in 1 .. Len(q.delivered) :
                    q.delivered[k].session <= rest[i].packet.session
              /\ \A j \in 1 .. Len(frames) :
                    i + 1 < j /\ Carries(frames[j]) =>
                        rest[i].packet.session <= frames[j].packet.session
          BY <2>1, <4>1, <5>1 DEF LateInOrder
        <5>3. rest[i].packet.session \in Nat /\ u <= rest[i].packet.session
          BY <4>1, <5>2, SoundFields DEF Late
        <5>4. head.packet.session < u
          BY <2>2, <2>6, <2>8 DEF Late
        <5>5. head.packet.session <= rest[i].packet.session
          <6>1. u \in Nat /\ head.packet.session \in Nat
            BY <2>6
          <6>. QED
            BY <5>3, <5>4, <6>1, NoMoreThan, Zenon
        <5>6. ASSUME NEW k \in 1 .. Len(q2.delivered)
              PROVE  q2.delivered[k].session <= rest[i].packet.session
          <6>1. CASE q2.delivered[k] = head.packet
            BY <5>5, <6>1
          <6>2. CASE k \in 1 .. Len(q.delivered) /\ q2.delivered[k] = q.delivered[k]
            BY <5>2, <6>2
          <6>. QED
            BY <2>7, <6>1, <6>2
        <5>7. ASSUME NEW j \in 1 .. Len(rest), i < j, Carries(rest[j])
              PROVE  rest[i].packet.session <= rest[j].packet.session
          <6>1. j + 1 \in 1 .. Len(frames) /\ rest[j] = frames[j + 1] /\ i + 1 < j + 1
            BY <2>4, <5>7
          <6>. QED
            BY <5>2, <5>7, <6>1
        <5>. QED
          BY <5>2, <5>6, <5>7
      <4>. QED
        BY <4>1 DEF LateInOrder
    <3>9. GoesOn(p, q2, rest)
      BY <1>3, <2>1, <2>2, <3>4, <3>5, <3>6, <3>8 DEF GoesOn
    <3>. QED
      BY <2>2, <3>7, <3>9 DEF Heard
  <2>9. CASE Late(head, u)
    <3>. DEFINE t == head.packet.session
    <3>1. /\ t \in Nat \ {0} /\ t \in p.resynced /\ t <= p.session /\ u <= t
          /\ \A k \in 1 .. Len(q.delivered) : q.delivered[k].session <= t
          /\ \A j \in 1 .. Len(frames) :
                1 < j /\ Carries(frames[j]) => t <= frames[j].packet.session
      <4>1. u <= t /\ t \in Nat
        BY <2>6, <2>9 DEF Late
      <4>2. /\ t \in p.resynced
            /\ \A k \in 1 .. Len(q.delivered) : q.delivered[k].session <= t
            /\ \A j \in 1 .. Len(frames) :
                  1 < j /\ Carries(frames[j]) => t <= frames[j].packet.session
        BY <2>1, <2>4, <2>9 DEF LateInOrder
      <4>3. t <= p.session
        BY <4>2 DEF Sound
      <4>. QED
        BY <4>1, <4>2, <4>3
    <3>2. head.packet # PingPacket
      BY <3>1 DEF PingPacket
    <3>3. \A k \in 1 .. Len(q2.delivered) :
             q2.delivered[k].session <= t /\ q2.delivered[k].session \in Nat
      BY <2>6, <2>7, <3>1
    <3>4. \A j \in 1 .. Len(rest) :
             Carries(rest[j]) => t <= rest[j].packet.session /\ Late(rest[j], u)
                                   /\ rest[j].packet.session \in Nat
      <4>1. ASSUME NEW j \in 1 .. Len(rest), Carries(rest[j])
            PROVE  t <= rest[j].packet.session /\ rest[j].packet.session \in Nat
        <5>1. rest[j] = frames[j + 1] /\ j + 1 \in 1 .. Len(frames) /\ 1 < j + 1
          BY <2>4
        <5>2. rest[j] \in LinkFrame
          BY <2>4
        <5>3. rest[j].packet.session \in Nat
          BY <4>1, <5>2, UserFields DEF SessionPacket
        <5>. QED
          BY <3>1, <4>1, <5>1, <5>3
      <4>2. ASSUME NEW j \in 1 .. Len(rest), Carries(rest[j])
            PROVE  Late(rest[j], u)
        BY <3>1, <4>1, <4>2 DEF Late
      <4>. QED
        BY <4>1, <4>2
    <3>5. LateInOrder(p, q2, rest, t)
      <4>1. ASSUME NEW i \in 1 .. Len(rest), Late(rest[i], t)
            PROVE  /\ rest[i].packet.session \in p.resynced
                   /\ \A k \in 1 .. Len(q2.delivered) :
                         q2.delivered[k].session <= rest[i].packet.session
                   /\ \A j \in 1 .. Len(rest) :
                         i < j /\ Carries(rest[j]) =>
                             rest[i].packet.session <= rest[j].packet.session
        <5>1. /\ i + 1 \in 1 .. Len(frames) /\ rest[i] = frames[i + 1]
              /\ Late(rest[i], u) /\ t <= rest[i].packet.session
              /\ rest[i].packet.session \in Nat
          BY <2>4, <3>4, <4>1 DEF Late
        <5>2. /\ rest[i].packet.session \in p.resynced
              /\ \A j \in 1 .. Len(frames) :
                    i + 1 < j /\ Carries(frames[j]) =>
                        rest[i].packet.session <= frames[j].packet.session
          BY <2>1, <5>1 DEF LateInOrder
        <5>3. ASSUME NEW k \in 1 .. Len(q2.delivered)
              PROVE  q2.delivered[k].session <= rest[i].packet.session
          <6>1. q2.delivered[k].session <= t /\ q2.delivered[k].session \in Nat
            BY <3>3
          <6>2. t \in Nat
            BY <3>1
          <6>. HIDE DEF t
          <6>. QED
            BY <5>1, <6>1, <6>2, NoMoreThan, Zenon
        <5>4. ASSUME NEW j \in 1 .. Len(rest), i < j, Carries(rest[j])
              PROVE  rest[i].packet.session <= rest[j].packet.session
          <6>1. j + 1 \in 1 .. Len(frames) /\ rest[j] = frames[j + 1] /\ i + 1 < j + 1
            BY <2>4, <5>4
          <6>. QED
            BY <5>2, <5>4, <6>1
        <5>. QED
          BY <5>2, <5>3, <5>4
      <4>. QED
        BY <4>1 DEF LateInOrder
    <3>6. PICK none : none = Masked(rest, t)
      OBVIOUS
    <3>7. /\ none \in Seq(LinkFrame) /\ Len(none) = Len(rest)
          /\ \A i \in 1 .. Len(rest) : ~Carries(none[i])
      <4>1. /\ none \in Seq(LinkFrame) /\ Len(none) = Len(rest)
            /\ \A i \in 1 .. Len(rest) :
                  /\ Late(rest[i], t) => none[i].type = "DIS"
                  /\ ~Late(rest[i], t) => none[i] = rest[i]
        BY <2>4, <3>6, MaskedIs
      <4>2. \A i \in 1 .. Len(rest) : Carries(rest[i]) => Late(rest[i], t)
        BY <3>4 DEF Late
      <4>. QED
        BY <4>1, <4>2 DEF Carries
    <3>8. Streams(a, q2, none)
      BY <2>3, <3>1, <3>3, <3>7 DEF Streams
    <3>9. GoesOn(p, q2, rest)
      BY <1>3, <2>2, <3>1, <3>5, <3>6, <3>8 DEF GoesOn
    <3>10. InOrderSoFar(q2, p)
      <4>1. PICK d, n : d = q.delivered /\ n = Len(d)
        OBVIOUS
      <4>2. q2.delivered = Append(d, head.packet) /\ d \in Seq(SessionPacket) /\ n \in Nat
        BY <2>2, <2>6, <3>2, <4>1
      <4>3. OneMore(q2.delivered, d, head.packet)
        BY <2>6, <4>2, InOrderLonger
      <4>4. /\ Len(q2.delivered) = n + 1
            /\ \A i \in 1 .. n :
                  /\ q2.delivered[i] = d[i]
                  /\ ComesNext(q2.delivered, i) <=> ComesNext(d, i)
            /\ q2.delivered[n + 1] = head.packet
        BY <4>1, <4>3 DEF OneMore
      <4>5. ASSUME NEW i \in 1 .. n
            PROVE  /\ q2.delivered[i].session <= p.session
                   /\ i > 1 => q2.delivered[i - 1].session <= q2.delivered[i].session
                   /\ q2.delivered[i].session \in p.resynced
                      \/ ComesNext(q2.delivered, i)
        <5>1. i > 1 => i - 1 \in 1 .. n
          BY <4>2
        <5>. QED
          BY <4>1, <4>4, <5>1 DEF InOrderSoFar
      <4>6. /\ q2.delivered[n + 1].session <= p.session
            /\ n + 1 > 1 => q2.delivered[(n + 1) - 1].session
                               <= q2.delivered[n + 1].session
            /\ q2.delivered[n + 1].session \in p.resynced
        <5>1. n + 1 > 1 => n \in 1 .. n /\ (n + 1) - 1 = n
          BY <4>2
        <5>. QED
          BY <3>1, <4>1, <4>4, <5>1
      <4>7. \A i \in 1 .. n + 1 : i \in 1 .. n \/ i = n + 1
        BY <4>2
      <4>. QED
        BY <4>4, <4>5, <4>6, <4>7 DEF InOrderSoFar
    <3>. QED
      BY <2>2, <3>9, <3>10 DEF Heard
  <2>. QED
    BY <2>8, <2>9
<1>. QED
  BY <1>2, <1>3 DEF Heard

\* Nothing but frames lost, damaged or of no consequence.
LEMMA Quiet ==
    ASSUME NEW h, NEW r, NEW toH, NEW toR, Good(h, r, toH, toR),
           NEW toH2 \in Seq(LinkFrame), Within(toH2, toH, Tracked),
           NEW toR2 \in Seq(LinkFrame), Within(toR2, toR, Tracked)
    PROVE  Good(h, r, toH2, toR2)
<1>1. /\ \A types : types \subseteq Tracked /\ Has(toH2, types) => Has(toH, types)
      /\ \A types : types \subseteq Tracked /\ Has(toR2, types) => Has(toR, types)
  BY WithinHas
<1>2. /\ {"SYN0", "SYN2"} \subseteq Tracked /\ {"SYN1"} \subseteq Tracked
      /\ {"SYN0"} \subseteq Tracked /\ {"SYN2"} \subseteq Tracked
      /\ {"SYN2", "USR", "RTX"} \subseteq Tracked
      /\ UserTypes \subseteq Tracked /\ StreamTypes \subseteq Tracked
  BY DEF Tracked, UserTypes, StreamTypes
<1>3. /\ Within(toH2, toH, StreamTypes)
      /\ Within(toR2, toR, StreamTypes)
  BY <1>2, WithinFewer
<1>4. /\ Has(toH2, {"SYN0", "SYN2"}) => Has(toH, {"SYN0", "SYN2"})
      /\ Has(toH2, {"SYN1"}) => Has(toH, {"SYN1"})
      /\ Has(toH2, UserTypes) => Has(toH, UserTypes)
      /\ Has(toR2, {"SYN0"}) => Has(toR, {"SYN0"})
      /\ Has(toR2, {"SYN1"}) => Has(toR, {"SYN1"})
      /\ Has(toR2, {"SYN2", "USR", "RTX"}) => Has(toR, {"SYN2", "USR", "RTX"})
      /\ Has(toR2, UserTypes) => Has(toR, UserTypes)
  BY <1>1, <1>2
<1>5. /\ Sound(h) /\ Sound(r)
      /\ toH \in Seq(LinkFrame) /\ toR \in Seq(LinkFrame)
  BY DEF Good, WellFormed
<1>6. WellFormed(h, r, toH2, toR2)
  <2>1. NoneBehind(toR2, {"SYN0"}, {"SYN2"})
    BY <1>2, WithinOrder DEF Good, WellFormed
  <2>. QED
    BY <1>4, <2>1 DEF Good, WellFormed
<1>7. HostOpening(h, r, toH2, toR2)
  <2>1. h.state = "SENT_SYN0" => NoneBehind(toH2, UserTypes, {"SYN1"})
    BY <1>2, WithinOrder DEF Good, HostOpening
  <2>. QED
    BY <1>4, <2>1 DEF Good, HostOpening
<1>8. RobotOpening(h, r, toH2, toR2)
  BY <1>4 DEF Good, RobotOpening, Fresh
<1>9. h.session <= h.session /\ r.session <= r.session
  BY <1>5, SoundFields
<1>10. ToHost(h, r, toH2)
  BY <1>3, <1>5, <1>9, HeardQuiet DEF Good, ToHost
<1>11. ToRobot(h, r, toR2)
  BY <1>3, <1>4, <1>5, <1>9, StreamQuiet DEF Good, ToRobot
<1>. QED
  BY <1>6, <1>7, <1>8, <1>10, <1>11 DEF Good

\* Frames of other types are sent.
LEMMA Noise ==
    ASSUME NEW h, NEW r, NEW toH, NEW toR, Good(h, r, toH, toR),
           NEW sent \in Seq(LinkFrame),
           \A i \in 1 .. Len(sent) : sent[i].type \notin Tracked
    PROVE  Good(h, r, toH \o sent, toR) /\ Good(h, r, toH, toR \o sent)
<1>1. toH \in Seq(LinkFrame) /\ toR \in Seq(LinkFrame)
  BY DEF Good, WellFormed
<1>2. Within(toH, toH, Tracked) /\ Within(toR, toR, Tracked)
  BY <1>1, WithinSelf
<1>3. /\ toH \o sent \in Seq(LinkFrame) /\ Within(toH \o sent, toH, Tracked)
      /\ toR \o sent \in Seq(LinkFrame) /\ Within(toR \o sent, toR, Tracked)
  BY <1>1, WithinLonger
<1>. QED
  BY <1>1, <1>2, <1>3, Quiet

\* The frames of a handshake.
LEMMA SynIs ==
    ASSUME NEW code \in {"SYN0", "SYN1", "SYN2", "DIS"}
    PROVE  /\ SynFrame(code) \in LinkFrame /\ SynFrame(code).type = code
           /\ <<SynFrame(code)>> \in Seq(LinkFrame)
           /\ Len(<<SynFrame(code)>>) = 1 /\ <<SynFrame(code)>>[1] = SynFrame(code)
<1>1. SynFrame(code) \in LinkFrame /\ SynFrame(code).type = code
  BY DEF SynFrame, LinkFrame
<1>. QED
  BY <1>1

\* A frame of a handshake is sent.
LEMMA SynSent ==
    ASSUME NEW frames \in Seq(LinkFrame), NEW code \in {"SYN0", "SYN1", "SYN2", "DIS"}
    PROVE  /\ frames \o <<SynFrame(code)>> \in Seq(LinkFrame)
           /\ \A types : Has(frames \o <<SynFrame(code)>>, types)
                            <=> Has(frames, types) \/ code \in types
           /\ \A types, marks :
                 NoneBehind(frames, types, marks)
                    /\ (Has(frames, marks) => code \notin types)
                 => NoneBehind(frames \o <<SynFrame(code)>>, types, marks)
           /\ \A types : code \notin types =>
                 Within(frames \o <<SynFrame(code)>>, frames, types)
<1>1. PICK sent : sent = <<SynFrame(code)>>
  OBVIOUS
<1>2. /\ sent \in Seq(LinkFrame) /\ Len(sent) = 1 /\ sent[1].type = code
      /\ \A types : Has(sent, types) <=> code \in types
      /\ \A types, marks : NoneBehind(sent, types, marks)
  BY <1>1, SynIs, OneFrame
<1>3. /\ frames \o sent \in Seq(LinkFrame)
      /\ \A types : Has(frames \o sent, types) <=> Has(frames, types) \/ code \in types
  BY <1>2, LongerHas
<1>4. ASSUME NEW types, NEW marks, NoneBehind(frames, types, marks),
             Has(frames, marks) => code \notin types
      PROVE  NoneBehind(frames \o sent, types, marks)
  BY <1>2, <1>4, LongerOrder
<1>5. ASSUME NEW types, code \notin types
      PROVE  Within(frames \o sent, frames, types)
  <2>1. \A i \in 1 .. Len(sent) : sent[i].type \notin types
    <3>1. \A i \in 1 .. 1 : i = 1
      OBVIOUS
    <3>. QED
      BY <1>2, <1>5, <3>1
  <2>. QED
    BY <1>2, <2>1, WithinLonger
<1>. QED
  BY <1>1, <1>3, <1>4, <1>5

\* The host asks again for a handshake.
LEMMA HostReminds ==
    ASSUME NEW h, NEW r, NEW toH, NEW toR, Good(h, r, toH, toR),
           h.state = "SENT_SYN0"
    PROVE  Good(h, r, toH, toR \o <<SynFrame("SYN0")>>)
<1>1. toR \in Seq(LinkFrame)
  BY DEF Good, WellFormed
<1>2. PICK after : after = toR \o <<SynFrame("SYN0")>>
  OBVIOUS
<1>3. /\ after \in Seq(LinkFrame)
      /\ \A types : Has(after, types) <=> Has(toR, types) \/ "SYN0" \in types
      /\ \A types, marks :
            NoneBehind(toR, types, marks) /\ (Has(toR, marks) => "SYN0" \notin types)
            => NoneBehind(after, types, marks)
  BY <1>1, <1>2, SynSent
<1>4. ~Has(toR, {"SYN2"}) /\ ~Has(after, UserTypes)
      /\ ~Has(after, {"SYN2", "USR", "RTX"})
  BY <1>3 DEF Good, HostOpening, Has, UserTypes
<1>5. WellFormed(h, r, toH, after)
  BY <1>3, <1>4 DEF Good, WellFormed
<1>6. HostOpening(h, r, toH, after)
  BY <1>4 DEF Good, HostOpening
<1>7. RobotOpening(h, r, toH, after)
  BY <1>4 DEF Good, RobotOpening
<1>8. ToRobot(h, r, after)
  BY <1>4 DEF ToRobot
<1>. QED
  BY <1>2, <1>5, <1>6, <1>7, <1>8 DEF Good

\* The robot answers again.
LEMMA RobotReminds ==
    ASSUME NEW h, NEW r, NEW toH, NEW toR, Good(h, r, toH, toR),
           r.state = "SENT_SYN1"
    PROVE  Good(h, r, toH \o <<SynFrame("SYN1")>>, toR)
<1>1. toH \in Seq(LinkFrame) /\ Sound(h) /\ Sound(r)
  BY DEF Good, WellFormed
<1>2. PICK after : after = toH \o <<SynFrame("SYN1")>>
  OBVIOUS
<1>3. /\ after \in Seq(LinkFrame)
      /\ \A types : Has(after, types) <=> Has(toH, types) \/ "SYN1" \in types
      /\ \A types, marks :
            NoneBehind(toH, types, marks) /\ (Has(toH, marks) => "SYN1" \notin types)
            => NoneBehind(after, types, marks)
      /\ Within(after, toH, StreamTypes)
  BY <1>1, <1>2, SynSent DEF StreamTypes
<1>4. /\ Has(after, UserTypes) <=> Has(toH, UserTypes)
      /\ Has(after, {"SYN0", "SYN2"}) <=> Has(toH, {"SYN0", "SYN2"})
      /\ NoneBehind(toH, UserTypes, {"SYN1"}) =>
            NoneBehind(after, UserTypes, {"SYN1"})
  BY <1>3 DEF UserTypes
<1>5. WellFormed(h, r, after, toR)
  BY <1>3, <1>4 DEF Good, WellFormed
<1>6. HostOpening(h, r, after, toR)
  BY <1>4 DEF Good, HostOpening, RobotOpening
<1>7. RobotOpening(h, r, after, toR)
  BY <1>4 DEF Good, RobotOpening, Fresh
<1>8. ToHost(h, r, after)
  <2>1. h.session <= h.session /\ r.session <= r.session
    BY <1>1, SoundFields
  <2>. QED
    BY <1>1, <1>3, <2>1, HeardQuiet DEF Good, ToHost
<1>. QED
  BY <1>2, <1>5, <1>6, <1>7, <1>8 DEF Good

\* The host is told that the robot is disconnected.
LEMMA HostFalls ==
    ASSUME NEW h, NEW r, NEW toH, NEW toR, Good(h, r, toH, toR)
    PROVE  Good([h EXCEPT !.state = "DISCONNECTED"], r, toH, toR)
<1>1. /\ Sound(h) /\ Sound(r) /\ r.session <= r.session
      /\ toH \in Seq(LinkFrame) /\ toR \in Seq(LinkFrame)
  BY SoundFields DEF Good, WellFormed
<1>2. PICK h2 : h2 = [h EXCEPT !.state = "DISCONNECTED"]
  OBVIOUS
<1>3. /\ Sound(h2) /\ h2.state = "DISCONNECTED"
      /\ h2.session = h.session /\ h2.resynced = h.resynced
      /\ h2.delivered = h.delivered /\ h.session <= h2.session
  BY <1>1, <1>2, FallenIs
<1>4. WellFormed(h2, r, toH, toR)
  BY <1>3 DEF Good, WellFormed
<1>5. HostOpening(h2, r, toH, toR)
  BY <1>3 DEF HostOpening
<1>6. RobotOpening(h2, r, toH, toR)
  BY <1>3 DEF Good, RobotOpening, Unused
<1>7. ToHost(h2, r, toH)
  BY <1>3 DEF ToHost
<1>8. ToRobot(h2, r, toR)
  <2>1. Within(toR, toR, StreamTypes)
    BY <1>1, WithinSelf
  <2>. QED
    BY <1>1, <1>3, <2>1, StreamQuiet DEF Good, ToRobot
<1>9. InOrderSoFar(h2, r) /\ InOrderSoFar(r, h2)
  BY <1>1, <1>3, InOrderKept DEF Good
<1>. QED
  BY <1>2, <1>4, <1>5, <1>6, <1>7, <1>8, <1>9 DEF Good

\* The robot is told that the host is disconnected.
LEMMA RobotFalls ==
    ASSUME NEW h, NEW r, NEW toH, NEW toR, Good(h, r, toH, toR)
    PROVE  Good(h, [r EXCEPT !.state = "DISCONNECTED"], toH, toR)
<1>1. /\ Sound(h) /\ Sound(r) /\ h.session <= h.session
      /\ toH \in Seq(LinkFrame) /\ toR \in Seq(LinkFrame)
  BY SoundFields DEF Good, WellFormed
<1>2. PICK r2 : r2 = [r EXCEPT !.state = "DISCONNECTED"]
  OBVIOUS
<1>3. /\ Sound(r2) /\ r2.state = "DISCONNECTED"
      /\ r2.txSeq = r.txSeq /\ r2.rxSeq = r.rxSeq
      /\ r2.history = r.history /\ r2.place = r.place
      /\ r2.session = r.session /\ r2.resynced = r.resynced
      /\ r2.delivered = r.delivered /\ r.session <= r2.session
  BY <1>1, <1>2, FallenIs
<1>4. WellFormed(h, r2, toH, toR)
  BY <1>3 DEF Good, WellFormed
<1>5. HostOpening(h, r2, toH, toR)
  BY <1>3 DEF Good, HostOpening, Unused
<1>6. RobotOpening(h, r2, toH, toR)
  BY <1>3 DEF Good, RobotOpening, Unused, Fresh
<1>7. Within(toR, toR, StreamTypes) /\ Within(toH, toH, StreamTypes)
  BY <1>1, WithinSelf
<1>8. ToHost(h, r2, toH)
  BY <1>1, <1>3, <1>7, HeardQuiet DEF Good, ToHost
<1>9. ToRobot(h, r2, toR)
  BY <1>1, <1>3, <1>7, StreamQuiet DEF Good, ToRobot
<1>10. InOrderSoFar(h, r2) /\ InOrderSoFar(r2, h)
  BY <1>1, <1>3, InOrderKept DEF Good
<1>. QED
  BY <1>2, <1>4, <1>5, <1>6, <1>8, <1>9, <1>10 DEF Good
\* The host starts anew.
LEMMA HostResets ==
    ASSUME NEW h, NEW r, NEW toH, NEW toR, Good(h, r, toH, toR)
    PROVE  Good(Restarted(h, "DISCONNECTED"), r, toH, toR)
<1>1. /\ Sound(h) /\ Sound(r) /\ r.session <= r.session
      /\ h.session \in Nat /\ h.session <= h.session + 1
      /\ toH \in Seq(LinkFrame) /\ toR \in Seq(LinkFrame)
  BY SoundFields DEF Good, WellFormed
<1>2. PICK h2 : h2 = Restarted(h, "DISCONNECTED")
  OBVIOUS
<1>3. /\ Sound(h2) /\ h2.state = "DISCONNECTED"
      /\ h2.session = h.session + 1 /\ h2.resynced = h.resynced
      /\ h2.delivered = h.delivered
  BY <1>1, <1>2, RestartedIs DEF Good, SFPstate
<1>4. WellFormed(h2, r, toH, toR)
  BY <1>3 DEF Good, WellFormed
<1>5. HostOpening(h2, r, toH, toR)
  BY <1>3 DEF HostOpening
<1>6. RobotOpening(h2, r, toH, toR)
  BY <1>3 DEF Good, RobotOpening, Unused
<1>7. ToHost(h2, r, toH)
  BY <1>3 DEF ToHost
<1>8. ToRobot(h2, r, toR)
  <2>1. Within(toR, toR, StreamTypes)
    BY <1>1, WithinSelf
  <2>. QED
    BY <1>1, <1>3, <2>1, StreamQuiet DEF Good, ToRobot
<1>9. InOrderSoFar(h2, r) /\ InOrderSoFar(r, h2)
  BY <1>1, <1>3, InOrderKept DEF Good
<1>. QED
  BY <1>2, <1>4, <1>5, <1>6, <1>7, <1>8, <1>9 DEF Good

\* The robot starts anew.
LEMMA RobotResets ==
    ASSUME NEW h, NEW r, NEW toH, NEW toR, Good(h, r, toH, toR)
    PROVE  Good(h, Restarted(r, "DISCONNECTED"), toH, toR)
<1>1. /\ Sound(h) /\ Sound(r) /\ h.session <= h.session
      /\ r.session \in Nat /\ r.session <= r.session + 1
      /\ toH \in Seq(LinkFrame) /\ toR \in Seq(LinkFrame)
  BY SoundFields DEF Good, WellFormed
<1>2. PICK r2 : r2 = Restarted(r, "DISCONNECTED")
  OBVIOUS
<1>3. /\ Sound(r2) /\ r2.state = "DISCONNECTED" /\ Unused(r2, h)
      /\ r2.session = r.session + 1 /\ r2.resynced = r.resynced
      /\ r2.delivered = r.delivered /\ r2.rxSeq = 0
  BY <1>1, <1>2, RestartedIs DEF Good, SFPstate, Unused
<1>4. WellFormed(h, r2, toH, toR)
  BY <1>3 DEF Good, WellFormed
<1>5. HostOpening(h, r2, toH, toR)
  BY <1>3 DEF Good, HostOpening, Unused
<1>6. RobotOpening(h, r2, toH, toR)
  BY <1>3 DEF Good, RobotOpening, Fresh
<1>7. Within(toR, toR, StreamTypes) /\ Within(toH, toH, StreamTypes)
  BY <1>1, WithinSelf
<1>8. ToHost(h, r2, toH)
  BY <1>1, <1>3, <1>7, HeardQuiet DEF Good, ToHost
<1>9. ToRobot(h, r2, toR)
  BY <1>1, <1>3, <1>7, StreamQuiet DEF Good, ToRobot
<1>10. InOrderSoFar(h, r2) /\ InOrderSoFar(r2, h)
  BY <1>1, <1>3, InOrderKept DEF Good
<1>. QED
  BY <1>2, <1>4, <1>5, <1>6, <1>8, <1>9, <1>10 DEF Good

\* The host starts a handshake when all frames have arrived.
LEMMA HostConnects ==
    ASSUME NEW h, NEW r, Good(h, r, <<>>, <<>>)
    PROVE  Good(Restarted(h, "SENT_SYN0"), r, <<>>, <<SynFrame("SYN0")>>)
<1>1. /\ Sound(h) /\ Sound(r)
      /\ h.session \in Nat /\ h.session <= h.session + 1
      /\ r.session <= r.session
  BY SoundFields DEF Good, WellFormed
<1>2. PICK h2 : h2 = Restarted(h, "SENT_SYN0")
  OBVIOUS
<1>3. /\ Sound(h2) /\ h2.state = "SENT_SYN0" /\ Unused(h2, r)
      /\ h2.session = h.session + 1 /\ h2.resynced = h.resynced
      /\ h2.delivered = h.delivered
  BY <1>1, <1>2, RestartedIs DEF Good, SFPstate
<1>4. PICK sent : sent = <<SynFrame("SYN0")>>
  OBVIOUS
<1>5. /\ sent \in Seq(LinkFrame)
      /\ \A types : Has(sent, types) <=> "SYN0" \in types
      /\ \A types, marks : NoneBehind(sent, types, marks)
  BY <1>4, SynIs, OneFrame
<1>6. ~Has(sent, UserTypes) /\ ~Has(sent, {"SYN2", "USR", "RTX"})
      /\ ~Has(sent, {"SYN1"})
  BY <1>5 DEF UserTypes
<1>7. WellFormed(h2, r, <<>>, sent)
  BY <1>3, <1>5, <1>6, NoFrame DEF Good, WellFormed
<1>8. HostOpening(h2, r, <<>>, sent)
  BY <1>3, <1>6, NoFrame DEF HostOpening
<1>9. RobotOpening(h2, r, <<>>, sent)
  BY <1>3, <1>6 DEF Good, RobotOpening, Unused
<1>10. ToHost(h2, r, <<>>) /\ ToRobot(h2, r, sent)
  BY <1>3, <1>6 DEF ToHost, ToRobot
<1>11. InOrderSoFar(h2, r) /\ InOrderSoFar(r, h2)
  BY <1>1, <1>3, InOrderKept DEF Good
<1>. QED
  BY <1>2, <1>4, <1>7, <1>8, <1>9, <1>10, <1>11 DEF Good

\* The robot answers the host's SYN0 and starts anew.
LEMMA RobotAnswers ==
    ASSUME NEW h, NEW r, NEW toH, NEW toR, Good(h, r, toH, toR),
           toR # <<>>, Head(toR).type = "SYN0"
    PROVE  Good(h, Restarted(r, "SENT_SYN1"), toH \o <<SynFrame("SYN1")>>, Tail(toR))
<1>1. /\ Sound(h) /\ Sound(r) /\ h.session <= h.session
      /\ r.session \in Nat /\ r.session <= r.session + 1
      /\ toH \in Seq(LinkFrame) /\ toR \in Seq(LinkFrame)
  BY SoundFields DEF Good, WellFormed
<1>2. PICK r2 : r2 = Restarted(r, "SENT_SYN1")
  OBVIOUS
<1>3. /\ Sound(r2) /\ r2.state = "SENT_SYN1" /\ Unused(r2, h)
      /\ r2.session = r.session + 1 /\ r2.resynced = r.resynced
      /\ r2.delivered = r.delivered /\ r2.rxSeq = 0
  BY <1>1, <1>2, RestartedIs DEF Good, SFPstate, Unused
<1>4. PICK toH2, toR2 : toH2 = toH \o <<SynFrame("SYN1")>> /\ toR2 = Tail(toR)
  OBVIOUS
<1>5. /\ toH2 \in Seq(LinkFrame)
      /\ \A types : Has(toH2, types) <=> Has(toH, types) \/ "SYN1" \in types
      /\ \A types, marks :
            NoneBehind(toH, types, marks) /\ (Has(toH, marks) => "SYN1" \notin types)
            => NoneBehind(toH2, types, marks)
  BY <1>1, <1>4, SynSent
<1>6. /\ Has(toH2, UserTypes) <=> Has(toH, UserTypes)
      /\ ~Has(toH2, {"SYN0", "SYN2"})
      /\ NoneBehind(toH, UserTypes, {"SYN1"}) =>
            NoneBehind(toH2, UserTypes, {"SYN1"})
  BY <1>5 DEF UserTypes, Good, WellFormed
<1>7. /\ toR2 \in Seq(LinkFrame)
      /\ Within(toR2, toR, StreamTypes) /\ Within(toR2, toR, Tracked)
  BY <1>1, <1>4, WithinTail
<1>8. Has(toR, {"SYN0"})
  BY <1>1, HeadThere
<1>9. Good(h, r, toH, toR2)
  <2>1. Within(toH, toH, Tracked)
    BY <1>1, WithinSelf
  <2>. QED
    BY <1>1, <1>7, <2>1, Quiet
<1>10. Has(toR2, UserTypes) => Has(toR, UserTypes)
  BY <1>7, WithinHas DEF UserTypes, StreamTypes
<1>11. WellFormed(h, r2, toH2, toR2)
  BY <1>3, <1>5, <1>6, <1>9 DEF Good, WellFormed
<1>12. HostOpening(h, r2, toH2, toR2)
  BY <1>3, <1>6, <1>9 DEF Good, HostOpening, Unused
<1>13. h.state = "CONNECTED" => Fresh(h, r2, toH2)
  BY <1>3, <1>6, <1>8 DEF Good, RobotOpening, Fresh
<1>14. RobotOpening(h, r2, toH2, toR2)
  BY <1>3, <1>13 DEF RobotOpening
<1>15. ToHost(h, r2, toH2)
  BY <1>1, <1>3, <1>5, <1>13, StreamStarts
     DEF ToHost, Heard, Fresh, Sound
<1>16. ToRobot(h, r2, toR2)
  BY <1>1, <1>3, <1>7, <1>8, <1>10, StreamQuiet DEF Good, ToRobot
<1>17. InOrderSoFar(h, r2) /\ InOrderSoFar(r2, h)
  BY <1>1, <1>3, InOrderKept DEF Good
<1>. QED
  BY <1>2, <1>4, <1>11, <1>12, <1>14, <1>15, <1>16, <1>17 DEF Good
\* Completing a handshake in a session without packets.
LEMMA OpenedIs ==
    ASSUME NEW p, Sound(p), p.txSeq = 0
    PROVE  /\ Sound(Connected(p)) /\ ResentOnConnecting(p) = <<>>
           /\ Connected(p).state = "CONNECTED"
           /\ Connected(p).txSeq = p.txSeq /\ Connected(p).rxSeq = p.rxSeq
           /\ Connected(p).history = p.history /\ Connected(p).place = p.place
           /\ Connected(p).session = p.session
           /\ Connected(p).resynced = p.resynced
           /\ Connected(p).delivered = p.delivered
<1>1. p \in EndpointState
  BY SoundFields
<1>2. Connected(p) = [p EXCEPT !.state = "CONNECTED"] /\ ResentOnConnecting(p) = <<>>
  BY ZeroSeq DEF Connected, ResentOnConnecting
<1>3. PICK p2 : p2 = [p EXCEPT !.state = "CONNECTED"]
  OBVIOUS
<1>4. /\ p2 \in EndpointState /\ p2.state = "CONNECTED"
      /\ p2.txSeq = p.txSeq /\ p2.rxSeq = p.rxSeq
      /\ p2.history = p.history /\ p2.place = p.place
      /\ p2.session = p.session /\ p2.resynced = p.resynced
      /\ p2.delivered = p.delivered
  BY <1>1, <1>3 DEF EndpointState, SFPstate
<1>5. Sound(p2)
  BY <1>4 DEF Sound
<1>. QED
  BY <1>2, <1>3, <1>4, <1>5

\* The host completes the handshake it has started.
LEMMA HostOpens ==
    ASSUME NEW h, NEW r, NEW toH, NEW toR, Good(h, r, toH, toR),
           h.state = "SENT_SYN0", toH # <<>>, Head(toH).type = "SYN1"
    PROVE  Good(Connected(h), r, Tail(toH),
                toR \o (<<SynFrame("SYN2")>> \o ResentOnConnecting(h)))
<1>1. /\ Sound(h) /\ Sound(r) /\ r.session <= r.session
      /\ toH \in Seq(LinkFrame) /\ toR \in Seq(LinkFrame)
      /\ h.session <= h.session
  BY SoundFields DEF Good, WellFormed
<1>2. Has(toH, {"SYN1"})
  BY <1>1, HeadThere
<1>3. /\ Unused(h, r) /\ h.txSeq = 0 /\ h.rxSeq = 0
      /\ r.state # "CONNECTED" /\ Unused(r, h) /\ r.rxSeq = 0
      /\ ~Has(toR, UserTypes)
      /\ NoneBehind(toH, UserTypes, {"SYN1"})
  BY <1>2 DEF Good, HostOpening, Unused, Has, UserTypes
<1>4. PICK h2, toH2, toR2 :
        /\ h2 = Connected(h) /\ toH2 = Tail(toH)
        /\ toR2 = toR \o <<SynFrame("SYN2")>>
  OBVIOUS
<1>5. /\ Sound(h2) /\ h2.state = "CONNECTED" /\ h2.rxSeq = 0
      /\ h2.txSeq = h.txSeq /\ h2.history = h.history /\ h2.place = h.place
      /\ h2.session = h.session /\ h2.resynced = h.resynced
      /\ h2.delivered = h.delivered /\ ResentOnConnecting(h) = <<>>
  BY <1>1, <1>3, <1>4, OpenedIs
<1>6. toR \o (<<SynFrame("SYN2")>> \o ResentOnConnecting(h)) = toR2
  <2>1. <<SynFrame("SYN2")>> \in Seq(LinkFrame)
    BY SynIs
  <2>2. <<SynFrame("SYN2")>> \o <<>> = <<SynFrame("SYN2")>>
    BY <2>1
  <2>. QED
    BY <1>4, <1>5, <2>2
<1>7. /\ toR2 \in Seq(LinkFrame)
      /\ \A types : Has(toR2, types) <=> Has(toR, types) \/ "SYN2" \in types
      /\ NoneBehind(toR2, {"SYN0"}, {"SYN2"})
  BY <1>1, <1>4, SynSent DEF Good, WellFormed
<1>8. ~Has(toR2, UserTypes) /\ ~Has(toR2, {"SYN1"})
  BY <1>3, <1>7 DEF Good, WellFormed, UserTypes
<1>9. ~Has(toH2, UserTypes)
  BY <1>1, <1>3, <1>4, TailClear
<1>10. /\ toH2 \in Seq(LinkFrame) /\ Within(toH2, toH, Tracked)
       /\ ~Has(toH2, {"SYN0", "SYN2"})
  <2>1. toH2 \in Seq(LinkFrame) /\ Within(toH2, toH, Tracked)
    BY <1>1, <1>4, WithinTail
  <2>. QED
    BY <2>1, WithinHas DEF Good, WellFormed, Tracked
<1>11. WellFormed(h2, r, toH2, toR2)
  BY <1>5, <1>7, <1>8, <1>10 DEF Good, WellFormed
<1>12. HostOpening(h2, r, toH2, toR2)
  BY <1>5 DEF HostOpening
<1>13. Unused(r, h2) /\ Unused(h2, r)
  BY <1>3, <1>5 DEF Unused
<1>14. Fresh(h2, r, toH2)
  BY <1>3, <1>5, <1>9, <1>13 DEF Fresh
<1>15. RobotOpening(h2, r, toH2, toR2)
  BY <1>3, <1>13, <1>14 DEF RobotOpening
<1>16. ToHost(h2, r, toH2) /\ ToRobot(h2, r, toR2)
  BY <1>1, <1>3, <1>5, <1>7, <1>8, <1>9, <1>10, <1>13, StreamStarts
     DEF ToHost, ToRobot, Heard, Sound
<1>17. InOrderSoFar(h2, r) /\ InOrderSoFar(r, h2)
  BY <1>1, <1>5, InOrderKept DEF Good
<1>. QED
  BY <1>4, <1>6, <1>11, <1>12, <1>15, <1>16, <1>17 DEF Good

\* The robot completes the handshake.
LEMMA RobotOpens ==
    ASSUME NEW h, NEW r, NEW toH, NEW toR, Good(h, r, toH, toR),
           r.state = "SENT_SYN1", toR # <<>>, Head(toR).type = "SYN2"
    PROVE  Good(h, Connected(r), toH \o ResentOnConnecting(r), Tail(toR))
<1>1. /\ Sound(h) /\ Sound(r) /\ r.session <= r.session
      /\ toH \in Seq(LinkFrame) /\ toR \in Seq(LinkFrame)
      /\ h.session <= h.session
  BY SoundFields DEF Good, WellFormed
<1>2. Has(toR, {"SYN2"}) /\ Has(toR, {"SYN2", "USR", "RTX"})
  BY <1>1, HeadThere
<1>3. /\ h.state # "SENT_SYN0" /\ Unused(r, h) /\ r.txSeq = 0
      /\ h.state = "CONNECTED" => Fresh(h, r, toH)
  BY <1>2 DEF Good, HostOpening, RobotOpening, Unused
<1>4. PICK r2, toR2 : r2 = Connected(r) /\ toR2 = Tail(toR)
  OBVIOUS
<1>5. /\ Sound(r2) /\ r2.state = "CONNECTED" /\ r2.rxSeq = r.rxSeq
      /\ r2.txSeq = r.txSeq /\ r2.history = r.history /\ r2.place = r.place
      /\ r2.session = r.session /\ r2.resynced = r.resynced
      /\ r2.delivered = r.delivered /\ ResentOnConnecting(r) = <<>>
  BY <1>1, <1>3, <1>4, OpenedIs
<1>6. toH \o ResentOnConnecting(r) = toH
  BY <1>1, <1>5
<1>7. /\ toR2 \in Seq(LinkFrame) /\ ~Has(toR2, {"SYN0"})
      /\ Within(toR2, toR, StreamTypes) /\ Within(toR2, toR, Tracked)
  <2>1. NoneBehind(toR, {"SYN0"}, {"SYN2"}) /\ Head(toR).type \in {"SYN2"}
    BY DEF Good, WellFormed
  <2>2. ~Has(Tail(toR), {"SYN0"})
    BY <1>1, <2>1, TailClear
  <2>. QED
    BY <1>1, <1>4, <2>2, WithinTail
<1>8. Good(h, r, toH, toR2)
  <2>1. Within(toH, toH, Tracked)
    BY <1>1, WithinSelf
  <2>. QED
    BY <1>1, <1>7, <2>1, Quiet
<1>9. Has(toR2, UserTypes) => Has(toR, UserTypes)
  BY <1>7, WithinHas DEF UserTypes, StreamTypes
<1>10. WellFormed(h, r2, toH, toR2)
  BY <1>5, <1>8 DEF Good, WellFormed
<1>11. HostOpening(h, r2, toH, toR2)
  BY <1>3 DEF HostOpening
<1>12. RobotOpening(h, r2, toH, toR2)
  BY <1>5, <1>7 DEF RobotOpening
<1>13. ToHost(h, r2, toH)
  <2>1. ASSUME h.state = "CONNECTED"
        PROVE  Streams(r2, h, toH)
    <3>1. Unused(r2, h) /\ h.rxSeq = 0 /\ ~Has(toH, UserTypes)
      BY <1>3, <1>5, <2>1 DEF Fresh, Unused
    <3>. QED
      BY <1>1, <1>5, <3>1, StreamStarts DEF Sound
  <2>. QED
    BY <2>1 DEF ToHost, Heard
<1>14. ToRobot(h, r2, toR2)
  BY <1>1, <1>5, <1>7, <1>9, StreamQuiet DEF Good, ToRobot
<1>15. InOrderSoFar(h, r2) /\ InOrderSoFar(r2, h)
  BY <1>1, <1>5, InOrderKept DEF Good
<1>. QED
  BY <1>4, <1>6, <1>10, <1>11, <1>12, <1>13, <1>14, <1>15 DEF Good

\* What is sent again are packets.
LEMMA ResentTypes ==
    ASSUME NEW p, Sound(p), NEW seq \in SFPseq, NEW frames \in Seq(LinkFrame),
           NEW after, after = frames \o Resent(p, seq)
    PROVE  /\ after \in Seq(LinkFrame) /\ Resent(p, seq) \in Seq(LinkFrame)
           /\ \A types : UserTypes \cap types = {} =>
                 (Has(after, types) <=> Has(frames, types))
           /\ \A types, marks :
                 NoneBehind(frames, types, marks) /\ UserTypes \cap marks = {}
                     /\ (Has(frames, marks) => UserTypes \cap types = {})
                 => NoneBehind(after, types, marks)
<1>1. PICK sent : sent = Resent(p, seq)
  OBVIOUS
<1>2. sent \in Seq(LinkFrame) /\ \A i \in 1 .. Len(sent) : sent[i].type = "RTX"
  <2>1. PICK kept : kept = HistoryFrom(p.history, p.txSeq, seq)
    OBVIOUS
  <2>2. kept \in Seq(SessionPacket)
    BY <2>1, RewoundIs DEF Suffix
  <2>3. sent = Retransmission(kept, seq)
    BY <1>1, <2>1 DEF Resent
  <2>. QED
    BY <2>2, <2>3, ResentIs
<1>3. /\ after \in Seq(LinkFrame)
      /\ \A types : Has(after, types) <=> Has(frames, types) \/ Has(sent, types)
  BY <1>1, <1>2, LongerHas
<1>4. \A types : UserTypes \cap types = {} => ~Has(sent, types)
  BY <1>2 DEF Has, UserTypes
<1>5. ASSUME NEW types, NEW marks, NoneBehind(frames, types, marks),
             UserTypes \cap marks = {},
             Has(frames, marks) => UserTypes \cap types = {}
      PROVE  NoneBehind(after, types, marks)
  <2>1. NoneBehind(sent, types, marks)
    BY <1>2, <1>5 DEF NoneBehind, UserTypes
  <2>2. Has(frames, marks) => ~Has(sent, types)
    BY <1>4, <1>5
  <2>. QED
    BY <1>1, <1>2, <1>5, <2>1, <2>2, LongerOrder
<1>. QED
  BY <1>1, <1>2, <1>3, <1>4, <1>5

\* The host sends again.
LEMMA HostRewinds ==
    ASSUME NEW h, NEW r, NEW toH, NEW toR, Good(h, r, toH, toR),
           h.state = "CONNECTED", NEW seq \in SFPseq
    PROVE  Good(Rewound(h, seq), r, toH, toR \o Resent(h, seq))
<1>1. /\ Sound(h) /\ Sound(r) /\ r.session <= r.session
      /\ toH \in Seq(LinkFrame) /\ toR \in Seq(LinkFrame)
      /\ h.session <= h.session /\ r \in EndpointState
  BY SoundFields DEF Good, WellFormed
<1>2. PICK h2, after : h2 = Rewound(h, seq) /\ after = toR \o Resent(h, seq)
  OBVIOUS
<1>3. /\ Sound(h2) /\ h2.state = "CONNECTED" /\ h2.rxSeq = h.rxSeq
      /\ h2.session = h.session /\ h2.delivered = h.delivered
      /\ h.resynced \subseteq h2.resynced
  BY <1>1, <1>2, RewoundIs
<1>4. /\ after \in Seq(LinkFrame)
      /\ Has(after, {"SYN0"}) <=> Has(toR, {"SYN0"})
      /\ Has(after, {"SYN1"}) <=> Has(toR, {"SYN1"})
      /\ NoneBehind(toR, {"SYN0"}, {"SYN2"}) => NoneBehind(after, {"SYN0"}, {"SYN2"})
  BY <1>1, <1>2, ResentTypes DEF UserTypes
<1>5. WellFormed(h2, r, toH, after)
  BY <1>3, <1>4 DEF Good, WellFormed
<1>6. HostOpening(h2, r, toH, after)
  BY <1>3 DEF HostOpening
<1>7. RobotOpening(h2, r, toH, after)
  BY <1>3, <1>4 DEF Good, RobotOpening, Fresh, Unused
<1>8. ToHost(h2, r, toH)
  <2>1. Within(toH, toH, StreamTypes)
    BY <1>1, WithinSelf
  <2>. QED
    BY <1>1, <1>3, <2>1, HeardQuiet DEF Good, ToHost
<1>9. ToRobot(h2, r, after)
  BY <1>1, <1>2, <1>4, StreamRewinds DEF Good, ToRobot
<1>10. InOrderSoFar(h2, r) /\ InOrderSoFar(r, h2)
  BY <1>1, <1>3, InOrderKept DEF Good
<1>. QED
  BY <1>2, <1>5, <1>6, <1>7, <1>8, <1>9, <1>10 DEF Good

\* The robot sends again.
LEMMA RobotRewinds ==
    ASSUME NEW h, NEW r, NEW toH, NEW toR, Good(h, r, toH, toR),
           r.state = "CONNECTED", NEW seq \in SFPseq
    PROVE  Good(h, Rewound(r, seq), toH \o Resent(r, seq), toR)
<1>1. /\ Sound(h) /\ Sound(r) /\ r.session <= r.session
      /\ toH \in Seq(LinkFrame) /\ toR \in Seq(LinkFrame)
      /\ h.session <= h.session /\ h \in EndpointState
  BY SoundFields DEF Good, WellFormed
<1>2. PICK r2, after : r2 = Rewound(r, seq) /\ after = toH \o Resent(r, seq)
  OBVIOUS
<1>3. /\ Sound(r2) /\ r2.state = "CONNECTED" /\ r2.rxSeq = r.rxSeq
      /\ r2.session = r.session /\ r2.delivered = r.delivered
      /\ r.resynced \subseteq r2.resynced
  BY <1>1, <1>2, RewoundIs
<1>4. /\ after \in Seq(LinkFrame)
      /\ Has(after, {"SYN0", "SYN2"}) <=> Has(toH, {"SYN0", "SYN2"})
      /\ Has(after, {"SYN1"}) <=> Has(toH, {"SYN1"})
      /\ NoneBehind(toH, UserTypes, {"SYN1"}) /\ ~Has(toH, {"SYN1"})
            => NoneBehind(after, UserTypes, {"SYN1"})
  BY <1>1, <1>2, ResentTypes DEF UserTypes
<1>5. h.state = "SENT_SYN0" => ~Has(toH, {"SYN1"})
  BY DEF Good, HostOpening
<1>6. WellFormed(h, r2, after, toR)
  BY <1>3, <1>4 DEF Good, WellFormed
<1>7. HostOpening(h, r2, after, toR)
  BY <1>3, <1>4, <1>5 DEF Good, HostOpening, Unused
<1>8. RobotOpening(h, r2, after, toR)
  BY <1>3 DEF Good, RobotOpening, Fresh
<1>9. ToHost(h, r2, after)
  <2>1. ASSUME h.state = "CONNECTED"
        PROVE  Heard(r2, h, after)
    <3>1. Heard(r, h, toH) /\ InOrderSoFar(h, r)
      BY <2>1 DEF Good, ToHost
    <3>2. CASE Streams(r, h, toH)
      BY <1>1, <1>2, <3>2, StreamRewinds DEF Heard
    <3>3. CASE GoesOn(r, h, toH)
      <4>1. /\ r.session \in r.resynced
            /\ \A i \in 1 .. Len(r.history) : r.history[i].session = r.session
        BY <3>3 DEF GoesOn
      <4>2. PICK sent, kept :
               sent = Resent(r, seq) /\ kept = HistoryFrom(r.history, r.txSeq, seq)
        OBVIOUS
      <4>3. /\ sent \in Seq(LinkFrame) /\ Len(sent) = Len(kept)
            /\ r2.history = kept /\ Suffix(kept, r.history)
            /\ \A i \in 1 .. Len(sent) :
                  sent[i].type = "RTX" /\ sent[i].packet = kept[i]
        BY <1>1, <1>2, <4>2, RewoundIs
      <4>4. \A i \in 1 .. Len(r2.history) : r2.history[i].session = r.session
        BY <4>1, <4>3 DEF Suffix
      <4>5. \A i \in 1 .. Len(sent) :
               Carries(sent[i]) /\ sent[i].packet.session = r.session
        BY <4>3, <4>4 DEF Carries
      <4>. QED
        BY <1>1, <1>2, <1>3, <3>1, <4>1, <4>2, <4>3, <4>4, <4>5, HeardLonger
    <3>. QED
      BY <3>1, <3>2, <3>3 DEF Heard
  <2>. QED
    BY <2>1 DEF ToHost
<1>10. ToRobot(h, r2, toR)
  <2>1. Within(toR, toR, StreamTypes)
    BY <1>1, WithinSelf
  <2>. QED
    BY <1>1, <1>3, <2>1, StreamQuiet DEF Good, ToRobot
<1>11. InOrderSoFar(h, r2) /\ InOrderSoFar(r2, h)
  BY <1>1, <1>3, InOrderKept DEF Good
<1>. QED
  BY <1>2, <1>6, <1>7, <1>8, <1>9, <1>10, <1>11 DEF Good
\* The host answers SYN1, connected or not.
LEMMA HostConfirms ==
    ASSUME NEW h, NEW r, NEW toH, NEW toR, Good(h, r, toH, toR),
           h.state = "CONNECTED"
    PROVE  Good(h, r, toH, toR \o <<SynFrame("SYN2")>>)
<1>1. /\ Sound(h) /\ Sound(r) /\ r.session <= r.session
      /\ toH \in Seq(LinkFrame) /\ toR \in Seq(LinkFrame)
      /\ h.session <= h.session
  BY SoundFields DEF Good, WellFormed
<1>2. PICK after : after = toR \o <<SynFrame("SYN2")>>
  OBVIOUS
<1>3. /\ after \in Seq(LinkFrame)
      /\ \A types : Has(after, types) <=> Has(toR, types) \/ "SYN2" \in types
      /\ NoneBehind(toR, {"SYN0"}, {"SYN2"}) => NoneBehind(after, {"SYN0"}, {"SYN2"})
      /\ Within(after, toR, StreamTypes)
  BY <1>1, <1>2, SynSent DEF StreamTypes
<1>4. /\ Has(after, {"SYN0"}) <=> Has(toR, {"SYN0"})
      /\ Has(after, {"SYN1"}) <=> Has(toR, {"SYN1"})
      /\ Has(after, UserTypes) <=> Has(toR, UserTypes)
  BY <1>3 DEF UserTypes
<1>5. WellFormed(h, r, toH, after)
  BY <1>3, <1>4 DEF Good, WellFormed
<1>6. HostOpening(h, r, toH, after)
  BY DEF HostOpening
<1>7. RobotOpening(h, r, toH, after)
  BY <1>4 DEF Good, RobotOpening
<1>8. ToRobot(h, r, after)
  BY <1>1, <1>3, <1>4, StreamQuiet DEF Good, ToRobot
<1>. QED
  BY <1>2, <1>5, <1>6, <1>7, <1>8 DEF Good

\* The host is sent SYN1 when connected.
LEMMA HostReopens ==
    ASSUME NEW h, NEW r, NEW toH, NEW toR, Good(h, r, toH, toR),
           h.state = "CONNECTED"
    PROVE  Good(Connected(h), r, toH,
                toR \o (<<SynFrame("SYN2")>> \o ResentOnConnecting(h)))
<1>1. /\ Sound(h) /\ h \in EndpointState /\ toR \in Seq(LinkFrame)
      /\ 0 \in SFPseq /\ SFP_INITIAL_SEQ = 0
  BY SoundFields, ZeroSeq DEF Good, WellFormed
<1>2. PICK syn : syn = <<SynFrame("SYN2")>>
  OBVIOUS
<1>3. syn \in Seq(LinkFrame) /\ Good(h, r, toH, toR \o syn)
  BY <1>2, SynIs, HostConfirms
<1>4. CASE h.txSeq = 0
  <2>1. Connected(h) = h /\ ResentOnConnecting(h) = <<>>
    BY <1>1, <1>4 DEF Connected, ResentOnConnecting, EndpointState
  <2>2. syn \o <<>> = syn
    BY <1>3
  <2>. QED
    BY <1>2, <1>3, <2>1, <2>2
<1>5. CASE h.txSeq # 0
  <2>1. PICK h2, sent : h2 = Rewound(h, 0) /\ sent = Resent(h, 0)
    OBVIOUS
  <2>2. h2 \in EndpointState /\ h2.state = "CONNECTED" /\ sent \in Seq(LinkFrame)
    BY <1>1, <2>1, RewoundIs DEF Sound
  <2>3. Connected(h) = h2 /\ ResentOnConnecting(h) = sent
    BY <1>1, <1>5, <2>1, <2>2 DEF Connected, ResentOnConnecting, EndpointState
  <2>4. Good(h2, r, toH, (toR \o syn) \o sent)
    BY <1>1, <1>3, <2>1, HostRewinds
  <2>5. (toR \o syn) \o sent = toR \o (syn \o sent)
    BY <1>1, <1>3, <2>2, ConcatAssociative
  <2>. QED
    BY <1>2, <2>3, <2>4, <2>5
<1>. QED
  BY <1>4, <1>5

\* The robot is sent SYN2 when connected.
LEMMA RobotReopens ==
    ASSUME NEW h, NEW r, NEW toH, NEW toR, Good(h, r, toH, toR),
           r.state = "CONNECTED"
    PROVE  Good(h, Connected(r), toH \o ResentOnConnecting(r), toR)
<1>1. /\ Sound(r) /\ r \in EndpointState /\ toH \in Seq(LinkFrame)
      /\ 0 \in SFPseq /\ SFP_INITIAL_SEQ = 0
  BY SoundFields, ZeroSeq DEF Good, WellFormed
<1>2. CASE r.txSeq = 0
  <2>1. Connected(r) = r /\ ResentOnConnecting(r) = <<>>
    BY <1>1, <1>2 DEF Connected, ResentOnConnecting, EndpointState
  <2>2. toH \o <<>> = toH
    BY <1>1
  <2>. QED
    BY <2>1, <2>2
<1>3. CASE r.txSeq # 0
  <2>1. PICK r2, sent : r2 = Rewound(r, 0) /\ sent = Resent(r, 0)
    OBVIOUS
  <2>2. r2 \in EndpointState /\ r2.state = "CONNECTED"
    BY <1>1, <2>1, RewoundIs DEF Sound
  <2>3. Connected(r) = r2 /\ ResentOnConnecting(r) = sent
    BY <1>1, <1>3, <2>1, <2>2 DEF Connected, ResentOnConnecting, EndpointState
  <2>4. Good(h, r2, toH \o sent, toR)
    BY <1>1, <2>1, RobotRewinds
  <2>. QED
    BY <2>3, <2>4
<1>. QED
  BY <1>2, <1>3

\* The number after a number is one.
LEMMA NextSeqType == \A seq \in SFPseq : nextSeq(seq) \in SFPseq
<1>1. \A seq \in SFPseq : seq + 1 \in Int
  BY Sizes DEF SFPseq
<1>. QED
  BY <1>1, SeqType DEF nextSeq

\* What an endpoint is that has accepted a frame.
AcceptedBy(q, frame) ==
    [q EXCEPT !.rxSeq = nextSeq(@),
              !.delivered = IF frame.packet = PingPacket THEN @
                            ELSE Append(@, frame.packet)]

\* Accepting leaves an endpoint sound, and its transmitter alone.
LEMMA AcceptedIs ==
    ASSUME NEW q, Sound(q), NEW frame \in LinkFrame, Carries(frame)
    PROVE  /\ Sound(AcceptedBy(q, frame))
           /\ AcceptedBy(q, frame).state = q.state
           /\ AcceptedBy(q, frame).txSeq = q.txSeq
           /\ AcceptedBy(q, frame).history = q.history
           /\ AcceptedBy(q, frame).place = q.place
           /\ AcceptedBy(q, frame).session = q.session
           /\ AcceptedBy(q, frame).resynced = q.resynced
           /\ AcceptedBy(q, frame).rxSeq = nextSeq(q.rxSeq)
           /\ AcceptedBy(q, frame).delivered =
                 IF frame.packet = PingPacket THEN q.delivered
                 ELSE Append(q.delivered, frame.packet)
<1>1. /\ q \in EndpointState /\ q.delivered \in Seq(SessionPacket)
      /\ q.rxSeq \in SFPseq
  BY SoundFields
<1>2. frame.packet \in SessionPacket
  BY UserFields
<1>3. PICK got : got = IF frame.packet = PingPacket THEN q.delivered
                       ELSE Append(q.delivered, frame.packet)
  OBVIOUS
<1>4. got \in Seq(SessionPacket)
  <2>1. Append(q.delivered, frame.packet) \in Seq(SessionPacket)
    BY <1>1, <1>2, AppendProperties
  <2>2. CASE frame.packet = PingPacket
    BY <1>1, <1>3, <2>2
  <2>3. CASE frame.packet # PingPacket
    BY <1>3, <2>1, <2>3
  <2>. QED
    BY <2>2, <2>3
<1>5. nextSeq(q.rxSeq) \in SFPseq
  BY <1>1, NextSeqType
<1>6. PICK q2 : q2 = [q EXCEPT !.rxSeq = nextSeq(q.rxSeq), !.delivered = got]
  OBVIOUS
<1>7. AcceptedBy(q, frame) = q2
  BY <1>1, <1>3, <1>6 DEF AcceptedBy, EndpointState
<1>8. /\ q2 \in EndpointState /\ q2.state = q.state /\ q2.txSeq = q.txSeq
      /\ q2.history = q.history /\ q2.place = q.place
      /\ q2.session = q.session /\ q2.resynced = q.resynced
      /\ q2.rxSeq = nextSeq(q.rxSeq) /\ q2.delivered = got
  BY <1>1, <1>4, <1>5, <1>6 DEF EndpointState
<1>9. Sound(q2)
  BY <1>8 DEF Sound
<1>. QED
  BY <1>3, <1>7, <1>8, <1>9

\* The host accepts a packet.
LEMMA HostAccepts ==
    ASSUME NEW h, NEW r, NEW toH, NEW toR, Good(h, r, toH, toR),
           h.state = "CONNECTED", toH # <<>>, Carries(Head(toH)),
           Head(toH).seq = h.rxSeq
    PROVE  Good(AcceptedBy(h, Head(toH)), r, Tail(toH), toR)
<1>1. /\ Sound(h) /\ Sound(r) /\ r.session <= r.session
      /\ toH \in Seq(LinkFrame) /\ toR \in Seq(LinkFrame)
      /\ h.session <= h.session /\ r \in EndpointState /\ h \in EndpointState
      /\ Head(toH) \in LinkFrame
  BY SoundFields DEF Good, WellFormed
<1>2. Has(toH, UserTypes)
  BY <1>1, HeadThere DEF Carries, UserTypes
<1>3. PICK h2, toH2 : h2 = AcceptedBy(h, Head(toH)) /\ toH2 = Tail(toH)
  OBVIOUS
<1>4. /\ Sound(h2) /\ h2.state = "CONNECTED" /\ h2.txSeq = h.txSeq
      /\ h2.history = h.history /\ h2.place = h.place
      /\ h2.session = h.session /\ h2.resynced = h.resynced
      /\ h2.rxSeq = nextSeq(h.rxSeq)
      /\ h2.delivered = IF Head(toH).packet = PingPacket THEN h.delivered
                        ELSE Append(h.delivered, Head(toH).packet)
  BY <1>1, <1>3, AcceptedIs
<1>5. Heard(r, h, toH) /\ InOrderSoFar(h, r) /\ ~Has(toH, {"SYN0"})
  BY DEF Good, ToHost, WellFormed, Has
<1>6. Heard(r, h2, toH2) /\ InOrderSoFar(h2, r)
  BY <1>1, <1>3, <1>4, <1>5, HeardAccepts
<1>7. ~Has(toR, {"SYN0"}) /\ r.state # "SENT_SYN1"
  BY <1>2 DEF Good, RobotOpening, Fresh
<1>8. /\ toH2 \in Seq(LinkFrame) /\ ~Has(toH2, {"SYN0", "SYN2"})
  <2>1. toH2 \in Seq(LinkFrame) /\ Within(toH2, toH, Tracked)
    BY <1>1, <1>3, WithinTail
  <2>. QED
    BY <2>1, WithinHas DEF Good, WellFormed, Tracked
<1>9. WellFormed(h2, r, toH2, toR)
  BY <1>4, <1>8 DEF Good, WellFormed
<1>10. HostOpening(h2, r, toH2, toR) /\ RobotOpening(h2, r, toH2, toR)
  BY <1>4, <1>7 DEF HostOpening, RobotOpening
<1>11. ToHost(h2, r, toH2)
  BY <1>6 DEF ToHost
<1>12. ToRobot(h2, r, toR)
  <2>1. Within(toR, toR, StreamTypes)
    BY <1>1, WithinSelf
  <2>. QED
    BY <1>1, <1>4, <2>1, StreamQuiet DEF Good, ToRobot
<1>13. InOrderSoFar(r, h2)
  BY <1>1, <1>4, InOrderKept DEF Good
<1>. QED
  BY <1>3, <1>6, <1>9, <1>10, <1>11, <1>12, <1>13 DEF Good

\* The robot accepts a packet.
LEMMA RobotAccepts ==
    ASSUME NEW h, NEW r, NEW toH, NEW toR, Good(h, r, toH, toR),
           r.state = "CONNECTED", toR # <<>>, Carries(Head(toR)),
           Head(toR).seq = r.rxSeq
    PROVE  Good(h, AcceptedBy(r, Head(toR)), toH, Tail(toR))
<1>1. /\ Sound(h) /\ Sound(r) /\ r.session <= r.session
      /\ toH \in Seq(LinkFrame) /\ toR \in Seq(LinkFrame)
      /\ h.session <= h.session /\ r \in EndpointState /\ h \in EndpointState
      /\ Head(toR) \in LinkFrame
  BY SoundFields DEF Good, WellFormed
<1>2. Has(toR, UserTypes) /\ Has(toR, {"SYN2", "USR", "RTX"})
  BY <1>1, HeadThere DEF Carries, UserTypes
<1>3. PICK r2, toR2 : r2 = AcceptedBy(r, Head(toR)) /\ toR2 = Tail(toR)
  OBVIOUS
<1>4. /\ Sound(r2) /\ r2.state = "CONNECTED" /\ r2.txSeq = r.txSeq
      /\ r2.history = r.history /\ r2.place = r.place
      /\ r2.session = r.session /\ r2.resynced = r.resynced
      /\ r2.rxSeq = nextSeq(r.rxSeq)
      /\ r2.delivered = IF Head(toR).packet = PingPacket THEN r.delivered
                        ELSE Append(r.delivered, Head(toR).packet)
  BY <1>1, <1>3, AcceptedIs
<1>5. /\ ~Has(toR, {"SYN0"}) /\ h.state # "SENT_SYN0"
      /\ Streams(h, r, toR) /\ InOrderSoFar(r, h)
  BY <1>2 DEF Good, HostOpening, RobotOpening, ToRobot
<1>6. Streams(h, r2, toR2) /\ InOrderSoFar(r2, h)
  BY <1>1, <1>3, <1>4, <1>5, StreamAccepts DEF Sound
<1>7. toR2 \in Seq(LinkFrame) /\ Within(toR2, toR, Tracked)
  BY <1>1, <1>3, WithinTail
<1>8. ~Has(toR2, {"SYN0"})
  BY <1>5, <1>7, WithinHas DEF Tracked
<1>9. ~Has(toR2, {"SYN1"}) /\ NoneBehind(toR2, {"SYN0"}, {"SYN2"})
  BY <1>7, WithinHas, WithinOrder DEF Good, WellFormed, Tracked
<1>10. WellFormed(h, r2, toH, toR2)
  BY <1>4, <1>7, <1>9 DEF Good, WellFormed
<1>11. HostOpening(h, r2, toH, toR2) /\ RobotOpening(h, r2, toH, toR2)
  BY <1>4, <1>5, <1>8 DEF HostOpening, RobotOpening
<1>12. ToHost(h, r2, toH)
  <2>1. Within(toH, toH, StreamTypes)
    BY <1>1, WithinSelf
  <2>. QED
    BY <1>1, <1>4, <2>1, HeardQuiet DEF Good, ToHost
<1>13. ToRobot(h, r2, toR2)
  BY <1>6 DEF ToRobot
<1>14. InOrderSoFar(h, r2)
  BY <1>1, <1>4, InOrderKept DEF Good
<1>. QED
  BY <1>3, <1>6, <1>10, <1>11, <1>12, <1>13, <1>14 DEF Good
\* A packet is sent.
LEMMA UsrSent ==
    ASSUME NEW frames \in Seq(LinkFrame), NEW seq \in SFPseq,
           NEW packet \in SessionPacket
    PROVE  /\ Append(frames, UsrFrame(seq, packet)) \in Seq(LinkFrame)
           /\ \A types : UserTypes \cap types = {} =>
                 (Has(Append(frames, UsrFrame(seq, packet)), types)
                     <=> Has(frames, types))
           /\ \A types, marks :
                 NoneBehind(frames, types, marks)
                     /\ (Has(frames, marks) => UserTypes \cap types = {})
                 => NoneBehind(Append(frames, UsrFrame(seq, packet)), types, marks)
<1>1. PICK frame, sent, after :
        /\ frame = UsrFrame(seq, packet) /\ sent = <<frame>>
        /\ after = Append(frames, frame)
  OBVIOUS
<1>2. frame \in LinkFrame /\ frame.type = "USR"
  BY <1>1 DEF UsrFrame, LinkFrame
<1>3. after = frames \o sent
  BY <1>1, <1>2
<1>4. /\ sent \in Seq(LinkFrame)
      /\ \A types : Has(sent, types) <=> "USR" \in types
      /\ \A types, marks : NoneBehind(sent, types, marks)
  BY <1>1, <1>2, OneFrame
<1>5. /\ after \in Seq(LinkFrame)
      /\ \A types : Has(after, types) <=> Has(frames, types) \/ Has(sent, types)
  BY <1>3, <1>4, LongerHas
<1>6. ASSUME NEW types, UserTypes \cap types = {}
      PROVE  Has(after, types) <=> Has(frames, types)
  BY <1>4, <1>5, <1>6 DEF UserTypes
<1>7. ASSUME NEW types, NEW marks, NoneBehind(frames, types, marks),
             Has(frames, marks) => UserTypes \cap types = {}
      PROVE  NoneBehind(after, types, marks)
  <2>1. Has(frames, marks) => ~Has(sent, types)
    BY <1>4, <1>7 DEF UserTypes
  <2>2. NoneBehind(sent, types, marks)
    BY <1>4
  <2>. QED
    BY <1>3, <1>4, <1>7, <2>1, <2>2, LongerOrder
<1>. QED
  BY <1>1, <1>5, <1>6, <1>7

\* What an endpoint is that has written a packet.
WroteOne(p, packet, place) ==
    [p EXCEPT !.history = Remember(@, packet), !.txSeq = nextSeq(@),
              !.place = place]

\* Writing leaves an endpoint sound, and its receiver alone.
LEMMA WroteIs ==
    ASSUME NEW p, Sound(p), NEW packet \in SessionPacket,
           NEW place \in Nat
    PROVE  /\ Sound(WroteOne(p, packet, place))
           /\ WroteOne(p, packet, place).state = p.state
           /\ WroteOne(p, packet, place).txSeq = nextSeq(p.txSeq)
           /\ WroteOne(p, packet, place).rxSeq = p.rxSeq
           /\ WroteOne(p, packet, place).history = Remember(p.history, packet)
           /\ WroteOne(p, packet, place).place = place
           /\ WroteOne(p, packet, place).session = p.session
           /\ WroteOne(p, packet, place).resynced = p.resynced
           /\ WroteOne(p, packet, place).delivered = p.delivered
<1>1. /\ p \in EndpointState /\ p.history \in Seq(SessionPacket)
      /\ p.txSeq \in SFPseq /\ Len(p.history) <= HISTORY_CAPACITY
  BY SoundFields DEF Sound
<1>2. PICK longer : longer = Remember(p.history, packet)
  OBVIOUS
<1>3. longer \in Seq(SessionPacket) /\ Len(longer) <= HISTORY_CAPACITY
  BY <1>1, <1>2, RememberMore DEF Remembers
<1>4. nextSeq(p.txSeq) \in SFPseq
  BY <1>1, NextSeqType
<1>5. PICK p2 : p2 = [p EXCEPT !.history = longer, !.txSeq = nextSeq(p.txSeq),
                               !.place = place]
  OBVIOUS
<1>6. WroteOne(p, packet, place) = p2
  BY <1>1, <1>2, <1>5 DEF WroteOne, EndpointState
<1>7. /\ p2 \in EndpointState /\ p2.state = p.state
      /\ p2.txSeq = nextSeq(p.txSeq) /\ p2.rxSeq = p.rxSeq
      /\ p2.history = longer /\ p2.place = place /\ p2.session = p.session
      /\ p2.resynced = p.resynced /\ p2.delivered = p.delivered
  BY <1>1, <1>3, <1>4, <1>5 DEF EndpointState
<1>8. Sound(p2)
  BY <1>3, <1>7 DEF Sound
<1>. QED
  BY <1>2, <1>6, <1>7, <1>8

\* The packet an endpoint writes of its session.
NextOne(p, packet, place) ==
    /\ packet = [session |-> p.session, place |-> p.place]
    /\ place = p.place + 1

\* The host writes a packet, not a lap ahead if the robot may accept it.
LEMMA HostWrites ==
    ASSUME NEW h, NEW r, NEW toH, NEW toR, Good(h, r, toH, toR),
           h.state = "CONNECTED", NEW packet \in SessionPacket,
           NEW place \in Nat,
           \/ NextOne(h, packet, place)
           \/ packet = PingPacket /\ place = h.place,
           \/ Room(h, r)
           \/ h.session \in h.resynced
           \/ r.state \notin {"SENT_SYN1", "CONNECTED"} /\ ~Has(toR, {"SYN0"})
    PROVE  Good(WroteOne(h, packet, place), r, toH,
                Append(toR, UsrFrame(h.txSeq, packet)))
<1>1. /\ Sound(h) /\ Sound(r) /\ r.session <= r.session
      /\ toH \in Seq(LinkFrame) /\ toR \in Seq(LinkFrame)
      /\ h.session <= h.session /\ r \in EndpointState /\ h \in EndpointState
      /\ h.txSeq \in SFPseq
  BY SoundFields DEF Good, WellFormed
<1>2. PICK h2, after : /\ h2 = WroteOne(h, packet, place)
                       /\ after = Append(toR, UsrFrame(h.txSeq, packet))
  OBVIOUS
<1>3. /\ Sound(h2) /\ h2.state = "CONNECTED" /\ h2.txSeq = nextSeq(h.txSeq)
      /\ h2.rxSeq = h.rxSeq /\ h2.history = Remember(h.history, packet)
      /\ h2.place = place /\ h2.session = h.session
      /\ h2.resynced = h.resynced /\ h2.delivered = h.delivered
  <2>1. h2 = WroteOne(h, packet, place) /\ Sound(h)
    BY <1>1, <1>2
  <2>. QED
    BY ONLY <2>1, WroteIs, packet \in SessionPacket, place \in Nat, h.state = "CONNECTED"
<1>4. /\ after \in Seq(LinkFrame)
      /\ Has(after, {"SYN0"}) <=> Has(toR, {"SYN0"})
      /\ Has(after, {"SYN1"}) <=> Has(toR, {"SYN1"})
      /\ NoneBehind(toR, {"SYN0"}, {"SYN2"}) => NoneBehind(after, {"SYN0"}, {"SYN2"})
  BY <1>1, <1>2, UsrSent DEF UserTypes
<1>5. WellFormed(h2, r, toH, after)
  BY <1>3, <1>4 DEF Good, WellFormed
<1>6. HostOpening(h2, r, toH, after)
  BY <1>3 DEF HostOpening
<1>7. RobotOpening(h2, r, toH, after)
  BY <1>3, <1>4 DEF Good, RobotOpening, Fresh, Unused
<1>8. ToHost(h2, r, toH)
  <2>1. Within(toH, toH, StreamTypes)
    BY <1>1, WithinSelf
  <2>. QED
    BY <1>1, <1>3, <2>1, HeardQuiet DEF Good, ToHost
<1>9. ToRobot(h2, r, after)
  <2>1. ASSUME r.state \in {"SENT_SYN1", "CONNECTED"} \/ Has(toR, {"SYN0"})
        PROVE  Streams(h2, r, after)
    <3>1. Streams(h, r, toR)
      BY <2>1 DEF Good, ToRobot
    <3>2. h.session \notin h.resynced => Room(h, r)
      BY <2>1
    <3>3. h2 \in EndpointState
      BY <1>3 DEF Sound
    <3>. QED
      BY <1>1, <1>2, <1>3, <3>1, <3>2, <3>3, StreamWrites DEF NextOne
  <2>. QED
    BY <1>4, <2>1 DEF ToRobot
<1>10. InOrderSoFar(h2, r) /\ InOrderSoFar(r, h2)
  BY <1>1, <1>3, InOrderKept DEF Good
<1>. QED
  BY <1>2, <1>5, <1>6, <1>7, <1>8, <1>9, <1>10 DEF Good

\* The robot writes a packet, not a lap ahead if the host may accept it.
LEMMA RobotWrites ==
    ASSUME NEW h, NEW r, NEW toH, NEW toR, Good(h, r, toH, toR),
           r.state = "CONNECTED", NEW packet \in SessionPacket,
           NEW place \in Nat,
           NextOne(r, packet, place),
           \/ Room(r, h)
           \/ r.session \in r.resynced
           \/ h.state # "CONNECTED"
    PROVE  Good(h, WroteOne(r, packet, place),
                Append(toH, UsrFrame(r.txSeq, packet)), toR)
<1>1. /\ Sound(h) /\ Sound(r) /\ r.session <= r.session
      /\ toH \in Seq(LinkFrame) /\ toR \in Seq(LinkFrame)
      /\ h.session <= h.session /\ r \in EndpointState /\ h \in EndpointState
      /\ r.txSeq \in SFPseq
  BY SoundFields DEF Good, WellFormed
<1>2. PICK r2, after : /\ r2 = WroteOne(r, packet, place)
                       /\ after = Append(toH, UsrFrame(r.txSeq, packet))
  OBVIOUS
<1>3. /\ Sound(r2) /\ r2.state = "CONNECTED" /\ r2.txSeq = nextSeq(r.txSeq)
      /\ r2.rxSeq = r.rxSeq /\ r2.history = Remember(r.history, packet)
      /\ r2.place = place /\ r2.session = r.session
      /\ r2.resynced = r.resynced /\ r2.delivered = r.delivered
  <2>1. r2 = WroteOne(r, packet, place) /\ Sound(r)
    BY <1>1, <1>2
  <2>. QED
    BY ONLY <2>1, WroteIs, packet \in SessionPacket, place \in Nat, r.state = "CONNECTED"
<1>4. /\ after \in Seq(LinkFrame)
      /\ Has(after, {"SYN0", "SYN2"}) <=> Has(toH, {"SYN0", "SYN2"})
      /\ Has(after, {"SYN1"}) <=> Has(toH, {"SYN1"})
      /\ NoneBehind(toH, UserTypes, {"SYN1"}) /\ ~Has(toH, {"SYN1"})
            => NoneBehind(after, UserTypes, {"SYN1"})
  BY <1>1, <1>2, UsrSent DEF UserTypes
<1>5. h.state = "SENT_SYN0" => ~Has(toH, {"SYN1"})
  BY DEF Good, HostOpening
<1>6. WellFormed(h, r2, after, toR)
  BY <1>3, <1>4 DEF Good, WellFormed
<1>7. HostOpening(h, r2, after, toR)
  BY <1>3, <1>4, <1>5 DEF Good, HostOpening, Unused
<1>8. RobotOpening(h, r2, after, toR)
  BY <1>3 DEF Good, RobotOpening, Fresh
<1>9. ToHost(h, r2, after)
  <2>1. ASSUME h.state = "CONNECTED"
        PROVE  Heard(r2, h, after)
    <3>1. Heard(r, h, toH) /\ InOrderSoFar(h, r)
      BY <2>1 DEF Good, ToHost
    <3>2. CASE Streams(r, h, toH)
      <4>1. r.session \notin r.resynced => Room(r, h)
        BY <2>1
      <4>2. r2 \in EndpointState
        BY <1>3 DEF Sound
      <4>3. Streams(r2, h, after)
        BY <1>1, <1>2, <1>3, <3>2, <4>1, <4>2, StreamWrites DEF NextOne
      <4>. QED
        BY <4>3 DEF Heard
    <3>3. CASE GoesOn(r, h, toH)
      <4>1. /\ r.session \in r.resynced
            /\ \A i \in 1 .. Len(r.history) : r.history[i].session = r.session
        BY <3>3 DEF GoesOn
      <4>2. Remembers(r2.history, r.history, packet) /\ packet.session = r.session
        <5>1. r.history \in Seq(SessionPacket) /\ Len(r.history) <= HISTORY_CAPACITY
          BY <1>1, SoundFields DEF Sound
        <5>. QED
          BY <1>3, <5>1, RememberMore DEF NextOne
      <4>3. \A i \in 1 .. Len(r2.history) : r2.history[i].session = r.session
        <5>1. \A i \in 1 .. Len(r2.history) :
                 i \in 1 .. Len(r2.history) - 1 \/ i = Len(r2.history)
          BY <4>2 DEF Remembers
        <5>. QED
          BY <4>1, <4>2, <5>1 DEF Remembers
      <4>4. PICK frame, sent : frame = UsrFrame(r.txSeq, packet) /\ sent = <<frame>>
        OBVIOUS
      <4>5. /\ frame \in LinkFrame /\ Carries(frame) /\ frame.packet = packet
            /\ sent \in Seq(LinkFrame) /\ after = toH \o sent
            /\ Len(sent) = 1 /\ sent[1] = frame
        <5>1. frame \in LinkFrame /\ Carries(frame) /\ frame.packet = packet
          BY <1>1, <4>4 DEF UsrFrame, LinkFrame, Carries
        <5>. QED
          BY <1>1, <1>2, <4>4, <5>1
      <4>6. \A i \in 1 .. Len(sent) :
               Carries(sent[i]) /\ sent[i].packet.session = r.session
        <5>1. \A i \in 1 .. 1 : i = 1
          OBVIOUS
        <5>. QED
          BY <4>2, <4>5, <5>1
      <4>. QED
        BY <1>1, <1>3, <3>1, <4>1, <4>3, <4>5, <4>6, HeardLonger
    <3>. QED
      BY <3>1, <3>2, <3>3 DEF Heard
  <2>. QED
    BY <2>1 DEF ToHost
<1>10. ToRobot(h, r2, toR)
  <2>1. Within(toR, toR, StreamTypes)
    BY <1>1, WithinSelf
  <2>. QED
    BY <1>1, <1>3, <2>1, StreamQuiet DEF Good, ToRobot
<1>11. InOrderSoFar(h, r2) /\ InOrderSoFar(r2, h)
  BY <1>1, <1>3, InOrderKept DEF Good
<1>. QED
  BY <1>2, <1>6, <1>7, <1>8, <1>9, <1>10, <1>11 DEF Good

-----------------------------------------------------------------------------
(* A robot that is reset in a write.                                       *)

\* What is left of the robot p is p2.
LeftOver(p2, p, rx) ==
    /\ Sound(p2) /\ p2.state = "DISCONNECTED"
    /\ p2.rxSeq = rx /\ p2.history = <<>>
    /\ p2.session = p.session + 1
    /\ p2.resynced = p.resynced \cup {p.session + 1}
    /\ p2.delivered = p.delivered

LEMMA InterruptedIs ==
    ASSUME NEW p, Sound(p), NEW tx \in Nat, NEW rx \in SFPseq
    PROVE  LeftOver(Interrupted(p, tx, rx), p, rx)
<1>1. /\ p \in EndpointState /\ p.session \in Nat /\ p.resynced \in SUBSET Nat
      /\ \A s \in p.resynced : s <= p.session /\ s \in Nat
  BY SoundFields DEF Sound
<1>2. /\ 0 \in SFPseq /\ SFP_INITIAL_SEQ = 0 /\ tx % SEQ_RANGE \in SFPseq
      /\ <<>> \in Seq(SessionPacket) /\ Len(<<>>) = 0
      /\ p.session + 1 \in Nat
  BY <1>1, ZeroSeq, SeqType
<1>3. PICK p2 : p2 = Interrupted(p, tx, rx)
  OBVIOUS
<1>4. /\ p2 \in EndpointState /\ p2.state = "DISCONNECTED"
      /\ p2.rxSeq = rx /\ p2.history = <<>>
      /\ p2.session = p.session + 1
      /\ p2.resynced = p.resynced \cup {p.session + 1}
      /\ p2.delivered = p.delivered
  BY <1>1, <1>2, <1>3 DEF Interrupted, Restarted, EndpointState, SFPstate
<1>5. \A s \in p2.resynced : s <= p2.session
  BY <1>1, <1>4
<1>6. Sound(p2)
  BY <1>2, <1>4, <1>5, Sizes DEF Sound
<1>. QED
  BY <1>3, <1>4, <1>6 DEF LeftOver

\* A connected robot loses its session, whatever it makes of its counts.
LEMMA RobotInterrupts ==
    ASSUME NEW h, NEW r, NEW toH, NEW toR, Good(h, r, toH, toR),
           r.state = "CONNECTED",
           NEW r2, Sound(r2), r2.state = "DISCONNECTED",
           r2.session = r.session + 1, r.resynced \subseteq r2.resynced,
           r2.delivered = r.delivered
    PROVE  Good(h, r2, toH, toR)
<1>1. /\ Sound(h) /\ Sound(r) /\ h.session <= h.session
      /\ r.session \in Nat /\ r.session <= r2.session
      /\ toH \in Seq(LinkFrame) /\ toR \in Seq(LinkFrame)
  BY SoundFields DEF Good, WellFormed
<1>2. /\ h.state = "SENT_SYN0" => ~Has(toH, {"SYN1"})
      /\ Has(toR, {"SYN0"}) => h.state # "CONNECTED" /\ ~Has(toR, UserTypes)
  BY DEF Good, HostOpening, RobotOpening
<1>3. WellFormed(h, r2, toH, toR)
  BY DEF Good, WellFormed
<1>4. HostOpening(h, r2, toH, toR)
  BY <1>2 DEF Good, HostOpening, Unused
<1>5. RobotOpening(h, r2, toH, toR)
  BY <1>2 DEF RobotOpening
<1>6. ToHost(h, r2, toH)
  <2>1. Within(toH, toH, StreamTypes)
    BY <1>1, WithinSelf
  <2>. QED
    BY <1>1, <2>1, HeardQuiet DEF Good, ToHost
<1>7. ToRobot(h, r2, toR)
  BY <1>2 DEF ToRobot
<1>8. InOrderSoFar(h, r2) /\ InOrderSoFar(r2, h)
  BY <1>1, InOrderKept DEF Good
<1>. QED
  BY <1>3, <1>4, <1>5, <1>6, <1>7, <1>8 DEF Good

\* Frames of users on the line to the host.
LEMMA UsersSent ==
    ASSUME NEW frames \in Seq(LinkFrame), NEW sent \in Seq(LinkFrame),
           \A i \in 1 .. Len(sent) : Carries(sent[i])
    PROVE  /\ frames \o sent \in Seq(LinkFrame)
           /\ \A types : UserTypes \cap types = {} =>
                 (Has(frames \o sent, types) <=> Has(frames, types))
           /\ ~Has(frames, {"SYN1"}) =>
                 NoneBehind(frames \o sent, UserTypes, {"SYN1"})
<1>1. \A i \in 1 .. Len(sent) : sent[i].type \in UserTypes
  BY DEF Carries, UserTypes
<1>2. PICK after : after = frames \o sent
  OBVIOUS
<1>3. /\ after \in Seq(LinkFrame)
      /\ \A types : Has(after, types) <=> Has(frames, types) \/ Has(sent, types)
  BY <1>2, LongerHas
<1>4. \A types : UserTypes \cap types = {} => ~Has(sent, types)
  BY <1>1 DEF Has
<1>5. UserTypes \cap {"SYN1"} = {}
  BY DEF UserTypes
<1>6. ~Has(frames, {"SYN1"}) => NoneBehind(after, UserTypes, {"SYN1"})
  BY <1>3, <1>4, <1>5 DEF Has, NoneBehind
<1>. QED
  BY <1>2, <1>3, <1>4, <1>6

\* A disconnected robot goes on writing in a session nobody has agreed to.
LEMMA RobotGoesOn ==
    ASSUME NEW h, NEW r, NEW toH, NEW toR, Good(h, r, toH, toR),
           r.state = "DISCONNECTED", r.session \in r.resynced,
           NEW sent \in Seq(LinkFrame),
           \A i \in 1 .. Len(sent) :
              Carries(sent[i]) /\ sent[i].packet.session = r.session,
           NEW r2, Sound(r2), r2.state = "DISCONNECTED",
           r2.session = r.session, r2.resynced = r.resynced,
           r2.rxSeq = r.rxSeq, r2.delivered = r.delivered
    PROVE  Good(h, r2, toH \o sent, toR)
<1>1. /\ Sound(h) /\ Sound(r) /\ h.session <= h.session
      /\ r.session \in Nat /\ r.session <= r2.session
      /\ toH \in Seq(LinkFrame) /\ toR \in Seq(LinkFrame)
  BY SoundFields DEF Good, WellFormed
<1>2. /\ h.state = "SENT_SYN0" => ~Has(toH, {"SYN1"})
      /\ Has(toR, {"SYN0"}) => h.state # "CONNECTED"
  BY DEF Good, HostOpening, RobotOpening, Fresh, Unused
<1>3. PICK after : after = toH \o sent
  OBVIOUS
<1>4. /\ after \in Seq(LinkFrame)
      /\ Has(after, {"SYN0", "SYN2"}) <=> Has(toH, {"SYN0", "SYN2"})
      /\ Has(after, {"SYN1"}) <=> Has(toH, {"SYN1"})
      /\ ~Has(toH, {"SYN1"}) => NoneBehind(after, UserTypes, {"SYN1"})
  BY <1>1, <1>3, UsersSent DEF UserTypes
<1>5. WellFormed(h, r2, after, toR)
  BY <1>4 DEF Good, WellFormed
<1>6. HostOpening(h, r2, after, toR)
  BY <1>2, <1>4 DEF Good, HostOpening, Unused
<1>7. RobotOpening(h, r2, after, toR)
  BY <1>2 DEF RobotOpening
<1>8. ToHost(h, r2, after)
  <2>1. r.resynced \subseteq r2.resynced
    OBVIOUS
  <2>2. ASSUME h.state = "CONNECTED"
        PROVE  Heard(r2, h, after)
    <3>1. Heard(r, h, toH) /\ InOrderSoFar(h, r)
      BY <2>2 DEF Good, ToHost
    <3>. QED
      BY <1>1, <1>3, <2>1, <3>1, HeardLonger
  <2>. QED
    BY <2>2 DEF ToHost
<1>9. ToRobot(h, r2, toR)
  <2>1. Within(toR, toR, StreamTypes)
    BY <1>1, WithinSelf
  <2>. QED
    BY <1>1, <2>1, StreamQuiet DEF Good, ToRobot
<1>10. InOrderSoFar(h, r2) /\ InOrderSoFar(r2, h)
  BY <1>1, InOrderKept DEF Good
<1>. QED
  BY <1>3, <1>5, <1>6, <1>7, <1>8, <1>9, <1>10 DEF Good

\* A connected robot is reset in the last write of a handshake, and connected
\* after it.
LEMMA RobotResumes ==
    ASSUME NEW h, NEW r, NEW toH, NEW toR, Good(h, r, toH, toR),
           r.state = "CONNECTED", h.state # "SENT_SYN0", ~Has(toR, {"SYN0"}),
           NEW r2, Sound(r2), r2.state = "DISCONNECTED",
           r2.session = r.session + 1, r.resynced \subseteq r2.resynced,
           r2.session \in r2.resynced, r2.history = <<>>,
           r2.delivered = r.delivered,
           NEW sent \in Seq(LinkFrame),
           \A i \in 1 .. Len(sent) :
              Carries(sent[i]) /\ sent[i].packet.session = r2.session
    PROVE  Good(Shifted(h), [r2 EXCEPT !.state = "CONNECTED"], toH \o sent, toR)
<1>1. /\ Sound(h) /\ Sound(r)
      /\ h \in EndpointState /\ r2 \in EndpointState
      /\ h.session \in Nat /\ r.session \in Nat /\ r.session <= r2.session
      /\ h.resynced \in SUBSET Nat
      /\ toH \in Seq(LinkFrame) /\ toR \in Seq(LinkFrame)
  BY SoundFields DEF Good, WellFormed
<1>2. PICK h2, r3, after :
        /\ h2 = Shifted(h) /\ r3 = [r2 EXCEPT !.state = "CONNECTED"]
        /\ after = toH \o sent
  OBVIOUS
<1>3. /\ Sound(h2) /\ h2 \in EndpointState
      /\ h2.state = h.state /\ h2.txSeq = h.txSeq
      /\ h2.rxSeq = h.rxSeq /\ h2.history = h.history /\ h2.place = h.place
      /\ h2.session = h.session /\ h2.delivered = h.delivered
      /\ h.resynced \subseteq h2.resynced
      /\ \A s \in Nat : s <= h.session => s \in h2.resynced
  <2>1. PICK shifted : shifted = h.resynced \cup 0 .. h.session
    OBVIOUS
  <2>2. /\ shifted \in SUBSET Nat /\ h.resynced \subseteq shifted
        /\ \A s \in shifted : s <= h.session
        /\ \A s \in Nat : s <= h.session => s \in shifted
    BY <1>1, <2>1 DEF Sound
  <2>3. /\ h2 \in EndpointState
        /\ h2.state = h.state /\ h2.txSeq = h.txSeq
        /\ h2.rxSeq = h.rxSeq /\ h2.history = h.history /\ h2.place = h.place
        /\ h2.session = h.session /\ h2.delivered = h.delivered
        /\ h2.resynced = shifted
    BY <1>1, <1>2, <2>1, <2>2 DEF Shifted, EndpointState
  <2>. QED
    BY <1>1, <2>2, <2>3 DEF Sound
<1>4. /\ Sound(r3) /\ r3 \in EndpointState /\ r3.state = "CONNECTED"
      /\ r3.session = r2.session /\ r3.resynced = r2.resynced
      /\ r3.history = <<>> /\ r3.delivered = r2.delivered
  <2>1. /\ r3 \in EndpointState /\ r3.state = "CONNECTED"
        /\ r3.session = r2.session /\ r3.resynced = r2.resynced
        /\ r3.history = r2.history /\ r3.delivered = r2.delivered
    BY <1>1, <1>2 DEF EndpointState, SFPstate
  <2>. QED
    BY <2>1 DEF Sound
<1>5. /\ after \in Seq(LinkFrame)
      /\ Has(after, {"SYN0", "SYN2"}) <=> Has(toH, {"SYN0", "SYN2"})
  BY <1>1, <1>2, UsersSent DEF UserTypes
<1>6. WellFormed(h2, r3, after, toR)
  BY <1>3, <1>4, <1>5 DEF Good, WellFormed
<1>7. HostOpening(h2, r3, after, toR)
  BY <1>3 DEF HostOpening
<1>8. RobotOpening(h2, r3, after, toR)
  BY <1>4 DEF RobotOpening
<1>9. InOrderSoFar(h, r2) /\ InOrderSoFar(r2, h)
  <2>1. h.session <= h.session
    BY <1>1
  <2>. QED
    BY <1>1, <2>1, InOrderKept DEF Good
<1>10. ToHost(h2, r3, after)
  <2>1. ASSUME h2.state = "CONNECTED"
        PROVE  Heard(r3, h2, after)
    <3>1. Heard(r, h, toH) /\ Within(toH, toH, StreamTypes)
      BY <1>1, <1>3, <2>1, WithinSelf DEF Good, ToHost
    <3>2. Heard(r2, h2, toH)
      BY <1>1, <1>3, <3>1, HeardQuiet
    <3>3. InOrderSoFar(h2, r2)
      BY <1>3, <1>9 DEF InOrderSoFar
    <3>4. \A i \in 1 .. Len(r3.history) : r3.history[i].session = r3.session
      BY <1>4
    <3>5. r2.resynced \subseteq r3.resynced
      BY <1>4
    <3>. QED
      BY <1>1, <1>2, <1>3, <1>4, <3>2, <3>3, <3>4, <3>5, HeardLonger
  <2>. QED
    BY <2>1 DEF ToHost
<1>11. ToRobot(h2, r3, toR)
  <2>1. ASSUME h2.state = "CONNECTED" \/ Has(toR, UserTypes)
        PROVE  Streams(h2, r3, toR)
    <3>1. Streams(h, r, toR)
      BY <1>3, <2>1 DEF Good, ToRobot
    <3>2. PICK s \in Nat \ {0} :
             /\ s <= h.session
             /\ h.state = "CONNECTED" =>
                   /\ s = h.session
                   /\ \A i \in 1 .. Len(h.history) : OfStream(h.history[i], s)
             /\ \A i \in 1 .. Len(toR) :
                   Carries(toR[i]) => OfStream(toR[i].packet, s)
             /\ \A i \in 1 .. Len(r.delivered) : r.delivered[i].session <= s
      BY <3>1 DEF Streams
    <3>3. s \in h2.resynced
      BY <1>3, <3>2
    <3>. QED
      BY <1>3, <1>4, <3>2, <3>3 DEF Streams
  <2>. QED
    BY <2>1 DEF ToRobot
<1>12. InOrderSoFar(h2, r3) /\ InOrderSoFar(r3, h2)
  BY <1>3, <1>4, <1>9 DEF InOrderSoFar
<1>. QED
  BY <1>2, <1>6, <1>7, <1>8, <1>10, <1>11, <1>12 DEF Good

\* What is sent in a loop that a reset breaks: frames that belong there, and
\* what the ring holds, as packets of the session that begins.
LEMMA BrokenIs ==
    ASSUME NEW p, Sound(p), NEW seq \in SFPseq, NEW some \in DOMAIN Resent(p, seq)
    PROVE  \E sound, junk \in Seq(LinkFrame) :
              /\ ResentWithBreak(p, seq, some) = sound \o junk
              /\ sound = SubSeq(Resent(p, seq), 1, some)
              /\ \A i \in 1 .. Len(junk) :
                    Carries(junk[i]) /\ junk[i].packet.session = p.session + 1
<1>1. PICK all, after : all = Resent(p, seq) /\ after = ResentWithBreak(p, seq, some)
  OBVIOUS
<1>2. all \in Seq(LinkFrame)
  BY <1>1, RewoundIs
<1>3. some \in 1 .. Len(all) /\ Len(all) \in Nat
  BY <1>1, <1>2
<1>0. PICK m \in Nat : m = Len(all) - some
  BY <1>3
<1>. DEFINE packet == [session |-> p.session + 1, place |-> 0]
<1>. DEFINE sound == SubSeq(all, 1, some)
<1>. DEFINE junk == [i \in 1 .. m |-> RtxFrame(i % SEQ_RANGE, packet)]
<1>4. /\ sound \in Seq(LinkFrame) /\ Len(sound) = some
      /\ \A i \in 1 .. some : sound[i] = all[i]
  <2>1. \A i \in 1 .. some : all[i] \in LinkFrame
    BY <1>2, <1>3
  <2>2. 1 \in Int /\ some \in Int /\ some - 1 + 1 = some
    BY <1>3
  <2>. QED
    BY <1>2, <1>3, <2>1, SubSeqProperties
<1>5. packet \in SessionPacket /\ packet.session = p.session + 1
  BY SoundFields DEF SessionPacket
<1>. HIDE DEF packet
<1>6. \A i \in 1 .. m :
         /\ RtxFrame(i % SEQ_RANGE, packet) \in LinkFrame
         /\ Carries(RtxFrame(i % SEQ_RANGE, packet))
         /\ RtxFrame(i % SEQ_RANGE, packet).packet = packet
  BY <1>3, <1>5, SeqType DEF RtxFrame, LinkFrame, Carries
<1>7. /\ junk \in Seq(LinkFrame) /\ Len(junk) = Len(all) - some
      /\ \A i \in 1 .. Len(junk) : junk[i] = RtxFrame(i % SEQ_RANGE, packet)
  <2>1. junk \in Seq(LinkFrame) /\ Len(junk) = m
    BY <1>6
  <2>. QED
    BY <1>0, <2>1
<1>. HIDE DEF sound, junk
<1>8. after = sound \o junk
  <2>1. PICK joined : joined = sound \o junk
    OBVIOUS
  <2>2. /\ joined \in Seq(LinkFrame)
        /\ Len(joined) = Len(all)
        /\ \A i \in 1 .. Len(all) :
              joined[i] = IF i <= some THEN sound[i] ELSE junk[i - some]
    BY <1>3, <1>4, <1>7, <2>1, ConcatProperties
  <2>3. after = [i \in 1 .. Len(all) |->
                    IF i <= some THEN all[i]
                    ELSE RtxFrame((i - some) % SEQ_RANGE, packet)]
    <3>1. DOMAIN all = 1 .. Len(all)
      BY <1>2
    <3>. QED
      BY <1>1, <3>1 DEF ResentWithBreak, packet
  <2>4. ASSUME NEW i \in 1 .. Len(all)
        PROVE  joined[i] = after[i]
    <3>1. CASE i <= some
      <4>1. i \in 1 .. some
        BY <1>3, <3>1
      <4>. QED
        BY <1>4, <2>2, <2>3, <3>1, <4>1
    <3>2. CASE ~(i <= some)
      <4>1. i - some \in 1 .. Len(junk)
        BY <1>3, <1>7, <3>2
      <4>2. joined[i] = junk[i - some]
        BY <2>2, <3>2
      <4>. QED
        BY <1>7, <2>3, <3>2, <4>1, <4>2
    <3>. QED
      BY <3>1, <3>2
  <2>5. Len(after) = Len(all) /\ after \in Seq(LinkFrame)
    <3>1. \A i \in 1 .. Len(all) : after[i] \in LinkFrame
      BY <2>2, <2>4
    <3>. QED
      BY <1>3, <2>3, <3>1
  <2>. QED
    BY <2>1, <2>2, <2>4, <2>5, SeqEqual
<1>. QED
  <2>1. sound = SubSeq(Resent(p, seq), 1, some)
    BY <1>1 DEF sound
  <2>2. \A i \in 1 .. Len(junk) :
           Carries(junk[i]) /\ junk[i].packet.session = p.session + 1
    BY <1>0, <1>5, <1>6, <1>7
  <2>. QED
    BY <1>1, <1>4, <1>7, <1>8, <2>1, <2>2

\* The robot has sent the first of its history again.
LEMMA RobotBegins ==
    ASSUME NEW h, NEW r, NEW toH, NEW toR, Good(h, r, toH, toR),
           r.state = "CONNECTED", NEW seq \in SFPseq,
           NEW some \in DOMAIN Resent(r, seq)
    PROVE  Good(h, Rewound(r, seq), toH \o SubSeq(Resent(r, seq), 1, some), toR)
<1>1. Good(h, Rewound(r, seq), toH \o Resent(r, seq), toR)
  BY RobotRewinds
<1>2. Sound(r) /\ toH \in Seq(LinkFrame) /\ toR \in Seq(LinkFrame)
  BY DEF Good, WellFormed
<1>3. PICK all, first : all = Resent(r, seq) /\ first = SubSeq(all, 1, some)
  OBVIOUS
<1>4. all \in Seq(LinkFrame)
  BY <1>2, <1>3, RewoundIs
<1>5. some \in 1 .. Len(all) /\ Len(all) \in Nat
  BY <1>3, <1>4
<1>6. /\ first \in Seq(LinkFrame) /\ Len(first) = some
      /\ \A i \in 1 .. some : first[i] = all[i]
  <2>1. \A i \in 1 .. some : all[i] \in LinkFrame
    BY <1>4, <1>5
  <2>2. 1 \in Int /\ some \in Int /\ some - 1 + 1 = some
    BY <1>5
  <2>. QED
    BY <1>3, <1>4, <1>5, <2>1, <2>2, SubSeqProperties
<1>7. PICK long, short : long = toH \o all /\ short = toH \o first
  OBVIOUS
<1>8. /\ long \in Seq(LinkFrame) /\ Len(long) = Len(toH) + Len(all)
      /\ short \in Seq(LinkFrame) /\ Len(short) = Len(toH) + some
      /\ Len(toH) \in Nat
      /\ \A i \in 1 .. Len(long) :
            long[i] = IF i <= Len(toH) THEN toH[i] ELSE all[i - Len(toH)]
      /\ \A i \in 1 .. Len(short) :
            short[i] = IF i <= Len(toH) THEN toH[i] ELSE first[i - Len(toH)]
  BY <1>2, <1>4, <1>5, <1>6, <1>7, ConcatProperties
<1>9. Within(short, long, Tracked)
  <2>. DEFINE from == [i \in 1 .. Len(short) |-> i]
  <2>1. from \in [1 .. Len(short) -> Int] /\ \A i \in 1 .. Len(short) : from[i] = i
    OBVIOUS
  <2>. HIDE DEF from
  <2>2. ASSUME NEW i \in 1 .. Len(short)
        PROVE  i \in 1 .. Len(long) /\ short[i] = long[i]
    <3>1. i \in 1 .. Len(long)
      BY <1>5, <1>8
    <3>2. CASE i <= Len(toH)
      BY <1>8, <3>1, <3>2
    <3>3. CASE ~(i <= Len(toH))
      <4>1. i - Len(toH) \in 1 .. some
        BY <1>5, <1>8, <3>3
      <4>. QED
        BY <1>6, <1>8, <3>1, <3>3, <4>1
    <3>. QED
      BY <3>1, <3>2, <3>3
  <2>. QED
    BY <2>1, <2>2 DEF Within
<1>10. Within(toR, toR, Tracked)
  BY <1>2, WithinSelf
<1>11. Good(h, Rewound(r, seq), short, toR)
  BY <1>1, <1>2, <1>3, <1>7, <1>8, <1>9, <1>10, Quiet
<1>. QED
  BY <1>3, <1>7, <1>11

\* The robot is reset while it sends its history again: it falls, or resumes
\* if that was to complete a handshake.
LEMMA RobotBreaks ==
    ASSUME NEW h, NEW r, NEW toH, NEW toR, Good(h, r, toH, toR),
           r.state = "CONNECTED", NEW seq \in SFPseq,
           NEW some \in DOMAIN Resent(r, seq)
    PROVE  /\ Good(h, AfterBreak(r, seq, some),
                   toH \o ResentWithBreak(r, seq, some), toR)
           /\ h.state # "SENT_SYN0" /\ ~Has(toR, {"SYN0"}) =>
                 Good(Shifted(h), [AfterBreak(r, seq, some) EXCEPT !.state = "CONNECTED"],
                      toH \o ResentWithBreak(r, seq, some), toR)
<1>1. Sound(r) /\ toH \in Seq(LinkFrame)
  BY DEF Good, WellFormed
<1>2. PICK sound, junk \in Seq(LinkFrame) :
         /\ ResentWithBreak(r, seq, some) = sound \o junk
         /\ sound = SubSeq(Resent(r, seq), 1, some)
         /\ \A i \in 1 .. Len(junk) :
               Carries(junk[i]) /\ junk[i].packet.session = r.session + 1
  BY <1>1, BrokenIs
<1>3. PICK first, begun, rest :
         /\ first = toH \o sound /\ begun = Rewound(r, seq)
         /\ rest = AfterBreak(r, seq, some)
  OBVIOUS
<1>4. Good(h, begun, first, toR)
  BY <1>2, <1>3, RobotBegins
<1>5. /\ Sound(begun) /\ begun.state = "CONNECTED"
      /\ begun.session = r.session
  BY <1>1, <1>3, RewoundIs
<1>6. Len(Resent(r, seq)) - some + 1 \in Nat /\ SFP_INITIAL_SEQ \in SFPseq
  <2>1. Resent(r, seq) \in Seq(LinkFrame)
    BY <1>1, RewoundIs
  <2>2. some \in 1 .. Len(Resent(r, seq)) /\ Len(Resent(r, seq)) \in Nat
    BY <2>1
  <2>. QED
    BY <2>2, ZeroSeq
<1>7. /\ Sound(rest) /\ rest.state = "DISCONNECTED" /\ rest.history = <<>>
      /\ rest.session = begun.session + 1
      /\ rest.resynced = begun.resynced \cup {begun.session + 1}
      /\ rest.delivered = begun.delivered
  <2>1. PICK tx \in Nat : tx = Len(Resent(r, seq)) - some + 1
    BY <1>6
  <2>2. rest = Interrupted(begun, tx, SFP_INITIAL_SEQ)
    BY <1>3, <2>1 DEF AfterBreak
  <2>3. PICK rx \in SFPseq : rx = SFP_INITIAL_SEQ
    BY <1>6
  <2>4. rest = Interrupted(begun, tx, rx)
    BY <2>2, <2>3
  <2>5. LeftOver(Interrupted(begun, tx, rx), begun, rx)
    BY ONLY <1>5, tx \in Nat, rx \in SFPseq, InterruptedIs
  <2>. QED
    BY <2>4, <2>5 DEF LeftOver
<1>8. begun.resynced \subseteq rest.resynced /\ rest.session \in rest.resynced
  BY <1>7
<1>9. \A i \in 1 .. Len(junk) :
         Carries(junk[i]) /\ junk[i].packet.session = rest.session
  BY <1>2, <1>5, <1>7
<1>10. toH \o ResentWithBreak(r, seq, some) = first \o junk
  <2>1. toH \o (sound \o junk) = (toH \o sound) \o junk
    BY ONLY <1>1, sound \in Seq(LinkFrame), junk \in Seq(LinkFrame),
            ConcatAssociative
  <2>. QED
    BY <1>2, <1>3, <2>1
<1>11. Good(h, rest, first \o junk, toR)
  <2>1. Good(h, rest, first, toR)
    BY <1>4, <1>5, <1>7, <1>8, RobotInterrupts
  <2>. QED
    BY <1>2, <1>7, <1>8, <1>9, <2>1, RobotGoesOn
<1>12. ASSUME h.state # "SENT_SYN0", ~Has(toR, {"SYN0"})
       PROVE  Good(Shifted(h), [rest EXCEPT !.state = "CONNECTED"], first \o junk, toR)
  BY <1>2, <1>4, <1>5, <1>7, <1>8, <1>9, <1>12, RobotResumes
<1>. QED
  BY <1>3, <1>10, <1>11, <1>12

-----------------------------------------------------------------------------
(* The steps of the link.                                                  *)

\* What belongs to the host, and what to the robot.
Both(x, y) == [e \in Endpoint |-> IF e = "host" THEN x ELSE y]

\* What a robot is that was reset in a write which is not over.
Falling(p) == p.state = "DISCONNECTED" /\ p.session \in p.resynced

\* The inductive invariant of the link.
LinkInv ==
    \E h, r, toH, toR :
        /\ ep = Both(h, r) /\ line = Both(toH, toR)
        /\ Good(h, r, toH, toR)
        /\ unwinding => Falling(r)

\* Either is there, and may be replaced.
LEMMA BothIs ==
    ASSUME NEW x, NEW y
    PROVE  /\ Both(x, y)["host"] = x /\ Both(x, y)["robot"] = y
           /\ \A z : [Both(x, y) EXCEPT !["host"] = z] = Both(z, y)
           /\ \A z : [Both(x, y) EXCEPT !["robot"] = z] = Both(x, z)
           /\ Peer("host") = "robot" /\ Peer("robot") = "host"
BY DEF Both, Endpoint, Peer

\* The frame that arrived is taken from its line, and answers are sent.
LEMMA RepliesAre ==
    ASSUME NEW toH, NEW toR, line = Both(toH, toR), NEW frames
    PROVE  /\ Replies("host", frames) =>
                  /\ line' = Both(Tail(toH), toR \o frames)
                  /\ unwinding' => unwinding
           /\ Replies("robot", frames) =>
                  line' = Both(toH \o frames, Tail(toR)) /\ ~unwinding'
<1>1. ASSUME Replies("host", frames)
      PROVE  line' = Both(Tail(toH), toR \o frames) /\ (unwinding' => unwinding)
  <2>1. line' = [line EXCEPT !["host"] = Tail(@), !["robot"] = @ \o frames]
    BY <1>1, BothIs DEF Replies
  <2>2. (unwinding' => unwinding)
    BY <1>1 DEF Replies
  <2>. QED
    BY <2>1, <2>2 DEF Both, Endpoint
<1>2. ASSUME Replies("robot", frames)
      PROVE  line' = Both(toH \o frames, Tail(toR)) /\ ~unwinding'
  <2>1. line' = [line EXCEPT !["robot"] = Tail(@), !["host"] = @ \o frames]
    BY <1>2, BothIs DEF Replies
  <2>2. ~unwinding'
    BY <1>2 DEF Replies
  <2>. QED
    BY <2>1, <2>2 DEF Both, Endpoint
<1>. QED
  BY <1>1, <1>2

LEMMA AnswerIs ==
    ASSUME NEW toH, NEW toR, line = Both(toH, toR), NEW frames
    PROVE  /\ Answer("host", frames) => line' = Both(Tail(toH), toR \o frames)
           /\ Answer("robot", frames) => line' = Both(toH \o frames, Tail(toR))
BY RepliesAre DEF Answer

\* Nothing depends on the frame that has left a line.
LEMMA Arrived ==
    ASSUME NEW h, NEW r, NEW toH, NEW toR, Good(h, r, toH, toR)
    PROVE  /\ toH # <<>> => Good(h, r, Tail(toH), toR)
           /\ toR # <<>> => Good(h, r, toH, Tail(toR))
           /\ toH \o <<>> = toH /\ toR \o <<>> = toR
<1>1. toH \in Seq(LinkFrame) /\ toR \in Seq(LinkFrame)
  BY DEF Good, WellFormed
<1>2. Within(toH, toH, Tracked) /\ Within(toR, toR, Tracked)
  BY <1>1, WithinSelf
<1>3. toH # <<>> => Good(h, r, Tail(toH), toR)
  BY <1>1, <1>2, WithinTail, Quiet
<1>4. toR # <<>> => Good(h, r, toH, Tail(toR))
  BY <1>1, <1>2, WithinTail, Quiet
<1>. QED
  BY <1>1, <1>3, <1>4

\* A frame that tells of nothing is sent.
LEMMA Remark ==
    ASSUME NEW h, NEW r, NEW toH, NEW toR, Good(h, r, toH, toR),
           NEW frame \in LinkFrame, frame.type \notin Tracked
    PROVE  Good(h, r, toH \o <<frame>>, toR) /\ Good(h, r, toH, toR \o <<frame>>)
<1>1. PICK sent : sent = <<frame>>
  OBVIOUS
<1>2. sent \in Seq(LinkFrame) /\ Len(sent) = 1 /\ sent[1] = frame
  BY <1>1
<1>3. \A i \in 1 .. Len(sent) : sent[i].type \notin Tracked
  <2>1. \A i \in 1 .. 1 : i = 1
    OBVIOUS
  <2>. QED
    BY <1>2, <2>1
<1>. QED
  BY <1>1, <1>2, <1>3, Noise

\* An endpoint asks for the number it expects.
LEMMA NakSent ==
    ASSUME NEW h, NEW r, NEW toH, NEW toR, Good(h, r, toH, toR)
    PROVE  /\ Good(h, r, toH, toR \o <<NakFrame(h.rxSeq)>>)
           /\ Good(h, r, toH \o <<NakFrame(r.rxSeq)>>, toR)
<1>1. h.rxSeq \in SFPseq /\ r.rxSeq \in SFPseq
  BY SoundFields DEF Good, WellFormed
<1>2. \A seq \in SFPseq :
         NakFrame(seq) \in LinkFrame /\ NakFrame(seq).type \notin Tracked
  BY DEF NakFrame, LinkFrame, Tracked
<1>. QED
  BY <1>1, <1>2, Remark

\* An endpoint says that it is not connected.
LEMMA DisSent ==
    ASSUME NEW h, NEW r, NEW toH, NEW toR, Good(h, r, toH, toR)
    PROVE  /\ Good(h, r, toH \o <<SynFrame("DIS")>>, toR)
           /\ Good(h, r, toH, toR \o <<SynFrame("DIS")>>)
<1>1. SynFrame("DIS") \in LinkFrame /\ SynFrame("DIS").type \notin Tracked
  BY DEF SynFrame, LinkFrame, Tracked
<1>. QED
  BY <1>1, Remark

\* An endpoint that is not connected says where it is in the handshake.
LEMMA ReminderSent ==
    ASSUME NEW h, NEW r, NEW toH, NEW toR, Good(h, r, toH, toR)
    PROVE  /\ h.state # "CONNECTED" => Good(h, r, toH, toR \o <<Reminder(h)>>)
           /\ r.state # "CONNECTED" => Good(h, r, toH \o <<Reminder(r)>>, toR)
<1>1. /\ h.state \in {"DISCONNECTED", "SENT_SYN0", "CONNECTED"}
      /\ r.state \in {"DISCONNECTED", "SENT_SYN1", "CONNECTED"}
  BY DEF Good, WellFormed
<1>2. /\ h.state = "DISCONNECTED" => Reminder(h) = SynFrame("DIS")
      /\ h.state = "SENT_SYN0" => Reminder(h) = SynFrame("SYN0")
      /\ r.state = "DISCONNECTED" => Reminder(r) = SynFrame("DIS")
      /\ r.state = "SENT_SYN1" => Reminder(r) = SynFrame("SYN1")
  BY DEF Reminder
<1>3. h.state # "CONNECTED" => Good(h, r, toH, toR \o <<Reminder(h)>>)
  <2>1. CASE h.state = "DISCONNECTED"
    BY <1>2, <2>1, DisSent
  <2>2. CASE h.state = "SENT_SYN0"
    BY <1>2, <2>2, HostReminds
  <2>. QED
    BY <1>1, <2>1, <2>2
<1>4. r.state # "CONNECTED" => Good(h, r, toH \o <<Reminder(r)>>, toR)
  <2>1. CASE r.state = "DISCONNECTED"
    BY <1>2, <2>1, DisSent
  <2>2. CASE r.state = "SENT_SYN1"
    BY <1>2, <2>2, RobotReminds
  <2>. QED
    BY <1>1, <2>1, <2>2
<1>. QED
  BY <1>3, <1>4

\* Where a step leads.
LEMMA Reached ==
    ASSUME NEW h, NEW r, NEW toH, NEW toR, Good(h, r, toH, toR),
           ep' = Both(h, r), line' = Both(toH, toR),
           unwinding' => Falling(r)
    PROVE  LinkInv'
BY DEF LinkInv

\* What arrives first carries a number if it is a NAK.
LEMMA NakNumber ==
    ASSUME NEW frames \in Seq(LinkFrame), frames # <<>>,
           Head(frames).type \in {"NAK"}
    PROVE  Head(frames).seq \in SFPseq
<1>1. Head(frames) \in LinkFrame
  BY HeadTailProperties
<1>. QED
  BY <1>1 DEF LinkFrame, Bad

\* Whatever arrives at the host, the link is as it should be.
LEMMA HostReceives ==
    ASSUME NEW h, NEW r, NEW toH, NEW toR,
           ep = Both(h, r), line = Both(toH, toR), Good(h, r, toH, toR),
           unwinding => Falling(r), Receive("host")
    PROVE  LinkInv'
<1>1. /\ ep["host"] = h /\ line["host"] = toH
      /\ \A x : [ep EXCEPT !["host"] = x] = Both(x, r)
      /\ toH \in Seq(LinkFrame) /\ h \in EndpointState
      /\ h.state \in {"DISCONNECTED", "SENT_SYN0", "CONNECTED"}
      /\ ~Has(toH, {"SYN0", "SYN2"})
  BY BothIs, SoundFields DEF Good, WellFormed
<1>0. unwinding' => Falling(r)
  <2>1. \A frames : Answer("host", frames) => (unwinding' => Falling(r))
    BY RepliesAre DEF Answer
  <2>. QED
    BY <2>1 DEF Receive, HandleBad, HandleSYN0, HandleSYN1, HandleSYN2,
                HandleDIS, HandleNAK, RefuseUSR, AcceptUSR
<1>2. \A frames : Answer("host", frames) => line' = Both(Tail(toH), toR \o frames)
  BY AnswerIs
<1>3. toH # <<>> /\ Good(h, r, Tail(toH), toR) /\ toR \o <<>> = toR
  <2>1. toH # <<>>
    BY <1>1 DEF Receive, HandleBad, HandleSYN0, HandleSYN1, HandleSYN2,
                HandleDIS, HandleNAK, RefuseUSR, AcceptUSR, Arrives
  <2>. QED
    BY <2>1, Arrived
<1>4. CASE HandleBad("host")
  <2>1. ep' = Both(h, r) /\ Answer("host", <<NakFrame(h.rxSeq)>>)
    BY <1>1, <1>4 DEF HandleBad
  <2>2. Good(h, r, Tail(toH), toR \o <<NakFrame(h.rxSeq)>>)
    BY <1>3, NakSent
  <2>. QED
    BY <1>2, <2>1, <2>2, <1>0, Reached
<1>5. CASE HandleSYN0("host") \/ HandleSYN2("host")
  <2>1. Head(toH).type \in {"SYN0", "SYN2"}
    BY <1>1, <1>5 DEF HandleSYN0, HandleSYN2, Arrives
  <2>. QED
    BY <1>1, <1>3, <2>1, HeadThere
<1>6. CASE HandleSYN1("host")
  <2>1. Head(toH).type = "SYN1"
    BY <1>1, <1>6 DEF HandleSYN1, Arrives
  <2>2. CASE h.state = "DISCONNECTED"
    <3>1. ep' = Both(h, r) /\ Answer("host", <<SynFrame("DIS")>>)
      BY <1>1, <1>6, <2>2 DEF HandleSYN1
    <3>2. Good(h, r, Tail(toH), toR \o <<SynFrame("DIS")>>)
      BY <1>3, DisSent
    <3>. QED
      BY <1>2, <3>1, <3>2, <1>0, Reached
  <2>3. CASE h.state # "DISCONNECTED"
    <3>1. /\ ep' = Both(Connected(h), r)
          /\ Answer("host", <<SynFrame("SYN2")>> \o ResentOnConnecting(h))
      BY <1>1, <1>6, <2>3 DEF HandleSYN1
    <3>2. Good(Connected(h), r, Tail(toH),
               toR \o (<<SynFrame("SYN2")>> \o ResentOnConnecting(h)))
      <4>1. CASE h.state = "SENT_SYN0"
        BY <1>3, <2>1, <4>1, HostOpens
      <4>2. CASE h.state = "CONNECTED"
        BY <1>3, <4>2, HostReopens
      <4>. QED
        BY <1>1, <2>3, <4>1, <4>2
    <3>. QED
      BY <1>2, <3>1, <3>2, <1>0, Reached
  <2>. QED
    BY <2>2, <2>3
<1>7. CASE HandleDIS("host")
  <2>1. /\ ep' = Both([h EXCEPT !.state = "DISCONNECTED"], r)
        /\ Answer("host", <<>>)
    BY <1>1, <1>7 DEF HandleDIS
  <2>2. Good([h EXCEPT !.state = "DISCONNECTED"], r, Tail(toH), toR)
    BY <1>3, HostFalls
  <2>3. line' = Both(Tail(toH), toR)
    BY <1>2, <1>3, <2>1
  <2>. QED
    BY <2>1, <2>2, <2>3, <1>0, Reached
<1>8. CASE HandleNAK("host")
  <2>1. PICK seq : seq = Head(toH).seq
    OBVIOUS
  <2>2. seq \in SFPseq
    BY <1>1, <1>3, <1>8, <2>1, NakNumber DEF HandleNAK, Arrives
  <2>3. CASE h.state # "CONNECTED"
    <3>1. ep' = Both(h, r) /\ Answer("host", <<Reminder(h)>>)
      BY <1>1, <1>8, <2>3 DEF HandleNAK
    <3>2. Good(h, r, Tail(toH), toR \o <<Reminder(h)>>)
      BY <1>3, <2>3, ReminderSent
    <3>. QED
      BY <1>2, <3>1, <3>2, <1>0, Reached
  <2>4. CASE h.state = "CONNECTED" /\ seq = h.txSeq
    <3>1. ep' = Both(h, r) /\ Answer("host", <<>>)
      BY <1>1, <1>8, <2>1, <2>4 DEF HandleNAK
    <3>2. line' = Both(Tail(toH), toR)
      BY <1>2, <1>3, <3>1
    <3>. QED
      BY <1>3, <3>1, <3>2, <1>0, Reached
  <2>5. CASE h.state = "CONNECTED" /\ seq # h.txSeq
    <3>1. ep' = Both(Rewound(h, seq), r) /\ Answer("host", Resent(h, seq))
      BY <1>1, <1>8, <2>1, <2>5 DEF HandleNAK
    <3>2. Good(Rewound(h, seq), r, Tail(toH), toR \o Resent(h, seq))
      BY <1>3, <2>2, <2>5, HostRewinds
    <3>. QED
      BY <1>2, <3>1, <3>2, <1>0, Reached
  <2>. QED
    BY <2>3, <2>4, <2>5
<1>9. CASE RefuseUSR("host")
  <2>1. ep' = Both(h, r)
    BY <1>1, <1>9 DEF RefuseUSR
  <2>2. \/ h.state # "CONNECTED" /\ Answer("host", <<Reminder(h)>>)
        \/ Answer("host", <<NakFrame(h.rxSeq)>>)
        \/ Answer("host", <<>>)
    BY <1>1, <1>9 DEF RefuseUSR
  <2>3. CASE h.state # "CONNECTED" /\ Answer("host", <<Reminder(h)>>)
    <3>1. Good(h, r, Tail(toH), toR \o <<Reminder(h)>>)
      BY <1>3, <2>3, ReminderSent
    <3>. QED
      BY <1>2, <2>1, <2>3, <3>1, <1>0, Reached
  <2>4. CASE Answer("host", <<NakFrame(h.rxSeq)>>)
    <3>1. Good(h, r, Tail(toH), toR \o <<NakFrame(h.rxSeq)>>)
      BY <1>3, NakSent
    <3>. QED
      BY <1>2, <2>1, <2>4, <3>1, <1>0, Reached
  <2>5. CASE Answer("host", <<>>)
    <3>1. line' = Both(Tail(toH), toR)
      BY <1>2, <1>3, <2>5
    <3>. QED
      BY <1>3, <2>1, <3>1, <1>0, Reached
  <2>. QED
    BY <2>2, <2>3, <2>4, <2>5
<1>10. CASE AcceptUSR("host")
  <2>1. /\ Carries(Head(toH)) /\ h.state = "CONNECTED" /\ Head(toH).seq = h.rxSeq
        /\ Answer("host", <<>>)
    BY <1>1, <1>10 DEF AcceptUSR, Arrives, Carries
  <2>2. ep' = Both(AcceptedBy(h, Head(toH)), r)
    <3>1. ep' = [ep EXCEPT !["host"] = AcceptedBy(h, Head(toH))]
      BY <1>1, <1>10 DEF AcceptUSR, AcceptedBy
    <3>. QED
      BY <1>1, <3>1
  <2>3. line' = Both(Tail(toH), toR)
    BY <1>2, <1>3, <2>1
  <2>4. Good(AcceptedBy(h, Head(toH)), r, Tail(toH), toR)
    BY <1>3, <2>1, HostAccepts
  <2>. QED
    BY <2>2, <2>3, <2>4, <1>0, Reached
<1>. QED
  BY <1>4, <1>5, <1>6, <1>7, <1>8, <1>9, <1>10 DEF Receive

\* Whatever arrives at the robot, the link is as it should be.
LEMMA RobotReceives ==
    ASSUME NEW h, NEW r, NEW toH, NEW toR,
           ep = Both(h, r), line = Both(toH, toR), Good(h, r, toH, toR),
           Receive("robot")
    PROVE  LinkInv'
<1>1. /\ ep["robot"] = r /\ line["robot"] = toR
      /\ \A x : [ep EXCEPT !["robot"] = x] = Both(h, x)
      /\ toR \in Seq(LinkFrame) /\ r \in EndpointState
      /\ r.state \in {"DISCONNECTED", "SENT_SYN1", "CONNECTED"}
      /\ ~Has(toR, {"SYN1"})
  BY BothIs, SoundFields DEF Good, WellFormed
<1>0. ~unwinding'
  <2>1. \A frames : Answer("robot", frames) => ~unwinding'
    BY RepliesAre DEF Answer
  <2>. QED
    BY <2>1 DEF Receive, HandleBad, HandleSYN0, HandleSYN1, HandleSYN2,
                HandleDIS, HandleNAK, RefuseUSR, AcceptUSR
<1>2. \A frames : Answer("robot", frames) => line' = Both(toH \o frames, Tail(toR))
  BY AnswerIs
<1>3. toR # <<>> /\ Good(h, r, toH, Tail(toR)) /\ toH \o <<>> = toH
  <2>1. toR # <<>>
    BY <1>1 DEF Receive, HandleBad, HandleSYN0, HandleSYN1, HandleSYN2,
                HandleDIS, HandleNAK, RefuseUSR, AcceptUSR, Arrives
  <2>. QED
    BY <2>1, Arrived
<1>4. CASE HandleBad("robot")
  <2>1. ep' = Both(h, r) /\ Answer("robot", <<NakFrame(r.rxSeq)>>)
    BY <1>1, <1>4 DEF HandleBad
  <2>2. Good(h, r, toH \o <<NakFrame(r.rxSeq)>>, Tail(toR))
    BY <1>3, NakSent
  <2>. QED
    BY <1>2, <2>1, <2>2, <1>0, Reached
<1>5. CASE HandleSYN1("robot")
  <2>1. Head(toR).type \in {"SYN1"}
    BY <1>1, <1>5 DEF HandleSYN1, Arrives
  <2>. QED
    BY <1>1, <1>3, <2>1, HeadThere
<1>6. CASE HandleSYN0("robot")
  <2>1. Head(toR).type = "SYN0"
    BY <1>1, <1>6 DEF HandleSYN0, Arrives
  <2>2. ep' = Both(h, Restarted(r, "SENT_SYN1")) /\ Answer("robot", <<SynFrame("SYN1")>>)
    BY <1>1, <1>6 DEF HandleSYN0
  <2>3. Good(h, Restarted(r, "SENT_SYN1"), toH \o <<SynFrame("SYN1")>>, Tail(toR))
    BY <1>3, <2>1, RobotAnswers
  <2>. QED
    BY <1>2, <2>2, <2>3, <1>0, Reached
<1>7. CASE HandleSYN2("robot")
  <2>1. Head(toR).type = "SYN2"
    BY <1>1, <1>7 DEF HandleSYN2, Arrives
  <2>2. CASE r.state = "DISCONNECTED"
    <3>1. ep' = Both(h, r) /\ Answer("robot", <<Reminder(r)>>)
      BY <1>1, <1>7, <2>2 DEF HandleSYN2
    <3>2. Good(h, r, toH \o <<Reminder(r)>>, Tail(toR))
      BY <1>3, <2>2, ReminderSent
    <3>. QED
      BY <1>2, <3>1, <3>2, <1>0, Reached
  <2>3. CASE r.state # "DISCONNECTED"
    <3>1. /\ ep' = Both(h, Connected(r))
          /\ Answer("robot", ResentOnConnecting(r))
      BY <1>1, <1>7, <2>3 DEF HandleSYN2
    <3>2. Good(h, Connected(r), toH \o ResentOnConnecting(r), Tail(toR))
      <4>1. CASE r.state = "SENT_SYN1"
        BY <1>3, <2>1, <4>1, RobotOpens
      <4>2. CASE r.state = "CONNECTED"
        BY <1>3, <4>2, RobotReopens
      <4>. QED
        BY <1>1, <2>3, <4>1, <4>2
    <3>. QED
      BY <1>2, <3>1, <3>2, <1>0, Reached
  <2>. QED
    BY <2>2, <2>3
<1>8. CASE HandleDIS("robot")
  <2>1. /\ ep' = Both(h, [r EXCEPT !.state = "DISCONNECTED"])
        /\ Answer("robot", <<>>)
    BY <1>1, <1>8 DEF HandleDIS
  <2>2. Good(h, [r EXCEPT !.state = "DISCONNECTED"], toH, Tail(toR))
    BY <1>3, RobotFalls
  <2>3. line' = Both(toH, Tail(toR))
    BY <1>2, <1>3, <2>1
  <2>. QED
    BY <2>1, <2>2, <2>3, <1>0, Reached
<1>9. CASE HandleNAK("robot")
  <2>1. PICK seq : seq = Head(toR).seq
    OBVIOUS
  <2>2. seq \in SFPseq
    BY <1>1, <1>3, <1>9, <2>1, NakNumber DEF HandleNAK, Arrives
  <2>3. CASE r.state # "CONNECTED"
    <3>1. ep' = Both(h, r) /\ Answer("robot", <<Reminder(r)>>)
      BY <1>1, <1>9, <2>3 DEF HandleNAK
    <3>2. Good(h, r, toH \o <<Reminder(r)>>, Tail(toR))
      BY <1>3, <2>3, ReminderSent
    <3>. QED
      BY <1>2, <3>1, <3>2, <1>0, Reached
  <2>4. CASE r.state = "CONNECTED" /\ seq = r.txSeq
    <3>1. ep' = Both(h, r) /\ Answer("robot", <<>>)
      BY <1>1, <1>9, <2>1, <2>4 DEF HandleNAK
    <3>2. line' = Both(toH, Tail(toR))
      BY <1>2, <1>3, <3>1
    <3>. QED
      BY <1>3, <3>1, <3>2, <1>0, Reached
  <2>5. CASE r.state = "CONNECTED" /\ seq # r.txSeq
    <3>1. ep' = Both(h, Rewound(r, seq)) /\ Answer("robot", Resent(r, seq))
      BY <1>1, <1>9, <2>1, <2>5 DEF HandleNAK
    <3>2. Good(h, Rewound(r, seq), toH \o Resent(r, seq), Tail(toR))
      BY <1>3, <2>2, <2>5, RobotRewinds
    <3>. QED
      BY <1>2, <3>1, <3>2, <1>0, Reached
  <2>. QED
    BY <2>3, <2>4, <2>5
<1>10. CASE RefuseUSR("robot")
  <2>1. ep' = Both(h, r)
    BY <1>1, <1>10 DEF RefuseUSR
  <2>2. \/ r.state # "CONNECTED" /\ Answer("robot", <<Reminder(r)>>)
        \/ Answer("robot", <<NakFrame(r.rxSeq)>>)
        \/ Answer("robot", <<>>)
    BY <1>1, <1>10 DEF RefuseUSR
  <2>3. CASE r.state # "CONNECTED" /\ Answer("robot", <<Reminder(r)>>)
    <3>1. Good(h, r, toH \o <<Reminder(r)>>, Tail(toR))
      BY <1>3, <2>3, ReminderSent
    <3>. QED
      BY <1>2, <2>1, <2>3, <3>1, <1>0, Reached
  <2>4. CASE Answer("robot", <<NakFrame(r.rxSeq)>>)
    <3>1. Good(h, r, toH \o <<NakFrame(r.rxSeq)>>, Tail(toR))
      BY <1>3, NakSent
    <3>. QED
      BY <1>2, <2>1, <2>4, <3>1, <1>0, Reached
  <2>5. CASE Answer("robot", <<>>)
    <3>1. line' = Both(toH, Tail(toR))
      BY <1>2, <1>3, <2>5
    <3>. QED
      BY <1>3, <2>1, <3>1, <1>0, Reached
  <2>. QED
    BY <2>2, <2>3, <2>4, <2>5
<1>11. CASE AcceptUSR("robot")
  <2>1. /\ Carries(Head(toR)) /\ r.state = "CONNECTED" /\ Head(toR).seq = r.rxSeq
        /\ Answer("robot", <<>>)
    BY <1>1, <1>11 DEF AcceptUSR, Arrives, Carries
  <2>2. ep' = Both(h, AcceptedBy(r, Head(toR)))
    <3>1. ep' = [ep EXCEPT !["robot"] = AcceptedBy(r, Head(toR))]
      BY <1>1, <1>11 DEF AcceptUSR, AcceptedBy
    <3>. QED
      BY <1>1, <3>1
  <2>3. line' = Both(toH, Tail(toR))
    BY <1>2, <1>3, <2>1
  <2>4. Good(h, AcceptedBy(r, Head(toR)), toH, Tail(toR))
    BY <1>3, <2>1, RobotAccepts
  <2>. QED
    BY <2>2, <2>3, <2>4, <1>0, Reached
<1>. QED
  BY <1>4, <1>5, <1>6, <1>7, <1>8, <1>9, <1>10, <1>11 DEF Receive

\* A frame is sent.
LEMMA SentBy ==
    ASSUME NEW toH, NEW toR, line = Both(toH, toR), NEW frame
    PROVE  /\ Send("host", frame) => line' = Both(toH, Append(toR, frame))
           /\ Send("robot", frame) => line' = Both(Append(toH, frame), toR)
<1>1. ASSUME Send("host", frame)
      PROVE  line' = Both(toH, Append(toR, frame))
  <2>1. line' = [line EXCEPT !["robot"] = Append(@, frame)]
    BY <1>1, BothIs DEF Send
  <2>. QED
    BY <2>1 DEF Both, Endpoint
<1>2. ASSUME Send("robot", frame)
      PROVE  line' = Both(Append(toH, frame), toR)
  <2>1. line' = [line EXCEPT !["host"] = Append(@, frame)]
    BY <1>2, BothIs DEF Send
  <2>. QED
    BY <2>1 DEF Both, Endpoint
<1>. QED
  BY <1>1, <1>2

\* The line is lossy.
LEMMA LineFails ==
    ASSUME NEW h, NEW r, NEW toH, NEW toR,
           ep = Both(h, r), line = Both(toH, toR), Good(h, r, toH, toR),
           unwinding => Falling(r), NEW e \in Endpoint, Lose(e) \/ Damage(e)
    PROVE  LinkInv'
<1>1. /\ line["host"] = toH /\ line["robot"] = toR /\ ep' = Both(h, r)
      /\ unwinding' => Falling(r)
      /\ toH \in Seq(LinkFrame) /\ toR \in Seq(LinkFrame)
      /\ \A x : [line EXCEPT !["host"] = x] = Both(x, toR)
      /\ \A x : [line EXCEPT !["robot"] = x] = Both(toH, x)
  BY BothIs DEF Good, WellFormed, Lose, Damage
<1>2. PICK x :
        /\ line' = [line EXCEPT ![e] = x] /\ line[e] # <<>>
        /\ x = Tail(line[e]) \/ \E debris \in Debris : x = debris \o Tail(line[e])
  BY DEF Lose, Damage
<1>3. "BAD" \notin Tracked
  BY DEF Tracked
<1>4. Within(toH, toH, Tracked) /\ Within(toR, toR, Tracked)
  BY <1>1, WithinSelf
<1>5. CASE e = "host"
  <2>1. x \in Seq(LinkFrame) /\ Within(x, toH, Tracked)
    <3>1. toH # <<>>
      BY <1>1, <1>2, <1>5
    <3>2. CASE x = Tail(toH)
      BY <1>1, <3>1, <3>2, WithinTail
    <3>3. ASSUME NEW debris \in Debris, x = debris \o Tail(toH)
          PROVE  x \in Seq(LinkFrame) /\ Within(x, toH, Tracked)
      BY <1>1, <1>3, <3>1, <3>3, WithinDamaged
    <3>. QED
      BY <1>1, <1>2, <1>5, <3>2, <3>3
  <2>2. Good(h, r, x, toR)
    BY <1>1, <1>4, <2>1, Quiet
  <2>. QED
    BY <1>1, <1>2, <1>5, <2>2, Reached
<1>6. CASE e = "robot"
  <2>1. x \in Seq(LinkFrame) /\ Within(x, toR, Tracked)
    <3>1. toR # <<>>
      BY <1>1, <1>2, <1>6
    <3>2. CASE x = Tail(toR)
      BY <1>1, <3>1, <3>2, WithinTail
    <3>3. ASSUME NEW debris \in Debris, x = debris \o Tail(toR)
          PROVE  x \in Seq(LinkFrame) /\ Within(x, toR, Tracked)
      BY <1>1, <1>3, <3>1, <3>3, WithinDamaged
    <3>. QED
      BY <1>1, <1>2, <1>6, <3>2, <3>3
  <2>2. Good(h, r, toH, x)
    BY <1>1, <1>4, <2>1, Quiet
  <2>. QED
    BY <1>1, <1>2, <1>6, <2>2, Reached
<1>. QED
  BY <1>5, <1>6 DEF Endpoint

\* Frames may yet be accepted by an endpoint that is ready for them.
LEMMA ListensIs ==
    ASSUME NEW h, NEW r, NEW toH, NEW toR,
           ep = Both(h, r), line = Both(toH, toR), Good(h, r, toH, toR)
    PROVE  /\ h.state = "CONNECTED" => Listens("host")
           /\ r.state \in {"SENT_SYN1", "CONNECTED"} \/ Has(toR, {"SYN0"})
                 => Listens("robot")
<1>1. /\ ep["host"] = h /\ ep["robot"] = r /\ line["robot"] = toR
      /\ DOMAIN toR = 1 .. Len(toR)
  BY BothIs DEF Good, WellFormed
<1>. QED
  BY <1>1 DEF Listens, Has

\* What writing does to an endpoint.
LEMMA WroteAre ==
    ASSUME NEW p, Sound(p)
    PROVE  /\ NextPacket(p) \in SessionPacket
           /\ NextOne(p, NextPacket(p), p.place + 1) /\ p.place + 1 \in Nat
           /\ Wrote(p) = WroteOne(p, NextPacket(p), p.place + 1)
           /\ UsrFrame(p.txSeq, NextPacket(p)) \in LinkFrame
           /\ Carries(UsrFrame(p.txSeq, NextPacket(p)))
           /\ UsrFrame(p.txSeq, NextPacket(p)).packet.session = p.session
<1>1. /\ p \in EndpointState /\ p.session \in Nat /\ p.place \in Nat
      /\ p.txSeq \in SFPseq
  BY SoundFields DEF EndpointState
<1>2. NextPacket(p) \in SessionPacket /\ NextPacket(p).session = p.session
  BY <1>1 DEF NextPacket, SessionPacket
<1>3. NextOne(p, NextPacket(p), p.place + 1) /\ p.place + 1 \in Nat
  BY <1>1 DEF NextOne, NextPacket
<1>4. Wrote(p) = WroteOne(p, NextPacket(p), p.place + 1)
  BY <1>1 DEF Wrote, WroteOne, EndpointState
<1>5. PICK packet \in SessionPacket :
         packet = NextPacket(p) /\ packet.session = p.session
  BY <1>2
<1>6. /\ UsrFrame(p.txSeq, packet) \in LinkFrame
      /\ Carries(UsrFrame(p.txSeq, packet))
      /\ UsrFrame(p.txSeq, packet).packet.session = p.session
  BY <1>1, <1>5 DEF UsrFrame, LinkFrame, Carries
<1>. QED
  BY <1>2, <1>3, <1>4, <1>5, <1>6

\* The host writes its packets and its heartbeat.
LEMMA HostSends ==
    ASSUME NEW h, NEW r, NEW toH, NEW toR,
           ep = Both(h, r), line = Both(toH, toR), Good(h, r, toH, toR),
           unwinding => Falling(r), ~LapAhead("host"),
           Ping \/ WritePacket("host")
    PROVE  LinkInv'
<1>1. /\ ep["host"] = h /\ line["host"] = toH
      /\ ep["robot"] = r /\ line["robot"] = toR
      /\ Peer("host") = "robot"
      /\ \A x : [ep EXCEPT !["host"] = x] = Both(x, r)
      /\ Sound(h) /\ h \in EndpointState
      /\ unwinding' = unwinding
  BY BothIs, SoundFields DEF Good, WellFormed, Ping, WritePacket
<1>2. h.session \in Nat /\ h.place \in Nat
  BY <1>1 DEF EndpointState
<1>3. \/ Room(h, r)
      \/ h.session \in h.resynced
      \/ r.state \notin {"SENT_SYN1", "CONNECTED"} /\ ~Has(toR, {"SYN0"})
  BY <1>1, ListensIs DEF LapAhead, Room
<1>4. CASE Ping
  <2>1. PICK packet : packet = PingPacket
    OBVIOUS
  <2>2. packet \in SessionPacket
    BY <2>1 DEF PingPacket, SessionPacket
  <2>3. h.state = "CONNECTED" /\ ep' = Both(WroteOne(h, packet, h.place), r)
    <3>1. PICK x : x = [h EXCEPT !.history = Remember(@, packet),
                                 !.txSeq = nextSeq(@)]
      OBVIOUS
    <3>2. x = WroteOne(h, packet, h.place)
      BY <1>1, <3>1 DEF WroteOne, EndpointState
    <3>3. ep' = [ep EXCEPT !["host"] = x]
      BY <1>1, <1>4, <2>1, <3>1 DEF Ping
    <3>. QED
      BY <1>1, <1>4, <3>2, <3>3 DEF Ping
  <2>4. line' = Both(toH, Append(toR, UsrFrame(h.txSeq, packet)))
    BY <1>1, <1>4, <2>1, SentBy DEF Ping, Transmit
  <2>5. Good(WroteOne(h, packet, h.place), r, toH,
             Append(toR, UsrFrame(h.txSeq, packet)))
    BY <1>2, <1>3, <2>1, <2>2, <2>3, HostWrites
  <2>. QED
    BY <1>1, <2>3, <2>4, <2>5, Reached
<1>5. CASE WritePacket("host")
  <2>1. PICK packet \in SessionPacket, place \in Nat :
           /\ packet = NextPacket(h) /\ place = h.place + 1
           /\ NextOne(h, packet, place) /\ Wrote(h) = WroteOne(h, packet, place)
    BY <1>1, WroteAre
  <2>2. h.state = "CONNECTED" /\ ep' = Both(WroteOne(h, packet, place), r)
    BY <1>1, <1>5, <2>1 DEF WritePacket
  <2>3. line' = Both(toH, Append(toR, UsrFrame(h.txSeq, packet)))
    BY <1>1, <1>5, <2>1, SentBy DEF WritePacket, Transmit
  <2>4. Good(WroteOne(h, packet, place), r, toH,
             Append(toR, UsrFrame(h.txSeq, packet)))
    BY <1>3, <2>1, <2>2, HostWrites
  <2>. QED
    BY <1>1, <2>2, <2>3, <2>4, Reached
<1>. QED
  BY <1>4, <1>5

\* The robot writes a packet, and may be reset in that.
LEMMA RobotSends ==
    ASSUME NEW h, NEW r, NEW toH, NEW toR,
           ep = Both(h, r), line = Both(toH, toR), Good(h, r, toH, toR),
           unwinding => Falling(r), ~LapAhead("robot"),
           WritePacket("robot") \/ WriteInterrupted
    PROVE  LinkInv'
<1>1. /\ ep["host"] = h /\ ep["robot"] = r /\ Peer("robot") = "host"
      /\ \A x : [ep EXCEPT !["robot"] = x] = Both(h, x)
      /\ Sound(r) /\ toH \in Seq(LinkFrame)
      /\ r.state = "CONNECTED" => ~unwinding
  BY BothIs DEF Good, WellFormed, Falling
<1>2. \/ Room(r, h)
      \/ r.session \in r.resynced
      \/ h.state # "CONNECTED"
  BY <1>1, ListensIs DEF LapAhead, Room
<1>3. PICK packet \in SessionPacket, place \in Nat :
         /\ packet = NextPacket(r)
         /\ NextOne(r, packet, place) /\ Wrote(r) = WroteOne(r, packet, place)
  BY <1>1, WroteAre
<1>4. PICK frame \in LinkFrame :
         /\ frame = UsrFrame(r.txSeq, packet)
         /\ Carries(frame) /\ frame.packet.session = r.session
  BY <1>1, <1>3, WroteAre
<1>5. PICK r2, after : r2 = WroteOne(r, packet, place) /\ after = Append(toH, frame)
  OBVIOUS
<1>6. line' = Both(after, toR)
  <2>1. Send("robot", UsrFrame(r.txSeq, packet))
    BY <1>1, <1>3 DEF WritePacket, WriteInterrupted, Transmit
  <2>. QED
    BY <1>4, <1>5, <2>1, SentBy
<1>7. /\ Sound(r2) /\ r2.state = r.state /\ r2.session = r.session
      /\ r2.resynced = r.resynced /\ r2.rxSeq = r.rxSeq
      /\ r2.delivered = r.delivered
  BY <1>1, <1>3, <1>5, WroteIs
<1>8. r.state = "CONNECTED" => Good(h, r2, after, toR)
  BY <1>2, <1>3, <1>4, <1>5, RobotWrites
<1>9. CASE WritePacket("robot") /\ r.state = "CONNECTED"
  <2>1. ep' = Both(h, r2)
    BY <1>1, <1>3, <1>5, <1>9 DEF WritePacket
  <2>2. ~unwinding'
    BY <1>1, <1>9 DEF WritePacket
  <2>. QED
    BY <1>6, <1>8, <1>9, <2>1, <2>2, Reached
<1>10. CASE WritePacket("robot") /\ r.state # "CONNECTED"
  <2>1. ep' = Both(h, r2) /\ unwinding
    BY <1>1, <1>3, <1>5, <1>10 DEF WritePacket
  <2>2. r.state = "DISCONNECTED" /\ r.session \in r.resynced
    BY <2>1 DEF Falling
  <2>3. PICK sent \in Seq(LinkFrame) :
           sent = <<frame>> /\ Len(sent) = 1 /\ sent[1] = frame
    <3>1. PICK sent : sent = <<frame>>
      OBVIOUS
    <3>. QED
      BY <1>4, <3>1, OneFrame
  <2>4. \A i \in 1 .. Len(sent) :
           Carries(sent[i]) /\ sent[i].packet.session = r.session
    BY <1>4, <2>3
  <2>5. Good(h, r2, toH \o sent, toR)
    BY <1>7, <2>2, <2>4, RobotGoesOn
  <2>6. toH \o sent = after
    BY <1>1, <1>4, <1>5, <2>3
  <2>7. Falling(r2)
    BY <1>7, <2>2 DEF Falling
  <2>. QED
    BY <1>6, <2>1, <2>5, <2>6, <2>7, Reached
<1>11. CASE WriteInterrupted
  <2>1. PICK rx \in EitherCount :
           ep' = [ep EXCEPT !["robot"] = Interrupted(Wrote(@), 1, rx)]
    BY <1>11 DEF WriteInterrupted
  <2>2. PICK kept \in SFPseq, tx \in Nat : kept = rx /\ tx = 1
    BY <2>1, ZeroSeq, NextSeqType DEF EitherCount
  <2>3. PICK r3 : r3 = Interrupted(r2, tx, kept)
    OBVIOUS
  <2>4. r.state = "CONNECTED" /\ ep' = Both(h, r3)
    BY <1>1, <1>3, <1>5, <1>11, <2>1, <2>2, <2>3 DEF WriteInterrupted
  <2>5. LeftOver(r3, r2, kept)
    BY ONLY <1>7, <2>3, kept \in SFPseq, tx \in Nat, InterruptedIs
  <2>6. /\ Sound(r3) /\ r3.state = "DISCONNECTED"
        /\ r3.session = r2.session + 1 /\ r2.resynced \subseteq r3.resynced
        /\ r3.delivered = r2.delivered /\ r3.session \in r3.resynced
    BY <2>5 DEF LeftOver
  <2>7. Good(h, r3, after, toR)
    BY <1>7, <1>8, <2>4, <2>6, RobotInterrupts
  <2>8. Falling(r3)
    BY <2>6 DEF Falling
  <2>. QED
    BY <1>6, <2>4, <2>7, <2>8, Reached
<1>. QED
  BY <1>9, <1>10, <1>11

\* The host makes an attempt, or starts anew.
LEMMA HostStarts ==
    ASSUME NEW h, NEW r, NEW toH, NEW toR,
           ep = Both(h, r), line = Both(toH, toR), Good(h, r, toH, toR),
           unwinding => Falling(r), Connect \/ Reset("host")
    PROVE  LinkInv'
<1>1. /\ ep["host"] = h /\ line["host"] = toH
      /\ ep["robot"] = r /\ line["robot"] = toR
      /\ \A x : [ep EXCEPT !["host"] = x] = Both(x, r)
  BY BothIs
<1>0. unwinding' => unwinding
  BY DEF Connect, StartHandshake, Reset
<1>2. CASE Connect
  <2>1. toH = <<>> /\ toR = <<>>
    BY <1>1, <1>2 DEF Connect, Endpoint
  <2>2. ep' = Both(Restarted(h, "SENT_SYN0"), r)
    BY <1>1, <1>2 DEF Connect, StartHandshake
  <2>3. line' = Both(<<>>, <<SynFrame("SYN0")>>)
    <3>1. line' = Both(toH, Append(toR, SynFrame("SYN0")))
      BY <1>2, SentBy DEF Connect, StartHandshake
    <3>2. Append(<<>>, SynFrame("SYN0")) = <<SynFrame("SYN0")>>
      OBVIOUS
    <3>. QED
      BY <2>1, <3>1, <3>2
  <2>4. Good(Restarted(h, "SENT_SYN0"), r, <<>>, <<SynFrame("SYN0")>>)
    BY <2>1, HostConnects
  <2>. QED
    BY <1>1, <2>2, <2>3, <2>4, <1>0, Reached
<1>3. CASE Reset("host")
  <2>1. PICK h2 : h2 = Restarted(h, "DISCONNECTED")
    OBVIOUS
  <2>2. Good(h2, r, toH, toR)
    BY <2>1, HostResets
  <2>3. h2 = [h2 EXCEPT !.rxSeq = SFP_INITIAL_SEQ]
    <3>1. h \in EndpointState
      BY SoundFields DEF Good, WellFormed
    <3>. QED
      BY <2>1, <3>1 DEF Restarted, EndpointState
  <2>4. ep' = Both(h2, r) /\ line' = Both(toH, toR)
    BY <1>1, <1>3, <2>1, <2>3 DEF Reset
  <2>. QED
    BY <1>1, <2>2, <2>4, <1>0, Reached
<1>. QED
  BY <1>2, <1>3

\* The robot starts anew, also under the delivery of a packet.
LEMMA RobotStarts ==
    ASSUME NEW h, NEW r, NEW toH, NEW toR,
           ep = Both(h, r), line = Both(toH, toR), Good(h, r, toH, toR),
           Reset("robot")
    PROVE  LinkInv'
<1>1. /\ ep["robot"] = r /\ Sound(r) /\ r \in EndpointState
      /\ \A x : [ep EXCEPT !["robot"] = x] = Both(h, x)
      /\ line' = Both(toH, toR)
  BY BothIs, SoundFields DEF Good, WellFormed, Reset
<1>0. ~unwinding'
  BY DEF Reset
<1>2. PICK r2 : r2 = Restarted(r, "DISCONNECTED")
  OBVIOUS
<1>3. Good(h, r2, toH, toR)
  BY <1>2, RobotResets
<1>4. /\ Sound(r2) /\ r2 \in EndpointState /\ r2.state = "DISCONNECTED"
      /\ r2.rxSeq = SFP_INITIAL_SEQ /\ r2.session = r.session + 1
      /\ r2.resynced = r.resynced /\ r2.delivered = r.delivered
  <2>1. Sound(r2)
    BY <1>3 DEF Good, WellFormed
  <2>. QED
    BY <1>1, <1>2, <2>1, SoundFields DEF Restarted, EndpointState
<1>5. PICK rx \in IF r.state = "CONNECTED" THEN EitherCount ELSE {SFP_INITIAL_SEQ} :
         ep' = Both(h, [r2 EXCEPT !.rxSeq = rx])
  <2>1. PICK rx \in IF "robot" = "robot" /\ ep["robot"].state = "CONNECTED"
                    THEN EitherCount ELSE {SFP_INITIAL_SEQ} :
           ep' = [ep EXCEPT !["robot"] = [Restarted(@, "DISCONNECTED")
                                             EXCEPT !.rxSeq = rx]]
    BY DEF Reset
  <2>2. ep' = Both(h, [r2 EXCEPT !.rxSeq = rx])
    BY <1>1, <1>2, <2>1
  <2>. QED
    BY <1>1, <2>1, <2>2
<1>6. PICK r3 : r3 = [r2 EXCEPT !.rxSeq = rx]
  OBVIOUS
<1>7. CASE rx = SFP_INITIAL_SEQ
  <2>1. r3 = r2
    BY <1>4, <1>6, <1>7 DEF EndpointState
  <2>. QED
    BY <1>1, <1>3, <1>5, <1>6, <2>1, <1>0, Reached
<1>8. CASE rx # SFP_INITIAL_SEQ
  <2>1. r.state = "CONNECTED" /\ rx \in SFPseq
    BY <1>5, <1>8, ZeroSeq, NextSeqType DEF EitherCount
  <2>2. /\ r3 \in EndpointState /\ r3.state = "DISCONNECTED"
        /\ r3.session = r2.session /\ r3.resynced = r2.resynced
        /\ r3.history = r2.history /\ r3.delivered = r2.delivered
    BY <1>4, <1>6, <2>1 DEF EndpointState
  <2>3. Sound(r3)
    BY <1>4, <2>2 DEF Sound
  <2>4. /\ r3.session = r.session + 1 /\ r.resynced \subseteq r3.resynced
        /\ r3.delivered = r.delivered
    BY <1>4, <2>2
  <2>5. Good(h, r3, toH, toR)
    BY <2>1, <2>2, <2>3, <2>4, RobotInterrupts
  <2>. QED
    BY <1>1, <1>5, <1>6, <2>5, <1>0, Reached
<1>. QED
  BY <1>7, <1>8

\* The robot is reset while it sends its history again.
LEMMA RobotResends ==
    ASSUME NEW h, NEW r, NEW toH, NEW toR,
           ep = Both(h, r), line = Both(toH, toR), Good(h, r, toH, toR),
           NEW some, HandleNAKInterrupted(some) \/ HandleSYN2Interrupted(some)
    PROVE  LinkInv'
<1>1. /\ ep["host"] = h /\ ep["robot"] = r /\ line["robot"] = toR
      /\ \A x : [ep EXCEPT !["robot"] = x] = Both(h, x)
      /\ toR \in Seq(LinkFrame)
  BY BothIs DEF Good, WellFormed
<1>2. toR # <<>> /\ r.state = "CONNECTED"
  BY <1>1 DEF HandleNAKInterrupted, HandleSYN2Interrupted, Arrives,
              ResendInterrupted
<1>3. Good(h, r, toH, Tail(toR))
  BY <1>2, Arrived
<1>4. PICK rest : rest = Tail(toR)
  OBVIOUS
<1>5. CASE HandleNAKInterrupted(some)
  <2>1. PICK seq \in SFPseq : seq = Head(toR).seq
    BY <1>1, <1>2, <1>5, NakNumber DEF HandleNAKInterrupted, Arrives
  <2>2. /\ some \in DOMAIN Resent(r, seq)
        /\ Replies("robot", ResentWithBreak(r, seq, some))
        /\ ep' = Both(h, AfterBreak(r, seq, some))
    BY <1>1, <1>5, <2>1 DEF HandleNAKInterrupted, ResendInterrupted
  <2>3. line' = Both(toH \o ResentWithBreak(r, seq, some), rest) /\ ~unwinding'
    BY <1>4, <2>2, RepliesAre
  <2>4. Good(h, AfterBreak(r, seq, some), toH \o ResentWithBreak(r, seq, some), rest)
    BY <1>2, <1>3, <1>4, <2>2, RobotBreaks
  <2>. QED
    BY <2>2, <2>3, <2>4, Reached
<1>6. CASE HandleSYN2Interrupted(some)
  <2>1. PICK seq \in SFPseq : seq = SFP_INITIAL_SEQ
    BY ZeroSeq
  <2>2. PICK r2 : r2 = [AfterBreak(r, seq, some) EXCEPT !.state = "CONNECTED"]
    OBVIOUS
  <2>3. /\ some \in DOMAIN Resent(r, seq)
        /\ Replies("robot", ResentWithBreak(r, seq, some))
    BY <1>1, <1>6, <2>1 DEF HandleSYN2Interrupted, ResendInterrupted
  <2>4. ep' = Both(Shifted(h), r2)
    <3>1. ep' = [ep EXCEPT !["robot"] = r2, !["host"] = Shifted(@)]
      BY <1>1, <1>6, <2>1, <2>2 DEF HandleSYN2Interrupted
    <3>. QED
      BY <1>1, <3>1 DEF Both, Endpoint
  <2>5. line' = Both(toH \o ResentWithBreak(r, seq, some), rest) /\ ~unwinding'
    BY <1>4, <2>3, RepliesAre
  <2>6. h.state # "SENT_SYN0" /\ ~Has(rest, {"SYN0"})
    <3>1. Head(toR).type = "SYN2"
      BY <1>1, <1>6 DEF HandleSYN2Interrupted, Arrives
    <3>. QED
      BY <1>1, <1>2, <1>4, <3>1, HeadThere, TailClear DEF Good, WellFormed, HostOpening
  <2>7. Good(Shifted(h), r2, toH \o ResentWithBreak(r, seq, some), rest)
    BY <1>2, <1>3, <1>4, <2>2, <2>3, <2>6, RobotBreaks
  <2>. QED
    BY <2>4, <2>5, <2>7, Reached
<1>. QED
  BY <1>5, <1>6

\* The link is as it should be when nothing has been sent.
LEMMA LinkStarts == LinkInit => LinkInv
<1>. SUFFICES ASSUME LinkInit
              PROVE  LinkInv
  OBVIOUS
<1>1. PICK p : p = InitialEndpoint
  OBVIOUS
<1>2. /\ p \in EndpointState /\ p.state = "DISCONNECTED"
      /\ p.delivered = <<>> /\ p.history = <<>> /\ p.resynced = {}
  BY <1>1, ZeroSeq DEF InitialEndpoint, EndpointState, SFPstate
<1>3. Sound(p) /\ Len(p.delivered) = 0
  BY <1>2, Sizes DEF Sound
<1>4. ep = Both(p, p) /\ line = Both(<<>>, <<>>) /\ ~unwinding
  BY <1>1 DEF LinkInit, Both
<1>5. WellFormed(p, p, <<>>, <<>>)
  BY <1>2, <1>3, NoFrame DEF WellFormed
<1>6. /\ HostOpening(p, p, <<>>, <<>>) /\ RobotOpening(p, p, <<>>, <<>>)
      /\ ToHost(p, p, <<>>) /\ ToRobot(p, p, <<>>)
  BY <1>2, NoFrame DEF HostOpening, RobotOpening, ToHost, ToRobot
<1>7. InOrderSoFar(p, p)
  BY <1>3 DEF InOrderSoFar
<1>. QED
  BY <1>4, <1>5, <1>6, <1>7 DEF LinkInv, Good

\* What is rough is not forgotten, and a packet a lap ahead is rough.
LEMMA RoughIs ==
    ASSUME LinkNext, rough' = {}
    PROVE  /\ rough = {} /\ ~ConnectHastily
           /\ Ping \/ WritePacket("host") => ~LapAhead("host")
           /\ WriteInterrupted \/ WritePacket("robot") => ~LapAhead("robot")
<1>1. ~ConnectHastily
  BY DEF ConnectHastily
<1>2. ASSUME NEW e, NEW packet, NEW lap, Transmit(e, packet, lap)
      PROVE  rough = {} /\ ~LapAhead(e)
  BY <1>2 DEF Transmit
<1>3. Ping \/ WritePacket("host") => rough = {} /\ ~LapAhead("host")
  BY <1>2 DEF Ping, WritePacket
<1>4. WriteInterrupted \/ WritePacket("robot") => rough = {} /\ ~LapAhead("robot")
  BY <1>2 DEF WriteInterrupted, WritePacket
<1>5. CASE Connect \/ \E e \in Endpoint : Reset(e) \/ Lose(e) \/ Damage(e)
  BY <1>1, <1>3, <1>4, <1>5 DEF Connect, Reset, Lose, Damage
<1>6. CASE \E e \in Endpoint : Receive(e)
  <2>1. ASSUME NEW e, NEW frames, Answer(e, frames)
        PROVE  rough' = rough
    BY <2>1 DEF Answer, Replies
  <2>2. rough' = rough
    BY <1>6, <2>1 DEF Receive, HandleBad, HandleSYN0, HandleSYN1, HandleSYN2,
                      HandleDIS, HandleNAK, RefuseUSR, AcceptUSR
  <2>. QED
    BY <1>1, <1>3, <1>4, <2>2
<1>7. CASE \E some \in 1 .. HISTORY_CAPACITY :
              HandleNAKInterrupted(some) \/ HandleSYN2Interrupted(some)
  BY <1>1, <1>3, <1>4, <1>7 DEF HandleNAKInterrupted, HandleSYN2Interrupted,
                                ResendInterrupted, Replies
<1>. QED
  BY <1>1, <1>3, <1>4, <1>5, <1>6, <1>7 DEF LinkNext, Endpoint

\* It stays so whatever happens, as long as nothing is rough.
LEMMA LinkGoesOn ==
    (rough = {} => LinkInv) /\ [LinkNext]_linkVars => (rough' = {} => LinkInv')
<1>. SUFFICES ASSUME rough = {} => LinkInv, [LinkNext]_linkVars, rough' = {}
              PROVE  LinkInv'
  OBVIOUS
<1>1. /\ rough = {}
      /\ LinkNext => /\ ~ConnectHastily
                     /\ Ping \/ WritePacket("host") => ~LapAhead("host")
                     /\ WriteInterrupted \/ WritePacket("robot")
                           => ~LapAhead("robot")
  BY RoughIs DEF linkVars
<1>2. PICK h, r, toH, toR :
         /\ ep = Both(h, r) /\ line = Both(toH, toR) /\ Good(h, r, toH, toR)
         /\ unwinding => Falling(r)
  BY <1>1 DEF LinkInv
<1>3. CASE UNCHANGED linkVars
  <2>1. /\ ep' = Both(h, r) /\ line' = Both(toH, toR)
        /\ unwinding' => Falling(r)
    BY <1>2, <1>3 DEF linkVars
  <2>. QED
    BY <1>2, <2>1, Reached
<1>4. CASE Connect \/ \E e \in Endpoint : Reset(e)
  BY <1>2, <1>4, HostStarts, RobotStarts DEF Endpoint
<1>5. CASE /\ LinkNext
           /\ Ping \/ WriteInterrupted \/ \E e \in Endpoint : WritePacket(e)
  BY <1>1, <1>2, <1>5, HostSends, RobotSends DEF Endpoint
<1>6. CASE \E e \in Endpoint : Receive(e)
  BY <1>2, <1>6, HostReceives, RobotReceives DEF Endpoint
<1>7. CASE \E some \in 1 .. HISTORY_CAPACITY :
              HandleNAKInterrupted(some) \/ HandleSYN2Interrupted(some)
  BY <1>2, <1>7, RobotResends
<1>8. CASE \E e \in Endpoint : Lose(e) \/ Damage(e)
  BY <1>2, <1>8, LineFails
<1>. QED
  BY <1>1, <1>3, <1>4, <1>5, <1>6, <1>7, <1>8 DEF LinkNext

\* As it should be, the packets that were delivered are in order.
LEMMA LinkInOrder == (rough = {} => LinkInv) => SessionInOrder
<1>. SUFFICES ASSUME LinkInv
              PROVE  SessionInOrder
  BY DEF SessionInOrder
<1>1. PICK h, r, toH, toR :
         ep = Both(h, r) /\ line = Both(toH, toR) /\ Good(h, r, toH, toR)
  BY DEF LinkInv
<1>2. /\ ep["host"] = h /\ ep["robot"] = r
      /\ Peer("host") = "robot" /\ Peer("robot") = "host"
      /\ InOrderSoFar(h, r) /\ InOrderSoFar(r, h)
      /\ h \in EndpointState /\ r \in EndpointState
  BY <1>1, BothIs, SoundFields DEF Good, WellFormed
<1>3. /\ DOMAIN h.delivered = 1 .. Len(h.delivered)
      /\ DOMAIN r.delivered = 1 .. Len(r.delivered)
  BY <1>2 DEF EndpointState
<1>. QED
  BY <1>2, <1>3 DEF SessionInOrder, InOrderSoFar, Endpoint

\* Whatever the number of faults and resets, those in the midst of a write or a
\* retransmission included, packets of different sessions and handshakes are
\* never mixed, and in a session whose numbers were not shifted lost frames leave
\* no gap and those sent again make no packet double.  That goes for a host
\* that waits between its attempts and for applications that never write a lap
\* of numbers ahead.
THEOREM SessionsInOrder == LinkSpec => []SessionInOrder
<1>1. LinkInit => (rough = {} => LinkInv)
  BY LinkStarts
<1>2. (rough = {} => LinkInv) /\ [LinkNext]_linkVars => (rough = {} => LinkInv)'
  BY LinkGoesOn
<1>3. (rough = {} => LinkInv) => SessionInOrder
  BY LinkInOrder
<1>. QED
  BY <1>1, <1>2, <1>3, PTL DEF LinkSpec
=============================================================================
