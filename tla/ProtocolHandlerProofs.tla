------------------------ MODULE ProtocolHandlerProofs ------------------------
(***************************************************************************)
(* Proofs about ProtocolHandler, for any messages, sizes and interleavings *)
(* of frames.                                                              *)
(***************************************************************************)
EXTENDS ProtocolHandler, FiniteSetTheorems, SequenceTheorems, WellFoundedInduction, TLAPS

Byte == Messages \X Nat
KeyOf(m) == <<Session[m], Id[m]>>

(* How many frames Compose makes of a message.                             *)
Count(m) == IF Length(m) > MaxPayload THEN Parts(m) + 1 ELSE 1

(* Where the data of the k-th frame, a consecutive one, begin and end.     *)
From(m, k) == (k - 2) * MaxPayload + 1
To(m, k) == LeastOf((k - 1) * MaxPayload, Length(m))

-----------------------------------------------------------------------------
(* What Compose makes                                                      *)

LEMMA LengthType ==
  ASSUME NEW m \in Messages
  PROVE  Length(m) \in Nat /\ (Kind[m] = "rpc" => Length(m) >= BinaryHeaderSize + Json[m])
  BY MessageAssumption, SizeAssumption DEF Length

LEMMA Division ==
  ASSUME NEW n \in Nat, NEW d \in Nat \ {0}
  PROVE  LET q == (n + d - 1) \div d
         IN q \in Nat /\ n <= q * d /\ (n > 0 => (q - 1) * d < n)
<1>. DEFINE q == (n + d - 1) \div d
            r == (n + d - 1) % d
<1>1. q \in Int /\ r \in 0..(d - 1) /\ n + d - 1 = d * q + r
  OBVIOUS
<1>. HIDE DEF q, r
<1>2. d * q = q * d
  BY <1>1
<1>3. (q - 1) * d = q * d - d
  BY <1>1
<1>4. n <= q * d /\ (n > 0 => (q - 1) * d < n) /\ q * d >= 0
  BY <1>1, <1>2, <1>3
<1>5. q >= 0
  BY <1>1, <1>4
<1>. QED
  BY <1>1, <1>4, <1>5 DEF q

LEMMA PartsType ==
  ASSUME NEW m \in Messages
  PROVE  /\ Parts(m) \in Nat
         /\ Length(m) <= Parts(m) * MaxPayload
         /\ Length(m) > 0 => (Parts(m) - 1) * MaxPayload < Length(m)
         /\ Length(m) > MaxPayload => Parts(m) >= 2
<1>1. Length(m) \in Nat /\ MaxPayload \in Nat \ {0}
  BY LengthType, SizeAssumption
<1>2. /\ Parts(m) \in Nat
      /\ Length(m) <= Parts(m) * MaxPayload
      /\ Length(m) > 0 => (Parts(m) - 1) * MaxPayload < Length(m)
  BY <1>1, Division DEF Parts
<1>3. ASSUME Length(m) > MaxPayload, Parts(m) < 2 PROVE FALSE
  <2>1. Parts(m) = 0 \/ Parts(m) = 1
    BY <1>2, <1>3
  <2>. QED
    BY <1>1, <1>2, <1>3, <2>1
<1>. QED
  BY <1>2, <1>3

LEMMA BytesType ==
  ASSUME NEW m \in Messages, NEW a \in Nat \ {0}, NEW b \in Nat, b >= a - 1
  PROVE  /\ Bytes(m, a, b) \in Seq(Byte)
         /\ Len(Bytes(m, a, b)) = b - a + 1
         /\ \A i \in 1..(b - a + 1) : Bytes(m, a, b)[i] = <<m, a + i - 1>>
<1>1. b - a + 1 \in Nat
  OBVIOUS
<1>2. \A i \in 1..(b - a + 1) : <<m, a + i - 1>> \in Byte
  BY DEF Byte
<1>. QED
  BY <1>1, <1>2 DEF Bytes


LEMMA Beginning ==
  ASSUME NEW m \in Messages, NEW n \in Nat
  PROVE  /\ Bytes(m, 1, n) \in Seq(Byte) /\ Len(Bytes(m, 1, n)) = n
         /\ \A i \in 1..n : Bytes(m, 1, n)[i] = <<m, i>>
<1>1. 1 \in Nat \ {0} /\ n >= 1 - 1 /\ n - 1 + 1 = n /\ \A i \in 1..n : 1 + i - 1 = i
  OBVIOUS
<1>2. /\ Bytes(m, 1, n) \in Seq(Byte) /\ Len(Bytes(m, 1, n)) = n - 1 + 1
      /\ \A i \in 1..(n - 1 + 1) : Bytes(m, 1, n)[i] = <<m, 1 + i - 1>>
  BY <1>1, BytesType
<1>. QED
  BY <1>1, <1>2

LEMMA SingleShape ==
  ASSUME NEW m \in Messages, Length(m) <= MaxPayload
  PROVE  Count(m) = 1 /\ Len(Composed(m)) = 1 /\ Composed(m)[1] = Single(m)
<1>1. ~(Length(m) > MaxPayload)
  BY LengthType, SizeAssumption
<1>. QED
  BY <1>1 DEF Count, Composed

LEMMA SeveralShape ==
  ASSUME NEW m \in Messages, Length(m) > MaxPayload
  PROVE  /\ Count(m) \in Nat /\ Count(m) >= 3
         /\ Len(Composed(m)) = Count(m)
         /\ Composed(m)[1] = First(m)
         /\ \A k \in 2..Count(m) : Composed(m)[k] = Consecutive(m, k - 1)
<1>. DEFINE P == Parts(m)
            F == First(m)
            C(k) == Consecutive(m, k)
            S == {F} \cup {C(k) : k \in 1..P}
            t == [k \in 1..P |-> C(k)]
<1>1. P \in Nat /\ P >= 2 /\ Count(m) = P + 1
  BY PartsType DEF Count
<1>2. Composed(m) = <<F>> \o t
  BY DEF Composed
<1>. HIDE DEF P, F, C
<1>3. t \in Seq(S) /\ Len(t) = P /\ <<F>> \in Seq(S)
  BY <1>1
<1>. HIDE DEF t, S
<1>4. /\ Len(<<F>> \o t) = P + 1
      /\ (<<F>> \o t)[1] = F
      /\ \A k \in 2..(P + 1) : (<<F>> \o t)[k] = t[k - 1]
  BY <1>1, <1>3
<1>5. \A k \in 2..(P + 1) : t[k - 1] = C(k - 1)
  BY <1>1 DEF t
<1>. QED
  BY <1>1, <1>2, <1>4, <1>5 DEF F, C

LEMMA CountType ==
  ASSUME NEW m \in Messages
  PROVE  /\ Count(m) \in Nat \ {0} /\ Len(Composed(m)) = Count(m)
         /\ Count(m) = 1 <=> Length(m) <= MaxPayload
<1>1. Length(m) \in Nat /\ MaxPayload \in Nat
  BY LengthType, SizeAssumption
<1>2. CASE Length(m) <= MaxPayload
  <2>1. Count(m) = 1 /\ Len(Composed(m)) = 1
    BY <1>2, SingleShape
  <2>. QED
    BY <1>2, <2>1
<1>3. CASE Length(m) > MaxPayload
  BY <1>1, <1>3, SeveralShape
<1>. QED
  BY <1>1, <1>2, <1>3

(* The data of consecutive frames.                                         *)
LEMMA Extent ==
  ASSUME NEW m \in Messages, Length(m) > MaxPayload, NEW k \in 2..Count(m)
  PROVE  /\ From(m, k) \in Nat \ {0} /\ To(m, k) \in Nat
         /\ From(m, k) <= To(m, k) /\ To(m, k) <= Length(m)
         /\ To(m, k) - From(m, k) < MaxPayload
         /\ From(m, 2) = 1 /\ To(m, Count(m)) = Length(m)
         /\ k < Count(m) => To(m, k) = (k - 1) * MaxPayload /\ From(m, k + 1) = To(m, k) + 1
<1>. DEFINE M == MaxPayload
            L == Length(m)
            c == Count(m)
<1>1. L \in Nat /\ M \in Nat \ {0} /\ L > M /\ c \in Nat /\ k \in 2..c /\ c >= 3
  BY LengthType, SizeAssumption, SeveralShape
<1>2. L <= (c - 1) * M /\ (c - 2) * M < L
  <2>1. c = Parts(m) + 1 /\ Parts(m) \in Nat
    BY PartsType DEF Count
  <2>. QED
    BY <1>1, <2>1, PartsType
<1>. HIDE DEF M, L, c
<1>3. (k - 1) * M = (k - 2) * M + M /\ (k - 2) * M \in Nat /\ (k - 1) * M \in Nat
  BY <1>1
<1>4. k < c => (k - 1) * M < L
  <2>1. SUFFICES ASSUME k < c PROVE (k - 1) * M <= (c - 2) * M
    BY <1>1, <1>2, <1>3
  <2>2. k - 1 <= c - 2 /\ k - 1 \in Nat /\ c - 2 \in Nat
    BY <1>1, <2>1
  <2>. QED
    BY <1>1, <2>2
<1>5. k = c => (k - 2) * M < L /\ L <= (k - 1) * M
  BY <1>1, <1>2
<1>6. (k - 2) * M < L
  BY <1>1, <1>3, <1>4, <1>5
<1>7. From(m, k) = (k - 2) * M + 1 /\ From(m, 2) = 1 /\ From(m, k + 1) = (k - 1) * M + 1
  BY <1>1 DEF From, M
<1>8. To(m, k) = LeastOf((k - 1) * M, L) /\ To(m, c) = LeastOf((c - 1) * M, L)
  BY DEF To, M, L
<1>9. To(m, c) = L
  <2>1. (c - 1) * M \in Nat
    BY <1>1
  <2>. QED
    BY <1>1, <1>2, <1>8, <2>1 DEF LeastOf
<1>10. /\ k < c => To(m, k) = (k - 1) * M
       /\ k = c => To(m, k) = L
  BY <1>1, <1>3, <1>4, <1>8, <1>9 DEF LeastOf
<1>. QED
  BY <1>1, <1>3, <1>4, <1>5, <1>6, <1>7, <1>9, <1>10 DEF M, L, c


(* What every frame says about itself.                                     *)
LEMMA RecordsType ==
  ASSUME NEW S, NEW data \in Seq(S)
  PROVE  /\ Len(Records(data)) \in Nat
         /\ data # <<>> /\ Len(data) <= MaxRecord => Records(data) = <<data>>
<1>. DEFINE n == (Len(data) + MaxRecord - 1) \div MaxRecord
            R(r) == SubSeq(data, (r - 1) * MaxRecord + 1, LeastOf(r * MaxRecord, Len(data)))
<1>1. Len(data) \in Nat /\ MaxRecord \in Nat \ {0}
  BY SizeAssumption
<1>2. n \in Nat /\ Len(data) <= n * MaxRecord /\ (Len(data) > 0 => (n - 1) * MaxRecord < Len(data))
  BY <1>1, Division
<1>3. Records(data) = [r \in 1..n |-> R(r)]
  BY DEF Records
<1>. HIDE DEF n
<1>4. ASSUME data # <<>>, Len(data) <= MaxRecord PROVE Records(data) = <<data>>
  <2>1. Len(data) > 0
    BY <1>1, <1>4
  <2>2. n = 1
    <3>1. n # 0
      BY <1>1, <1>2, <2>1
    <3>2. (n - 1) * MaxRecord < MaxRecord
      BY <1>1, <1>2, <1>4, <2>1
    <3>3. ASSUME n > 1 PROVE FALSE
      <4>1. n - 1 >= 1 /\ n - 1 \in Nat
        BY <1>2, <3>3
      <4>. QED
        BY <1>1, <3>2, <4>1
    <3>. QED
      BY <1>2, <3>1, <3>3
  <2>3. R(1) = data
    <3>1. (1 - 1) * MaxRecord + 1 = 1 /\ LeastOf(1 * MaxRecord, Len(data)) = Len(data)
      BY <1>1, <1>4 DEF LeastOf
    <3>. QED
      BY <3>1
  <2>. HIDE DEF R
  <2>4. [r \in 1..1 |-> R(r)] = <<R(1)>>
    OBVIOUS
  <2>. QED
    BY <1>3, <2>2, <2>3, <2>4
<1>5. Len(Records(data)) = n
  <2>. HIDE DEF R
  <2>. QED
    BY <1>2, <1>3
<1>. QED
  BY <1>2, <1>4, <1>5

LEMMA FrameFields ==
  ASSUME NEW m \in Messages, NEW type, NEW info, NEW S, NEW data \in Seq(S), NEW enc
  PROVE  LET f == GetBinaryFrame(m, type, info, data, enc)
         IN /\ f.type = type /\ f.info = info /\ f.enc = enc /\ f.data = data
            /\ f.session = Session[m] /\ f.id = Id[m] /\ f.service = Kind[m]
            /\ Key(f) = KeyOf(m)
            /\ f.size \in Nat /\ f.size >= Len(data)
<1>. DEFINE o == IF enc THEN Overhead * Len(Records(data)) ELSE 0
            f == GetBinaryFrame(m, type, info, data, enc)
<1>1. Overhead \in Nat /\ Len(Records(data)) \in Nat /\ Len(data) \in Nat
  BY SizeAssumption, RecordsType
<1>2. o \in Nat
  BY <1>1
<1>3. f.size = Len(data) + o
  BY DEF GetBinaryFrame
<1>. HIDE DEF o
<1>4. f.size \in Nat /\ f.size >= Len(data)
  BY <1>1, <1>2, <1>3
<1>5. /\ f.type = type /\ f.info = info /\ f.enc = enc /\ f.data = data
      /\ f.session = Session[m] /\ f.id = Id[m] /\ f.service = Kind[m]
  BY DEF GetBinaryFrame
<1>. QED
  BY <1>4, <1>5 DEF Key, KeyOf

(* The three kinds of frames of a message.                                 *)
Alone(m, f) ==
  /\ f.type = IF Kind[m] = "control" THEN "control" ELSE "single"
  /\ f.enc = (m \in Encrypted)
  /\ f.data = Bytes(m, 1, Length(m))
Leads(m, f) == f.type = "first" /\ f.enc = FALSE /\ Len(f.data) = FirstSize /\ f.data # <<>>
               /\ f.size > 0
Follows(m, k, f) ==
  /\ f.type = "consecutive" /\ f.enc = (m \in Encrypted)
  /\ f.data = Bytes(m, From(m, k), To(m, k))
  /\ f.info = 0 <=> k = Count(m)
Describes(m, f) ==
  /\ f.session = Session[m] /\ f.id = Id[m] /\ f.service = Kind[m] /\ Key(f) = KeyOf(m)
  /\ f.size \in Nat /\ f.size >= Len(f.data) /\ Len(f.data) \in Nat

LEMMA AloneFrame ==
  ASSUME NEW m \in Messages, Length(m) <= MaxPayload
  PROVE  LET f == Composed(m)[1] IN Describes(m, f) /\ Alone(m, f)
<1>1. Composed(m)[1] = Single(m) /\ Length(m) \in Nat
  BY SingleShape, LengthType
<1>2. Bytes(m, 1, Length(m)) \in Seq(Byte)
  BY <1>1, BytesType
<1>. QED
  BY <1>1, <1>2, FrameFields DEF Single, Describes, Alone

LEMMA LeadsFrame ==
  ASSUME NEW m \in Messages, Length(m) > MaxPayload
  PROVE  LET f == Composed(m)[1] IN Describes(m, f) /\ Leads(m, f)
<1>. DEFINE d == [i \in 1..FirstSize |-> None]
<1>1. Composed(m)[1] = GetBinaryFrame(m, "first", 0, d, FALSE)
  BY SeveralShape DEF First
<1>2. FirstSize \in Nat \ {0}
  BY SizeAssumption
<1>. DEFINE S == {None}
            f == GetBinaryFrame(m, "first", 0, d, FALSE)
<1>3. d \in Seq(S) /\ Len(d) = FirstSize
  BY <1>2
<1>4. d # <<>>
  BY <1>2, <1>3
<1>. HIDE DEF d, S
<1>5. /\ f.type = "first" /\ f.enc = FALSE /\ f.data = d
      /\ f.session = Session[m] /\ f.id = Id[m] /\ f.service = Kind[m]
      /\ Key(f) = KeyOf(m) /\ f.size = Len(d) + 0
  BY DEF GetBinaryFrame, Key, KeyOf
<1>. HIDE DEF f
<1>6. f.size > 0 /\ Len(f.data) \in Nat /\ Len(f.data) = FirstSize
  BY <1>2, <1>3, <1>5
<1>7. Describes(m, f) /\ Leads(m, f)
  BY <1>4, <1>5, <1>6 DEF Describes, Leads
<1>. QED
  BY <1>1, <1>7 DEF f

LEMMA InfoEnds ==
  ASSUME NEW k \in Nat \ {0}, NEW n \in Nat
  PROVE  FrameInfo(k, n) = 0 <=> k = n
<1>1. MaxInfo \in Nat \ {0}
  BY SizeAssumption
<1>2. ((k - 1) % MaxInfo) + 1 # 0
  <2>1. (k - 1) % MaxInfo \in 0..(MaxInfo - 1)
    BY <1>1
  <2>. QED
    BY <1>1, <2>1
<1>. QED
  BY <1>2 DEF FrameInfo

LEMMA FollowsFrame ==
  ASSUME NEW m \in Messages, Length(m) > MaxPayload, NEW k \in 2..Count(m)
  PROVE  LET f == Composed(m)[k] IN Describes(m, f) /\ Follows(m, k, f)
<1>. DEFINE j == k - 1
            d == Bytes(m, From(m, k), To(m, k))
<1>0. Count(m) \in Nat /\ Count(m) = Parts(m) + 1 /\ Parts(m) \in Nat
  BY SeveralShape, PartsType DEF Count
<1>1. Composed(m)[k] = Consecutive(m, j)
  BY SeveralShape
<1>2. From(m, k) = (j - 1) * MaxPayload + 1 /\ To(m, k) = LeastOf(j * MaxPayload, Length(m))
  <2>1. k - 2 = j - 1
    BY <1>0
  <2>. QED
    BY <2>1 DEF From, To
<1>3. Consecutive(m, j) =
        GetBinaryFrame(m, "consecutive", FrameInfo(j, Parts(m)), d, m \in Encrypted)
  BY <1>2 DEF Consecutive
<1>4. d \in Seq(Byte)
  <2>1. From(m, k) \in Nat \ {0} /\ To(m, k) \in Nat /\ To(m, k) >= From(m, k) - 1
    <3>1. From(m, k) \in Nat \ {0} /\ To(m, k) \in Nat /\ From(m, k) <= To(m, k)
      BY Extent
    <3>. QED
      BY <3>1
  <2>. QED
    BY <2>1, BytesType
<1>5. FrameInfo(j, Parts(m)) = 0 <=> k = Count(m)
  BY <1>0, InfoEnds
<1>. HIDE DEF j, d
<1>. QED
  BY <1>1, <1>3, <1>4, <1>5, FrameFields DEF Describes, Follows, d


(* The frame f is the k-th of message m.                                   *)
Piece(f, m, k) == m \in Messages /\ k \in 1..Count(m) /\ f = Composed(m)[k]

LEMMA PieceKinds ==
  ASSUME NEW f, NEW m, NEW k, Piece(f, m, k)
  PROVE  /\ Describes(m, f)
         /\ k \in Nat \ {0} /\ Count(m) \in Nat \ {0} /\ k <= Count(m)
         /\ Count(m) = 1 => Length(m) <= MaxPayload /\ Alone(m, f)
         /\ Count(m) # 1 => Length(m) > MaxPayload /\ k \in 1..Count(m)
         /\ Count(m) # 1 /\ k = 1 => Leads(m, f)
         /\ Count(m) # 1 /\ k # 1 => Follows(m, k, f) /\ k \in 2..Count(m)
<1>1. m \in Messages /\ k \in 1..Count(m) /\ f = Composed(m)[k] /\ Count(m) \in Nat \ {0}
  BY CountType DEF Piece
<1>2. Length(m) \in Nat /\ MaxPayload \in Nat /\ (Count(m) = 1 <=> Length(m) <= MaxPayload)
  BY <1>1, LengthType, SizeAssumption, CountType
<1>3. CASE Count(m) = 1
  <2>1. k = 1
    BY <1>1, <1>3
  <2>. QED
    BY <1>1, <1>2, <1>3, <2>1, AloneFrame
<1>4. CASE Count(m) # 1 /\ k = 1
  BY <1>1, <1>2, <1>4, LeadsFrame
<1>5. CASE Count(m) # 1 /\ k # 1
  <2>1. k \in 2..Count(m) /\ Length(m) > MaxPayload
    BY <1>1, <1>2, <1>5
  <2>2. Describes(m, f) /\ Follows(m, k, f)
    BY <1>1, <2>1, FollowsFrame
  <2>. QED
    BY <1>1, <1>5, <2>1, <2>2
<1>. QED
  BY <1>3, <1>4, <1>5

(* The data of the frames that carry a part of the message.                *)
LEMMA PieceData ==
  ASSUME NEW f, NEW m, NEW k, Piece(f, m, k), Count(m) = 1 \/ k # 1
  PROVE  /\ f.data \in Seq(Byte) /\ f.enc = (m \in Encrypted)
         /\ Len(f.data) <= MaxPayload /\ Len(f.data) <= Length(m)
         /\ Count(m) # 1 => f.data # <<>> /\ f.data[1] = <<m, From(m, k)>>
<1>1. m \in Messages /\ Length(m) \in Nat /\ MaxPayload \in Nat
  BY LengthType, SizeAssumption DEF Piece
<1>2. CASE Count(m) = 1
  <2>1. f.data = Bytes(m, 1, Length(m)) /\ Length(m) <= MaxPayload /\ f.enc = (m \in Encrypted)
    BY <1>2, PieceKinds DEF Alone
  <2>2. Bytes(m, 1, Length(m)) \in Seq(Byte) /\ Len(Bytes(m, 1, Length(m))) = Length(m) - 1 + 1
    BY <1>1, BytesType
  <2>. QED
    BY <1>1, <1>2, <2>1, <2>2
<1>3. CASE Count(m) # 1 /\ k # 1
  <2>. DEFINE a == From(m, k)
              b == To(m, k)
  <2>1. /\ f.data = Bytes(m, a, b) /\ f.enc = (m \in Encrypted)
        /\ Length(m) > MaxPayload /\ k \in 2..Count(m)
    BY <1>3, PieceKinds DEF Follows
  <2>2. a \in Nat \ {0} /\ b \in Nat /\ a <= b /\ b <= Length(m) /\ b - a < MaxPayload
    BY <1>1, <2>1, Extent
  <2>. HIDE DEF a, b
  <2>3. b >= a - 1
    BY <2>2
  <2>4. /\ f.data \in Seq(Byte) /\ Len(f.data) = b - a + 1
        /\ \A i \in 1..(b - a + 1) : f.data[i] = <<m, a + i - 1>>
    <3>1. /\ Bytes(m, a, b) \in Seq(Byte) /\ Len(Bytes(m, a, b)) = b - a + 1
          /\ \A i \in 1..(b - a + 1) : Bytes(m, a, b)[i] = <<m, a + i - 1>>
      BY <1>1, <2>2, <2>3, BytesType
    <3>. QED
      BY <2>1, <3>1
  <2>5. f.data[1] = <<m, a>>
    <3>1. 1 \in 1..(b - a + 1) /\ a + 1 - 1 = a
      BY <2>2
    <3>. QED
      BY <2>4, <3>1
  <2>6. Len(f.data) > 0 /\ Len(f.data) <= MaxPayload /\ Len(f.data) <= Length(m)
    BY <1>1, <2>2, <2>4
  <2>7. f.data # <<>>
    BY <2>4, <2>6
  <2>. QED
    BY <2>1, <2>4, <2>5, <2>6, <2>7 DEF a
<1>. QED
  BY <1>2, <1>3

LEMMA PieceUnique ==
  ASSUME NEW f, NEW m, NEW k, NEW n, NEW l, Piece(f, m, k), Piece(f, n, l)
  PROVE  m = n /\ k = l
<1>1. m = n
  <2>1. m \in Messages /\ n \in Messages /\ Session[m] = Session[n] /\ Id[m] = Id[n]
    BY PieceKinds DEF Describes, Piece
  <2>. QED
    BY <2>1, MessageAssumption
<1>2. CASE Count(m) = 1
  BY <1>1, <1>2 DEF Piece
<1>3. CASE Count(m) # 1
  <2>1. k = 1 => f.type = "first"
    BY <1>3, PieceKinds DEF Leads
  <2>2. k # 1 => f.type = "consecutive"
    BY <1>3, PieceKinds DEF Follows
  <2>3. l = 1 => f.type = "first"
    BY <1>1, <1>3, PieceKinds DEF Leads
  <2>4. l # 1 => f.type = "consecutive"
    BY <1>1, <1>3, PieceKinds DEF Follows
  <2>5. CASE k # 1 /\ l # 1
    <3>1. f.data[1] = <<m, From(m, k)>>
      BY <1>3, <2>5, PieceData
    <3>2. f.data[1] = <<m, From(m, l)>>
      BY <1>1, <1>3, <2>5, PieceData
    <3>3. (k - 2) * MaxPayload + 1 = (l - 2) * MaxPayload + 1
      BY <3>1, <3>2 DEF From
    <3>4. k \in Int /\ l \in Int /\ MaxPayload \in Nat \ {0}
      BY PieceKinds, SizeAssumption
    <3>5. (k - 2) * MaxPayload = (l - 2) * MaxPayload
      BY <3>3, <3>4
    <3>6. k - 2 = l - 2
      BY <3>4, <3>5
    <3>. QED
      BY <1>1, <3>4, <3>6
  <2>. QED
    BY <1>1, <2>1, <2>2, <2>3, <2>4, <2>5
<1>. QED
  BY <1>2, <1>3


-----------------------------------------------------------------------------
(* What Parse makes of it                                                  *)

(* Every encrypted frame fits in one TLS record.                           *)
Fits == \A m \in Encrypted : Length(m) <= MaxRecord \/ MaxPayload <= MaxRecord

(* A frame that cannot be decrypted.                                       *)
Fails(f) == f.enc /\ (f.session \notin secure \/ f.data = <<>>)

NothingInBio == bioIn = [s \in Sessions |-> <<>>]

LEMMA PieceDecrypted ==
  ASSUME Fits, NothingInBio, NEW f, NEW m, NEW k, Piece(f, m, k)
  PROVE  /\ Decrypted(f).data = f.data /\ Decrypted(f).left = bioIn
         /\ Decrypted(f).status = "ERROR" <=> Fails(f)
<1>1. CASE ~f.enc
  BY <1>1 DEF Decrypted, Fails
<1>2. CASE Fails(f)
  BY <1>2 DEF Decrypted, Fails
<1>3. CASE f.enc /\ ~Fails(f)
  <2>1. m \in Messages /\ Session[m] = f.session /\ f.session \in Sessions
    BY PieceKinds DEF Piece, Describes, Sessions
  <2>2. Count(m) = 1 \/ k # 1
    BY <1>3, PieceKinds DEF Leads
  <2>3. m \in Encrypted /\ f.data \in Seq(Byte) /\ f.data # <<>> /\ Len(f.data) <= MaxRecord
    <3>1. /\ f.data \in Seq(Byte) /\ f.enc = (m \in Encrypted)
          /\ Len(f.data) <= MaxPayload /\ Len(f.data) <= Length(m)
      BY <2>2, PieceData
    <3>2. MaxPayload \in Nat /\ Length(m) \in Nat /\ MaxRecord \in Nat /\ Len(f.data) \in Nat
      BY <2>1, <3>1, SizeAssumption, LengthType
    <3>3. m \in Encrypted /\ f.data # <<>>
      BY <1>3, <3>1 DEF Fails
    <3>4. Length(m) <= MaxRecord \/ MaxPayload <= MaxRecord
      BY <3>3 DEF Fits
    <3>5. Len(f.data) <= MaxRecord
      BY <3>1, <3>2, <3>4
    <3>. QED
      BY <3>1, <3>3, <3>5
  <2>4. Records(f.data) = <<f.data>>
    BY <2>3, RecordsType
  <2>5. bioIn[f.session] = <<>>
    BY <2>1 DEF NothingInBio
  <2>. DEFINE d == f.data
  <2>6. InBio(f) = <<d>>
    <3>1. InBio(f) = <<>> \o <<d>>
      BY <2>4, <2>5 DEF InBio
    <3>. HIDE DEF d
    <3>. QED
      BY <3>1
  <2>. HIDE DEF d
  <2>7. Head(InBio(f)) = d /\ Tail(InBio(f)) = <<>>
    BY <2>6
  <2>8. [bioIn EXCEPT ![f.session] = <<>>] = bioIn
    BY <2>5 DEF NothingInBio
  <2>9. Decrypted(f) = [status |-> "SUCCESS", data |-> Head(InBio(f)),
                        left |-> [bioIn EXCEPT ![f.session] = Tail(InBio(f))]]
    BY <1>3 DEF Decrypted, Fails
  <2>10. Decrypted(f).data = d /\ Decrypted(f).left = bioIn /\ Decrypted(f).status = "SUCCESS"
    BY <2>7, <2>8, <2>9
  <2>. QED
    BY <1>3, <2>10 DEF d
<1>. QED
  BY <1>1, <1>2, <1>3

(* Cutting pieces out of the data of a message.                            *)
LEMMA SubBytes ==
  ASSUME NEW m \in Messages, NEW n \in Nat, NEW a \in Nat \ {0}, NEW b \in Nat,
         b >= a - 1, b <= n
  PROVE  SubSeq(Bytes(m, 1, n), a, b) = Bytes(m, a, b)
<1>. DEFINE D == Bytes(m, 1, n)
            E == Bytes(m, a, b)
            F == SubSeq(D, a, b)
<1>1. D \in Seq(Byte) /\ Len(D) = n /\ \A i \in 1..n : D[i] = <<m, i>>
  BY Beginning
<1>2. E \in Seq(Byte) /\ Len(E) = b - a + 1 /\ \A i \in 1..(b - a + 1) : E[i] = <<m, a + i - 1>>
  BY BytesType
<1>. HIDE DEF D, E
<1>3. F \in Seq(Byte) /\ Len(F) = b - a + 1 /\ \A i \in 1..(b - a + 1) : F[i] = D[a + i - 1]
  BY <1>1
<1>4. \A i \in 1..(b - a + 1) : a + i - 1 \in 1..n
  OBVIOUS
<1>. HIDE DEF F
<1>5. \A i \in 1..Len(F) : F[i] = E[i]
  BY <1>1, <1>2, <1>3, <1>4
<1>6. F = E
  BY <1>2, <1>3, <1>5
<1>. QED
  BY <1>6 DEF D, E, F

LEMMA JoinBytes ==
  ASSUME NEW m \in Messages, NEW b \in Nat, NEW c \in Nat, b <= c
  PROVE  Bytes(m, 1, b) \o Bytes(m, b + 1, c) = Bytes(m, 1, c)
<1>. DEFINE D == Bytes(m, 1, b)
            E == Bytes(m, b + 1, c)
            F == Bytes(m, 1, c)
<1>1. D \in Seq(Byte) /\ Len(D) = b /\ \A i \in 1..b : D[i] = <<m, i>>
  BY Beginning
<1>2. F \in Seq(Byte) /\ Len(F) = c /\ \A i \in 1..c : F[i] = <<m, i>>
  BY Beginning
<1>3. E \in Seq(Byte) /\ Len(E) = c - b /\ \A i \in 1..(c - b) : E[i] = <<m, b + i>>
  <2>0. b + 1 \in Nat \ {0} /\ c >= (b + 1) - 1
    OBVIOUS
  <2>1. /\ E \in Seq(Byte) /\ Len(E) = c - (b + 1) + 1
        /\ \A i \in 1..(c - (b + 1) + 1) : E[i] = <<m, (b + 1) + i - 1>>
    BY <2>0, BytesType
  <2>. HIDE DEF E
  <2>2. c - (b + 1) + 1 = c - b /\ \A i \in 1..(c - b) : (b + 1) + i - 1 = b + i
    OBVIOUS
  <2>. QED
    BY <2>1, <2>2
<1>. HIDE DEF D, E, F
<1>4. D \o E \in Seq(Byte) /\ Len(D \o E) = c
  <2>0. D \in Seq(Byte) /\ E \in Seq(Byte)
    BY <1>1, <1>3
  <2>1. D \o E \in Seq(Byte) /\ Len(D \o E) = Len(D) + Len(E)
    BY <2>0
  <2>. QED
    BY <1>1, <1>3, <2>1
<1>5. ASSUME NEW i \in 1..c PROVE (D \o E)[i] = <<m, i>>
  <2>1. CASE i <= b
    BY <1>1, <1>3, <2>1
  <2>2. CASE i > b
    <3>1. (D \o E)[i] = E[i - b] /\ i - b \in 1..(c - b) /\ b + (i - b) = i
      BY <1>1, <1>3, <2>2
    <3>. QED
      BY <1>3, <3>1
  <2>3. i <= b \/ i > b
    OBVIOUS
  <2>. QED
    BY <2>1, <2>2, <2>3, Zenon
<1>6. D \o E = F
  <2>1. \A i \in 1..Len(F) : (D \o E)[i] = F[i]
    BY <1>2, <1>5
  <2>. QED
    BY <1>2, <1>4, <2>1
<1>. QED
  BY <1>6 DEF D, E, F


(* The message is taken apart as it was put together.                      *)
Gives(r, m) == r.key = Content(m).key /\ r.json = Content(m).json /\ r.bin = Content(m).bin

LEMMA WholeGives ==
  ASSUME NEW m \in Messages, NEW f, Describes(m, f), NEW status, NEW size \in Nat,
         size >= Length(m), f.type = "control" => Kind[m] # "rpc"
  PROVE  LET r == Result(f, status, Bytes(m, 1, Length(m)), size)
         IN Gives(r, m) /\ r.key = KeyOf(m) /\ r.status = status
<1>. DEFINE L == Length(m)
            D == Bytes(m, 1, L)
            j == Json[m]
            B == BinaryHeaderSize
            r == Result(f, status, D, size)
<1>1. /\ L \in Nat /\ j \in Nat /\ B \in Nat \ {0}
      /\ Kind[m] = "rpc" => L >= B + j
  BY LengthType, MessageAssumption, SizeAssumption
<1>2. f.service = Kind[m] /\ Key(f) = KeyOf(m)
  BY DEF Describes
<1>3. D \in Seq(Byte) /\ Len(D) = L /\ \A i \in 1..L : D[i] = <<m, i>>
  BY <1>1, Beginning
<1>4. CASE Kind[m] # "rpc"
  <2>1. r = [key |-> Key(f), json |-> <<>>, bin |-> D, status |-> status]
    BY <1>2, <1>4 DEF Result
  <2>2. Content(m) = [key |-> KeyOf(m), json |-> <<>>, bin |-> Bytes(m, 0 + 1, L)]
    BY <1>4 DEF Content, KeyOf
  <2>. QED
    BY <1>2, <2>1, <2>2 DEF Gives
<1>5. CASE Kind[m] = "rpc"
  <2>. DEFINE J == Sub(D, B + 1, B + j)
              I == IF size > j + B THEN SubSeq(D, B + j + 1, Len(D)) ELSE <<>>
  <2>1. Json[D[1][1]] = j
    <3>1. D[1] = <<m, 1>>
      BY <1>1, <1>3, <1>5
    <3>. QED
      BY <3>1
  <2>2. r = [key |-> Key(f), json |-> J, bin |-> I, status |-> status]
    BY <1>2, <1>5, <2>1 DEF Result, ParseBinaryHeader
  <2>3. Content(m) = [key |-> KeyOf(m), json |-> Bytes(m, B + 1, B + j),
                      bin |-> Bytes(m, B + j + 1, L)]
    BY <1>5 DEF Content, KeyOf
  <2>4. J = Bytes(m, B + 1, B + j)
    <3>1. LeastOf(B + j, Len(D)) = B + j
      BY <1>1, <1>3, <1>5 DEF LeastOf
    <3>2. B + 1 \in Nat \ {0} /\ B + j \in Nat /\ B + j >= (B + 1) - 1 /\ B + j <= L
      BY <1>1, <1>5
    <3>. DEFINE a == B + 1
                b == B + j
    <3>3. J = SubSeq(Bytes(m, 1, L), a, b)
      BY <3>1 DEF Sub
    <3>4. a \in Nat \ {0} /\ b \in Nat /\ b >= a - 1 /\ b <= L
      BY <3>2
    <3>. HIDE DEF a, b, L, J
    <3>5. SubSeq(Bytes(m, 1, L), a, b) = Bytes(m, a, b)
      BY <1>1, <3>4, SubBytes
    <3>. QED
      BY <3>3, <3>5 DEF a, b
  <2>5. I = Bytes(m, B + j + 1, L)
    <3>1. B + j + 1 \in Nat \ {0} /\ L >= (B + j + 1) - 1 /\ L <= L
      BY <1>1, <1>5
    <3>2. CASE size > j + B
      <4>. DEFINE a == B + j + 1
      <4>1. I = SubSeq(Bytes(m, 1, L), a, L)
        BY <1>3, <3>2
      <4>. HIDE DEF I
      <4>2. a \in Nat \ {0} /\ L >= a - 1 /\ L <= L
        BY <3>1
      <4>. HIDE DEF a, L
      <4>3. SubSeq(Bytes(m, 1, L), a, L) = Bytes(m, a, L)
        BY <1>1, <4>2, SubBytes
      <4>. QED
        BY <4>1, <4>3 DEF a
    <3>3. CASE ~(size > j + B)
      <4>1. L = B + j
        BY <1>1, <1>5, <3>3
      <4>2. Bytes(m, B + j + 1, L) \in Seq(Byte) /\ Len(Bytes(m, B + j + 1, L)) = L - (B + j + 1) + 1
        BY <1>1, <3>1, BytesType
      <4>3. Bytes(m, B + j + 1, L) = <<>>
        BY <1>1, <4>1, <4>2
      <4>. QED
        BY <3>3, <4>3
    <3>. QED
      BY <3>2, <3>3
  <2>. HIDE DEF J, I
  <2>. QED
    BY <1>2, <2>2, <2>3, <2>4, <2>5 DEF Gives
<1>. QED
  BY <1>4, <1>5

(* A frame without a payload, or a control frame, is reported as it is.    *)
LEMMA ReportGives ==
  ASSUME NEW m \in Messages, NEW f, Describes(m, f), NEW status, Kind[m] # "rpc"
  PROVE  LET r == Report(f, status, Bytes(m, 1, Length(m)))
         IN Gives(r, m) /\ r.key = KeyOf(m) /\ r.status = status
<1>1. Content(m) = [key |-> KeyOf(m), json |-> <<>>, bin |-> Bytes(m, 0 + 1, Length(m))]
  BY DEF Content, KeyOf
<1>. QED
  BY <1>1 DEF Gives, Report, Describes


-----------------------------------------------------------------------------
(* What is under way                                                       *)

Pieces == UNION {{Composed(m)[k] : k \in 1..Count(m)} : m \in Messages}

(* Of every message the frames up to p[m] are parsed, those from there to  *)
(* q[m] are on the wire W, each once and in their order.                   *)
Counting(p, q, C) ==
  /\ p \in [Messages -> Nat] /\ q \in [Messages -> Nat]
  /\ \A m \in Messages : p[m] <= q[m] /\ q[m] <= Count(m) /\ (m \notin C => q[m] = 0)
OnWire(p, q, W) ==
  \A i \in 1..Len(W) : \E m \in Messages : \E k \in (p[m] + 1)..q[m] : W[i] = Composed(m)[k]
Complete(p, q, W) ==
  \A m \in Messages : \A k \in (p[m] + 1)..q[m] : \E i \in 1..Len(W) : W[i] = Composed(m)[k]
InTurn(W) ==
  \A m \in Messages : \A k, l \in 1..Count(m) : \A i, j \in 1..Len(W) :
    W[i] = Composed(m)[k] /\ W[j] = Composed(m)[l] => (i < j <=> k < l)
Transit(p, q, W, C) == Counting(p, q, C) /\ OnWire(p, q, W) /\ Complete(p, q, W) /\ InTurn(W)

LEMMA HeadIsNext ==
  ASSUME NEW p, NEW q, NEW C, NEW W \in Seq(Pieces), Transit(p, q, W, C), W # <<>>
  PROVE  \E m \in Messages : /\ Piece(Head(W), m, p[m] + 1) /\ m \in C
                             /\ p[m] \in Nat /\ p[m] + 1 <= q[m] /\ q[m] \in Nat
<1>1. Len(W) \in Nat /\ Len(W) >= 1 /\ Head(W) = W[1]
  BY EmptySeq, HeadTailProperties
<1>0. PICK m \in Messages : \E k \in (p[m] + 1)..q[m] : W[1] = Composed(m)[k]
  BY <1>1 DEF Transit, OnWire
<1>2. PICK k \in (p[m] + 1)..q[m] : W[1] = Composed(m)[k]
  BY <1>0
<1>3. /\ p[m] \in Nat /\ q[m] \in Nat /\ q[m] <= Count(m) /\ Count(m) \in Nat
      /\ m \notin C => q[m] = 0
  BY CountType DEF Transit, Counting
<1>4. k = p[m] + 1
  <2>1. SUFFICES ASSUME k > p[m] + 1 PROVE FALSE
    BY <1>3
  <2>2. p[m] + 1 \in (p[m] + 1)..q[m]
    BY <1>3, <2>1
  <2>3. PICK i \in 1..Len(W) : W[i] = Composed(m)[p[m] + 1]
    BY <2>2 DEF Transit, Complete
  <2>4. k \in 1..Count(m) /\ p[m] + 1 \in 1..Count(m) /\ 1 \in 1..Len(W)
    BY <1>1, <1>3, <2>1
  <2>5. i < 1 <=> p[m] + 1 < k
    BY <1>2, <2>3, <2>4 DEF Transit, InTurn
  <2>. QED
    BY <1>1, <1>3, <2>1, <2>5
<1>5. m \in C /\ k \in 1..Count(m)
  BY <1>3
<1>. QED
  BY <1>1, <1>2, <1>3, <1>4, <1>5 DEF Piece

LEMMA TransitTail ==
  ASSUME NEW p, NEW q, NEW C, NEW W \in Seq(Pieces), Transit(p, q, W, C), W # <<>>,
         NEW m \in Messages, Piece(Head(W), m, p[m] + 1), p[m] + 1 <= q[m]
  PROVE  Transit([p EXCEPT ![m] = p[m] + 1], q, Tail(W), C)
<1>. DEFINE r == [p EXCEPT ![m] = p[m] + 1]
            V == Tail(W)
            k == p[m] + 1
<1>1. /\ Len(W) \in Nat /\ Len(W) >= 1 /\ Head(W) = W[1] /\ Len(V) = Len(W) - 1
      /\ \A i \in 1..Len(V) : V[i] = W[i + 1]
  BY EmptySeq, HeadTailProperties
<1>2. /\ p \in [Messages -> Nat] /\ q \in [Messages -> Nat]
      /\ \A n \in Messages : /\ p[n] \in Nat /\ q[n] \in Nat /\ p[n] <= q[n] /\ q[n] <= Count(n)
                             /\ Count(n) \in Nat
                             /\ n \notin C => q[n] = 0
  BY CountType DEF Transit, Counting
<1>3. r \in [Messages -> Nat] /\ r[m] = k /\ \A n \in Messages : n # m => r[n] = p[n]
  BY <1>2
<1>4. W[1] = Composed(m)[k] /\ k \in 1..Count(m)
  BY <1>1 DEF Piece
<1>. HIDE DEF r, V
<1>5. Counting(r, q, C)
  BY <1>2, <1>3 DEF Counting
<1>6. OnWire(r, q, V)
  <2>. SUFFICES ASSUME NEW i \in 1..Len(V)
                PROVE  \E n \in Messages : \E l \in (r[n] + 1)..q[n] : V[i] = Composed(n)[l]
    BY DEF OnWire
  <2>1. i + 1 \in 1..Len(W) /\ 1 \in 1..Len(W) /\ V[i] = W[i + 1]
    BY <1>1
  <2>0. PICK n \in Messages : \E l \in (p[n] + 1)..q[n] : W[i + 1] = Composed(n)[l]
    BY <2>1 DEF Transit, OnWire
  <2>2. PICK l \in (p[n] + 1)..q[n] : W[i + 1] = Composed(n)[l]
    BY <2>0
  <2>3. l \in 1..Count(n)
    BY <1>2
  <2>4. CASE n = m
    <3>1. 1 < i + 1 <=> k < l
      BY <1>4, <2>1, <2>2, <2>3, <2>4 DEF Transit, InTurn
    <3>2. l \in (r[m] + 1)..q[m]
      BY <1>1, <1>2, <1>3, <2>4, <3>1
    <3>. QED
      BY <2>1, <2>2, <2>4, <3>2
  <2>5. CASE n # m
    <3>1. l \in (r[n] + 1)..q[n]
      BY <1>3, <2>5
    <3>. QED
      BY <2>1, <2>2, <3>1
  <2>. QED
    BY <2>4, <2>5
<1>7. Complete(r, q, V)
  <2>. SUFFICES ASSUME NEW n \in Messages, NEW l \in (r[n] + 1)..q[n]
                PROVE  \E i \in 1..Len(V) : V[i] = Composed(n)[l]
    BY DEF Complete
  <2>1. r[n] \in Nat /\ p[n] \in Nat /\ q[n] \in Nat /\ (n # m => r[n] = p[n])
    BY <1>2, <1>3
  <2>2. l \in (p[n] + 1)..q[n] /\ (n = m => l > k)
    BY <1>3, <2>1
  <2>3. PICK i \in 1..Len(W) : W[i] = Composed(n)[l]
    BY <2>2 DEF Transit, Complete
  <2>4. i # 1
    <3>1. SUFFICES ASSUME i = 1 PROVE FALSE
      OBVIOUS
    <3>2. l \in 1..Count(n)
      BY <1>2, <2>1, <2>2
    <3>3. Piece(W[1], m, k) /\ Piece(W[1], n, l)
      BY <1>4, <2>3, <3>1, <3>2 DEF Piece
    <3>4. m = n /\ k = l
      BY <3>3, PieceUnique
    <3>. QED
      BY <2>2, <3>4, <1>2
  <2>5. i - 1 \in 1..Len(V) /\ (i - 1) + 1 = i
    BY <1>1, <2>4
  <2>. QED
    BY <1>1, <2>3, <2>5
<1>8. InTurn(V)
  <2>. SUFFICES ASSUME NEW n \in Messages, NEW a \in 1..Count(n), NEW b \in 1..Count(n),
                       NEW i \in 1..Len(V), NEW j \in 1..Len(V),
                       V[i] = Composed(n)[a], V[j] = Composed(n)[b]
                PROVE  i < j <=> a < b
    BY DEF InTurn
  <2>1. i + 1 \in 1..Len(W) /\ j + 1 \in 1..Len(W) /\ V[i] = W[i + 1] /\ V[j] = W[j + 1]
    BY <1>1
  <2>2. W[i + 1] = Composed(n)[a] /\ W[j + 1] = Composed(n)[b]
    BY <2>1
  <2>. DEFINE x == i + 1
              y == j + 1
  <2>3. InTurn(W) /\ x \in 1..Len(W) /\ y \in 1..Len(W) /\ W[x] = Composed(n)[a] /\ W[y] = Composed(n)[b]
    BY <2>1, <2>2 DEF Transit
  <2>. HIDE DEF x, y
  <2>4. x < y <=> a < b
    BY <2>3 DEF InTurn
  <2>. QED
    BY <1>1, <2>4 DEF x, y
<1>. QED
  BY <1>5, <1>6, <1>7, <1>8 DEF Transit, r, V


LEMMA TransitAppend ==
  ASSUME NEW p, NEW q, NEW C, NEW W \in Seq(Pieces), Transit(p, q, W, C),
         NEW m \in C, m \in Messages, q[m] < Count(m)
  PROVE  Transit(p, [q EXCEPT ![m] = q[m] + 1], Append(W, Composed(m)[q[m] + 1]), C)
<1>. DEFINE r == [q EXCEPT ![m] = q[m] + 1]
            f == Composed(m)[q[m] + 1]
            V == Append(W, f)
            k == q[m] + 1
<1>1. /\ Len(W) \in Nat /\ Len(V) = Len(W) + 1 /\ V[Len(V)] = f
      /\ \A i \in 1..Len(W) : V[i] = W[i]
  BY AppendProperties
<1>2. /\ p \in [Messages -> Nat] /\ q \in [Messages -> Nat]
      /\ \A n \in Messages : /\ p[n] \in Nat /\ q[n] \in Nat /\ p[n] <= q[n] /\ q[n] <= Count(n)
                             /\ Count(n) \in Nat
                             /\ n \notin C => q[n] = 0
  BY CountType DEF Transit, Counting
<1>3. /\ r \in [Messages -> Nat] /\ r[m] = k /\ \A n \in Messages : n # m => r[n] = q[n]
      /\ k \in 1..Count(m) /\ Piece(f, m, k)
  BY <1>2 DEF Piece
<1>. HIDE DEF r, V
<1>4. Counting(p, r, C)
  BY <1>2, <1>3 DEF Counting
<1>5. OnWire(p, r, V)
  <2>. SUFFICES ASSUME NEW i \in 1..Len(V)
                PROVE  \E n \in Messages : \E l \in (p[n] + 1)..r[n] : V[i] = Composed(n)[l]
    BY DEF OnWire
  <2>1. CASE i = Len(V)
    <3>1. k \in (p[m] + 1)..r[m]
      BY <1>2, <1>3
    <3>. QED
      BY <1>1, <2>1, <3>1
  <2>2. CASE i # Len(V)
    <3>1. i \in 1..Len(W) /\ V[i] = W[i]
      BY <1>1, <2>2
    <3>2. PICK n \in Messages : \E l \in (p[n] + 1)..q[n] : W[i] = Composed(n)[l]
      BY <3>1 DEF Transit, OnWire
    <3>3. PICK l \in (p[n] + 1)..q[n] : W[i] = Composed(n)[l]
      BY <3>2
    <3>4. r[n] \in Nat /\ q[n] <= r[n] /\ p[n] \in Nat /\ q[n] \in Nat
      BY <1>2, <1>3
    <3>5. l \in (p[n] + 1)..r[n]
      BY <3>4
    <3>. QED
      BY <3>1, <3>3, <3>5
  <2>. QED
    BY <2>1, <2>2
<1>6. Complete(p, r, V)
  <2>. SUFFICES ASSUME NEW n \in Messages, NEW l \in (p[n] + 1)..r[n]
                PROVE  \E i \in 1..Len(V) : V[i] = Composed(n)[l]
    BY DEF Complete
  <2>1. CASE n = m /\ l = k
    BY <1>1, <2>1
  <2>2. CASE ~(n = m /\ l = k)
    <3>1. l \in (p[n] + 1)..q[n]
      BY <1>2, <1>3, <2>2
    <3>2. PICK i \in 1..Len(W) : W[i] = Composed(n)[l]
      BY <3>1 DEF Transit, Complete
    <3>3. i \in 1..Len(V) /\ V[i] = W[i]
      BY <1>1
    <3>. QED
      BY <3>2, <3>3
  <2>. QED
    BY <2>1, <2>2
<1>7. ASSUME NEW i \in 1..Len(W), NEW l \in 1..Count(m), W[i] = Composed(m)[l] PROVE l < k
  <2>1. PICK n \in Messages : \E b \in (p[n] + 1)..q[n] : W[i] = Composed(n)[b]
    BY DEF Transit, OnWire
  <2>2. PICK b \in (p[n] + 1)..q[n] : W[i] = Composed(n)[b]
    BY <2>1
  <2>3. b \in 1..Count(n)
    BY <1>2
  <2>4. Piece(W[i], n, b) /\ Piece(W[i], m, l)
    BY <1>7, <2>2, <2>3 DEF Piece
  <2>5. n = m /\ b = l
    BY <2>4, PieceUnique
  <2>. QED
    BY <1>2, <2>5
<1>8. InTurn(V)
  <2>. SUFFICES ASSUME NEW n \in Messages, NEW a \in 1..Count(n), NEW b \in 1..Count(n),
                       NEW i \in 1..Len(V), NEW j \in 1..Len(V),
                       V[i] = Composed(n)[a], V[j] = Composed(n)[b]
                PROVE  i < j <=> a < b
    BY DEF InTurn
  <2>1. i # Len(V) => i \in 1..Len(W) /\ V[i] = W[i]
    BY <1>1
  <2>2. j # Len(V) => j \in 1..Len(W) /\ V[j] = W[j]
    BY <1>1
  <2>3. i = Len(V) => n = m /\ a = k
    <3>1. i = Len(V) => Piece(f, n, a)
      BY <1>1 DEF Piece
    <3>. QED
      BY <1>3, <3>1, PieceUnique
  <2>4. j = Len(V) => n = m /\ b = k
    <3>1. j = Len(V) => Piece(f, n, b)
      BY <1>1 DEF Piece
    <3>. QED
      BY <1>3, <3>1, PieceUnique
  <2>5. CASE i # Len(V) /\ j # Len(V)
    <3>1. W[i] = Composed(n)[a] /\ W[j] = Composed(n)[b]
      BY <2>1, <2>2, <2>5
    <3>. QED
      BY <2>1, <2>2, <2>5, <3>1 DEF Transit, InTurn
  <2>6. CASE i # Len(V) /\ j = Len(V)
    <3>1. a < k /\ b = k
      BY <1>7, <2>1, <2>4, <2>6
    <3>2. i < j
      BY <1>1, <2>6
    <3>. QED
      BY <3>1, <3>2
  <2>7. CASE i = Len(V) /\ j # Len(V)
    <3>1. b < k /\ a = k /\ k \in Nat /\ b \in Nat
      BY <1>2, <1>7, <2>2, <2>3, <2>7
    <3>2. j < i /\ i \in Nat /\ j \in Nat
      BY <1>1, <2>7
    <3>. QED
      BY <3>1, <3>2
  <2>8. CASE i = Len(V) /\ j = Len(V)
    <3>1. a = b /\ i = j /\ a \in Int /\ i \in Int
      BY <2>3, <2>4, <2>8
    <3>. QED
      BY <3>1
  <2>. QED
    BY <2>5, <2>6, <2>7, <2>8
<1>. QED
  BY <1>4, <1>5, <1>6, <1>8 DEF Transit, r, V


-----------------------------------------------------------------------------
(* The bytes of the stream                                                 *)

(* g[i] is the number of bytes of the first i frames of W.                 *)
Sums(g, W) ==
  g = [i \in 0..Len(W) |-> IF i = 0 THEN 0 ELSE g[i - 1] + HeaderSize + W[i].size]

LEMMA SumsUnique ==
  ASSUME NEW S, NEW W \in Seq(S), NEW g, NEW h, Sums(g, W), Sums(h, W)
  PROVE  g[Len(W)] = h[Len(W)]
<1>1. Len(W) \in Nat
  OBVIOUS
<1>. DEFINE T == {i \in 0..Len(W) : g[i] # h[i]}
            R == OpToRel(<, Nat)
<1>2. SUFFICES ASSUME g[Len(W)] # h[Len(W)] PROVE FALSE
  OBVIOUS
<1>3. T \subseteq Nat /\ T # {}
  BY <1>1, <1>2
<1>4. IsWellFoundedOn(R, Nat)
  BY NatLessThanWellFounded
<1>. HIDE DEF R
<1>5. PICK x \in T : \A y \in T : ~(<<y, x>> \in R)
  BY <1>3, <1>4, WFMin
<1>6. x # 0
  BY <1>1 DEF Sums
<1>7. x - 1 \in 0..Len(W) /\ x - 1 < x /\ x \in Nat /\ x - 1 \in Nat
  BY <1>1, <1>6
<1>8. <<x - 1, x>> \in R
  BY <1>7 DEF R, OpToRel
<1>9. g[x - 1] = h[x - 1]
  BY <1>5, <1>7, <1>8
<1>10. /\ g[x] = g[x - 1] + HeaderSize + W[x].size
       /\ h[x] = h[x - 1] + HeaderSize + W[x].size
  BY <1>6, <1>7 DEF Sums
<1>. QED
  BY <1>9, <1>10

LEMMA StreamIsSum ==
  ASSUME NEW S, NEW W \in Seq(S), NEW g, Sums(g, W)
  PROVE  StreamBytes(W) = g[Len(W)]
<1>. DEFINE u == CHOOSE h : Sums(h, W)
<1>1. StreamBytes(W) = u[Len(W)]
  BY DEF StreamBytes, Sums
<1>2. Sums(u, W)
  OBVIOUS
<1>. QED
  BY <1>1, <1>2, SumsUnique

LEMMA PieceSize ==
  ASSUME NEW f \in Pieces
  PROVE  f.size \in Nat /\ \E m \in Messages : \E k \in 1..Count(m) : Piece(f, m, k)
<1>0. PICK m \in Messages : \E k \in 1..Count(m) : f = Composed(m)[k]
  BY DEF Pieces
<1>1. PICK k \in 1..Count(m) : f = Composed(m)[k]
  BY <1>0
<1>2. Piece(f, m, k)
  BY <1>1 DEF Piece
<1>. QED
  BY <1>2, PieceKinds DEF Describes

(* The sums of the stream, with the buffer a part of it.                   *)
Measured(g, W, b) == Sums(g, W) /\ g \in [0..Len(W) -> Nat] /\ b \in Nat /\ b <= g[Len(W)]

LEMMA MeasuredAppend ==
  ASSUME NEW W \in Seq(Pieces), NEW f \in Pieces, NEW g, NEW b, Measured(g, W, b)
  PROVE  \E h : Measured(h, Append(W, f), b)
<1>. DEFINE V == Append(W, f)
            N == Len(W)
            x == g[N] + HeaderSize + f.size
            h == [i \in 0..Len(V) |-> IF i = N + 1 THEN x ELSE g[i]]
<1>1. /\ N \in Nat /\ Len(V) = N + 1 /\ V[N + 1] = f
      /\ \A i \in 1..N : V[i] = W[i]
  BY AppendProperties
<1>2. g[N] \in Nat /\ f.size \in Nat /\ HeaderSize \in Nat /\ b \in Nat /\ b <= g[N]
  BY <1>1, PieceSize, SizeAssumption DEF Measured
<1>3. x \in Nat /\ b <= x
  BY <1>2
<1>. HIDE DEF x, V
<1>4. /\ h \in [0..Len(V) -> Nat] /\ h[N + 1] = x /\ \A i \in 0..N : h[i] = g[i]
  BY <1>1, <1>3 DEF Measured
<1>5. \A i \in 0..Len(V) : h[i] = IF i = 0 THEN 0 ELSE h[i - 1] + HeaderSize + V[i].size
  <2>. SUFFICES ASSUME NEW i \in 0..Len(V)
                PROVE  h[i] = IF i = 0 THEN 0 ELSE h[i - 1] + HeaderSize + V[i].size
    OBVIOUS
  <2>. HIDE DEF h
  <2>1. CASE i = N + 1
    <3>1. h[i] = g[N] + HeaderSize + f.size /\ i # 0 /\ i - 1 = N /\ V[i] = f /\ N \in 0..N
      BY <1>1, <1>4, <2>1 DEF x
    <3>2. h[i - 1] = g[N]
      BY <3>1, <1>4
    <3>. QED
      BY <3>1, <3>2
  <2>2. CASE i = 0
    <3>1. 0 \in 0..N /\ g[0] = 0
      BY <1>1 DEF Measured, Sums
    <3>. QED
      BY <1>4, <2>2, <3>1
  <2>3. CASE i \in 1..N
    <3>1. i \in 0..N /\ i - 1 \in 0..N /\ i # 0
      BY <1>1, <2>3
    <3>2. g[i] = g[i - 1] + HeaderSize + W[i].size
      BY <1>1, <3>1 DEF Measured, Sums
    <3>. QED
      BY <1>1, <1>4, <2>3, <3>1, <3>2
  <2>. QED
    BY <1>1, <2>1, <2>2, <2>3
<1>6. Sums(h, V)
  <2>. DEFINE H == [i \in 0..Len(V) |-> IF i = 0 THEN 0 ELSE h[i - 1] + HeaderSize + V[i].size]
  <2>1. h = [i \in 0..Len(V) |-> h[i]]
    BY <1>4
  <2>. HIDE DEF h
  <2>2. h = H
    BY <1>5, <2>1
  <2>. QED
    BY <2>2 DEF Sums
<1>7. b <= h[Len(V)]
  BY <1>1, <1>3, <1>4
<1>. HIDE DEF h
<1>. QED
  BY <1>2, <1>4, <1>6, <1>7 DEF Measured, V

LEMMA MeasuredTail ==
  ASSUME NEW W \in Seq(Pieces), W # <<>>, NEW g, NEW b, Measured(g, W, b),
         b >= HeaderSize + Head(W).size
  PROVE  \E h : Measured(h, Tail(W), b - Head(W).size - HeaderSize)
<1>. DEFINE V == Tail(W)
            N == Len(W)
            x == HeaderSize + Head(W).size
            c == b - Head(W).size - HeaderSize
            h == [i \in 0..Len(V) |-> g[i + 1] - x]
<1>1. /\ N \in Nat /\ N >= 1 /\ Head(W) = W[1] /\ W[1] \in Pieces /\ Len(V) = N - 1
      /\ \A i \in 1..Len(V) : V[i] = W[i + 1]
  BY EmptySeq, HeadTailProperties
<1>2. Head(W).size \in Nat /\ HeaderSize \in Nat /\ b \in Nat /\ b <= g[N] /\ g[N] \in Nat
  BY <1>1, PieceSize, SizeAssumption DEF Measured
<1>3. x \in Nat /\ c = b - x /\ c \in Nat
  BY <1>2
<1>4. /\ \A i \in 0..N : g[i] \in Nat
      /\ \A i \in 1..N : g[i] = g[i - 1] + HeaderSize + W[i].size
      /\ g[0] = 0
  <2>1. \A i \in 0..N : g[i] = IF i = 0 THEN 0 ELSE g[i - 1] + HeaderSize + W[i].size
    BY DEF Measured, Sums
  <2>2. \A i \in 1..N : i \in 0..N /\ i # 0
    BY <1>1
  <2>3. 0 \in 0..N
    BY <1>1
  <2>. QED
    BY <2>1, <2>2, <2>3 DEF Measured
<1>5. g[1] = x
  BY <1>1, <1>2, <1>4
<1>. HIDE DEF x, V
<1>6. \A i \in 1..N : g[i] >= x /\ W[i].size \in Nat
  <2>1. \A i \in 1..N : W[i].size \in Nat
    BY <1>1, PieceSize
  <2>. DEFINE T == {i \in 1..N : ~(g[i] >= x)}
              R == OpToRel(<, Nat)
  <2>2. SUFFICES ASSUME T # {} PROVE FALSE
    BY <2>1
  <2>3. T \subseteq Nat
    BY <1>1
  <2>0. IsWellFoundedOn(R, Nat)
    BY NatLessThanWellFounded
  <2>. HIDE DEF R
  <2>4. PICK y \in T : \A z \in T : ~(<<z, y>> \in R)
    BY <2>0, <2>2, <2>3, WFMin
  <2>5. y # 1 /\ y \in 1..N /\ ~(g[y] >= x)
    BY <1>2, <1>3, <1>5, <2>4
  <2>6. y - 1 \in 1..N /\ y - 1 < y /\ y - 1 \in Nat /\ y \in Nat /\ y - 1 \in 0..N /\ y \in 0..N
    BY <1>1, <2>5
  <2>7. <<y - 1, y>> \in R
    BY <2>6 DEF R, OpToRel
  <2>8. g[y - 1] >= x
    BY <2>4, <2>6, <2>7
  <2>9. g[y] = g[y - 1] + HeaderSize + W[y].size /\ W[y].size \in Nat /\ g[y - 1] \in Nat
    BY <1>4, <2>1, <2>5, <2>6
  <2>. QED
    BY <1>2, <1>3, <2>5, <2>8, <2>9
<1>7. h \in [0..Len(V) -> Nat]
  <2>1. \A i \in 0..Len(V) : i + 1 \in 1..N /\ i + 1 \in 0..N
    BY <1>1
  <2>2. \A i \in 0..Len(V) : g[i + 1] \in Nat /\ g[i + 1] >= x
    BY <1>4, <1>6, <2>1
  <2>3. \A i \in 0..Len(V) : g[i + 1] - x \in Nat
    BY <1>3, <2>2
  <2>. QED
    BY <2>3
<1>8. \A i \in 0..Len(V) : h[i] = IF i = 0 THEN 0 ELSE h[i - 1] + HeaderSize + V[i].size
  <2>. SUFFICES ASSUME NEW i \in 0..Len(V)
                PROVE  h[i] = IF i = 0 THEN 0 ELSE h[i - 1] + HeaderSize + V[i].size
    OBVIOUS
  <2>1. h[i] = g[i + 1] - x
    OBVIOUS
  <2>2. CASE i = 0
    <3>1. h[0] = g[1] - x
      BY <2>1, <2>2
    <3>. HIDE DEF h
    <3>. QED
      BY <1>3, <1>5, <2>2, <3>1
  <2>3. CASE i # 0
    <3>1. i \in 1..Len(V) /\ i - 1 \in 0..Len(V) /\ i + 1 \in 1..N /\ i \in 0..N /\ (i - 1) + 1 = i
      BY <1>1, <2>3
    <3>2. h[i - 1] = g[i] - x
      BY <3>1
    <3>3. g[i + 1] = g[i] + HeaderSize + W[i + 1].size
      <4>1. g[i + 1] = g[(i + 1) - 1] + HeaderSize + W[i + 1].size
        BY <1>4, <3>1
      <4>. QED
        BY <3>1, <4>1
    <3>4. g[i] \in Nat /\ W[i + 1].size \in Nat /\ V[i] = W[i + 1]
      BY <1>1, <1>4, <1>6, <3>1
    <3>. DEFINE u == g[i]
                v == g[i + 1]
                w == W[i + 1].size
    <3>5. /\ u \in Nat /\ w \in Nat /\ v = u + HeaderSize + w
          /\ h[i] = v - x /\ h[i - 1] = u - x /\ V[i].size = w
      BY <2>1, <3>2, <3>3, <3>4
    <3>. HIDE DEF h, u, v, w
    <3>6. v - x = (u - x) + HeaderSize + w
      BY <1>2, <1>3, <3>5
    <3>. QED
      BY <2>3, <3>5, <3>6
  <2>. QED
    BY <2>2, <2>3
<1>9. Sums(h, V)
  <2>. DEFINE H == [i \in 0..Len(V) |-> IF i = 0 THEN 0 ELSE h[i - 1] + HeaderSize + V[i].size]
  <2>1. h = [i \in 0..Len(V) |-> h[i]]
    BY <1>7
  <2>. HIDE DEF h
  <2>2. h = H
    BY <1>8, <2>1
  <2>. QED
    BY <2>2 DEF Sums
<1>10. h[Len(V)] = g[N] - x
  <2>1. Len(V) \in 0..Len(V) /\ Len(V) + 1 = N
    BY <1>1
  <2>. QED
    BY <2>1
<1>11. c <= h[Len(V)]
  BY <1>2, <1>3, <1>10
<1>. HIDE DEF h
<1>. QED
  BY <1>3, <1>7, <1>9, <1>11 DEF Measured, V

-----------------------------------------------------------------------------
(* What waits to be sent                                                   *)

LEMMA ComposedType ==
  ASSUME NEW m \in Messages
  PROVE  Composed(m) \in Seq(Pieces)
<1>. DEFINE D == Composed(m)
<1>1. \E S : D \in Seq(S)
  <2>1. CASE Length(m) > MaxPayload
    <3>. DEFINE F == First(m)
                G(k) == Consecutive(m, k)
                P == Parts(m)
                S == {F} \cup {G(k) : k \in 1..P}
                t == [k \in 1..P |-> G(k)]
    <3>1. P \in Nat
      BY PartsType
    <3>2. D = <<F>> \o t
      BY <2>1 DEF Composed
    <3>. HIDE DEF D, F, G, P
    <3>3. t \in Seq(S) /\ <<F>> \in Seq(S)
      BY <3>1
    <3>. HIDE DEF t, S
    <3>. QED
      BY <3>2, <3>3
  <2>2. CASE ~(Length(m) > MaxPayload)
    <3>1. D = <<Single(m)>>
      BY <2>2 DEF Composed
    <3>2. <<Single(m)>> \in Seq({Single(m)})
      OBVIOUS
    <3>. QED
      BY <3>1, <3>2
  <2>. QED
    BY <2>1, <2>2
<1>2. Len(D) = Count(m) /\ Count(m) \in Nat
  BY CountType
<1>3. \A k \in 1..Count(m) : D[k] \in Pieces
  BY DEF Pieces
<1>. HIDE DEF D
<1>4. D \in Seq(Pieces)
  BY <1>1, <1>2, <1>3
<1>. QED
  BY <1>4 DEF D

(* The frames of m after the first q[m] are still to be sent.              *)
Waiting(q, Q, C) ==
  /\ Q \in [Messages -> Seq(Pieces)]
  /\ \A m \in Messages :
       /\ m \notin C => Q[m] = <<>>
       /\ m \in C => /\ Len(Q[m]) = Count(m) - q[m]
                     /\ \A k \in 1..Len(Q[m]) : Q[m][k] = Composed(m)[q[m] + k]

LEMMA WaitingCompose ==
  ASSUME NEW p, NEW q, NEW C, NEW Q, NEW W, Transit(p, q, W, C), Waiting(q, Q, C),
         NEW m \in Messages, m \notin C
  PROVE  /\ Transit(p, q, W, C \cup {m})
         /\ Waiting(q, [Q EXCEPT ![m] = Composed(m)], C \cup {m})
<1>1. Transit(p, q, W, C \cup {m}) /\ q[m] = 0
  BY DEF Transit, Counting
<1>2. Composed(m) \in Seq(Pieces) /\ Len(Composed(m)) = Count(m) /\ Count(m) \in Nat
  BY ComposedType, CountType
<1>. DEFINE R == [Q EXCEPT ![m] = Composed(m)]
<1>3. /\ R \in [Messages -> Seq(Pieces)] /\ R[m] = Composed(m)
      /\ \A n \in Messages : n # m => R[n] = Q[n]
  BY <1>2 DEF Waiting
<1>. HIDE DEF R
<1>4. ASSUME NEW n \in Messages
      PROVE  /\ n \notin C \cup {m} => R[n] = <<>>
             /\ n \in C \cup {m} => /\ Len(R[n]) = Count(n) - q[n]
                                    /\ \A k \in 1..Len(R[n]) : R[n][k] = Composed(n)[q[n] + k]
  <2>1. CASE n # m
    BY <1>3, <2>1 DEF Waiting
  <2>2. CASE n = m
    <3>1. Count(m) - q[m] = Count(m) /\ \A k \in 1..Count(m) : q[m] + k = k
      BY <1>1, <1>2
    <3>. QED
      BY <1>2, <1>3, <2>2, <3>1
  <2>. QED
    BY <2>1, <2>2
<1>5. Waiting(q, R, C \cup {m})
  BY <1>3, <1>4 DEF Waiting
<1>. QED
  BY <1>1, <1>5 DEF R

LEMMA WaitingHead ==
  ASSUME NEW p, NEW q, NEW C, NEW Q, NEW W, Transit(p, q, W, C), Waiting(q, Q, C),
         NEW m \in Messages, Q[m] # <<>>
  PROVE  /\ m \in C /\ q[m] \in Nat /\ q[m] < Count(m) /\ Head(Q[m]) = Composed(m)[q[m] + 1]
         /\ Len(Q[m]) = 1 <=> q[m] + 1 = Count(m)
<1>1. m \in C /\ Q[m] \in Seq(Pieces)
  BY DEF Waiting
<1>2. Len(Q[m]) \in Nat /\ Len(Q[m]) >= 1 /\ Head(Q[m]) = Q[m][1]
  BY <1>1, EmptySeq, HeadTailProperties
<1>3. q[m] \in Nat /\ Count(m) \in Nat
  BY CountType DEF Transit, Counting
<1>4. /\ Len(Q[m]) = Count(m) - q[m]
      /\ \A k \in 1..Len(Q[m]) : Q[m][k] = Composed(m)[q[m] + k]
  BY <1>1 DEF Waiting
<1>5. 1 \in 1..Len(Q[m])
  BY <1>2
<1>. QED
  BY <1>1, <1>2, <1>3, <1>4, <1>5

LEMMA WaitingSend ==
  ASSUME NEW p, NEW q, NEW C, NEW Q, NEW W, Transit(p, q, W, C), Waiting(q, Q, C),
         NEW m \in Messages, Q[m] # <<>>
  PROVE  Waiting([q EXCEPT ![m] = q[m] + 1], [Q EXCEPT ![m] = Tail(Q[m])], C)
<1>. DEFINE r == [q EXCEPT ![m] = q[m] + 1]
            R == [Q EXCEPT ![m] = Tail(Q[m])]
<1>1. m \in C /\ q[m] \in Nat /\ Count(m) \in Nat /\ q \in [Messages -> Nat]
  BY WaitingHead, CountType DEF Transit, Counting
<1>2. Q[m] \in Seq(Pieces)
  BY DEF Waiting
<1>3. /\ Tail(Q[m]) \in Seq(Pieces) /\ Len(Tail(Q[m])) = Len(Q[m]) - 1 /\ Len(Q[m]) \in Nat
      /\ Len(Q[m]) >= 1
      /\ \A k \in 1..Len(Tail(Q[m])) : Tail(Q[m])[k] = Q[m][k + 1]
  BY <1>2, EmptySeq, HeadTailProperties
<1>4. /\ R \in [Messages -> Seq(Pieces)] /\ R[m] = Tail(Q[m]) /\ r[m] = q[m] + 1
      /\ \A n \in Messages : n # m => R[n] = Q[n] /\ r[n] = q[n]
  BY <1>1, <1>3 DEF Waiting
<1>. HIDE DEF R, r
<1>5. ASSUME NEW n \in Messages
      PROVE  /\ n \notin C => R[n] = <<>>
             /\ n \in C => /\ Len(R[n]) = Count(n) - r[n]
                           /\ \A k \in 1..Len(R[n]) : R[n][k] = Composed(n)[r[n] + k]
  <2>1. CASE n # m
    BY <1>4, <2>1 DEF Waiting
  <2>2. CASE n = m
    <3>1. /\ Len(Q[m]) = Count(m) - q[m]
          /\ \A k \in 1..Len(Q[m]) : Q[m][k] = Composed(m)[q[m] + k]
      BY <1>1 DEF Waiting
    <3>2. Len(R[m]) = Count(m) - r[m]
      BY <1>1, <1>3, <1>4, <3>1
    <3>3. ASSUME NEW k \in 1..Len(R[m]) PROVE R[m][k] = Composed(m)[r[m] + k]
      <4>1. R[m] = Tail(Q[m]) /\ r[m] = q[m] + 1
        BY <1>4
      <4>2. k \in 1..Len(Tail(Q[m])) /\ R[m][k] = Q[m][k + 1]
        BY <1>3, <4>1
      <4>3. k + 1 \in 1..Len(Q[m]) /\ k \in Nat
        BY <1>3, <4>2
      <4>4. r[m] + k = q[m] + (k + 1)
        BY <1>1, <4>1, <4>3
      <4>. QED
        BY <3>1, <4>2, <4>3, <4>4
    <3>. QED
      BY <1>1, <2>2, <3>2, <3>3
  <2>. QED
    BY <2>1, <2>2
<1>6. Waiting(r, R, C)
  BY <1>4, <1>5 DEF Waiting
<1>. QED
  BY <1>6 DEF r, R

-----------------------------------------------------------------------------
(* What is collected                                                       *)

(* The frames of m cannot be decrypted, and never will be again.           *)
Failing(m, S) == m \in Encrypted /\ Session[m] \notin S

(* What self.frames holds for m when x frames of m are parsed.             *)
KeptOf(m, x, b, S) ==
  /\ x = 0 \/ Count(m) = 1 => b = None
  /\ 0 < x /\ x < Count(m) => /\ b # None
                              /\ ~Failing(m, S) => b = Bytes(m, 1, (x - 1) * MaxPayload)
  /\ x = Count(m) /\ ~Failing(m, S) => b = None
Tallied(b, t) == (b = None <=> t = 0) /\ (b # None => t >= Len(b))
Kept(p, F, T, S) ==
  /\ F \in [Keys -> Seq(Byte) \cup {None}] /\ T \in [Keys -> Nat]
  /\ \A k \in Keys : Tallied(F[k], T[k])
  /\ \A m \in Messages : KeptOf(m, p[m], F[KeyOf(m)], S)

LEMMA NoneIsNoSeq == None \notin Seq(Byte)
  BY MessageAssumption DEF Byte

LEMMA KeysDiffer ==
  ASSUME NEW m \in Messages, NEW n \in Messages, KeyOf(m) = KeyOf(n)
  PROVE  m = n
  BY MessageAssumption DEF KeyOf

LEMMA KeyIsKey ==
  ASSUME NEW m \in Messages
  PROVE  KeyOf(m) \in Keys
  BY DEF KeyOf, Keys

LEMMA KeptStep ==
  ASSUME NEW p \in [Messages -> Nat], NEW F, NEW T, NEW S, Kept(p, F, T, S), NEW m \in Messages,
         NEW b \in Seq(Byte) \cup {None}, NEW t \in Nat, Tallied(b, t),
         KeptOf(m, p[m] + 1, b, S)
  PROVE  Kept([p EXCEPT ![m] = p[m] + 1], [F EXCEPT ![KeyOf(m)] = b],
              [T EXCEPT ![KeyOf(m)] = t], S)
<1>. DEFINE r == [p EXCEPT ![m] = p[m] + 1]
            G == [F EXCEPT ![KeyOf(m)] = b]
            U == [T EXCEPT ![KeyOf(m)] = t]
<1>1. KeyOf(m) \in Keys
  BY KeyIsKey
<1>2. /\ G \in [Keys -> Seq(Byte) \cup {None}] /\ G[KeyOf(m)] = b
      /\ \A k \in Keys : k # KeyOf(m) => G[k] = F[k]
  BY <1>1 DEF Kept
<1>3. /\ U \in [Keys -> Nat] /\ U[KeyOf(m)] = t
      /\ \A k \in Keys : k # KeyOf(m) => U[k] = T[k]
  BY <1>1 DEF Kept
<1>4. r[m] = p[m] + 1 /\ \A n \in Messages : n # m => r[n] = p[n]
  OBVIOUS
<1>. HIDE DEF r, G, U
<1>5. \A k \in Keys : Tallied(G[k], U[k])
  <2>. SUFFICES ASSUME NEW k \in Keys PROVE Tallied(G[k], U[k])
    OBVIOUS
  <2>1. CASE k = KeyOf(m)
    BY <1>2, <1>3, <2>1
  <2>2. CASE k # KeyOf(m)
    BY <1>2, <1>3, <2>2 DEF Kept
  <2>. QED
    BY <2>1, <2>2
<1>6. \A n \in Messages : KeptOf(n, r[n], G[KeyOf(n)], S)
  <2>. SUFFICES ASSUME NEW n \in Messages PROVE KeptOf(n, r[n], G[KeyOf(n)], S)
    OBVIOUS
  <2>1. CASE n = m
    BY <1>2, <1>4, <2>1
  <2>2. CASE n # m
    <3>1. KeyOf(n) \in Keys /\ KeyOf(n) # KeyOf(m)
      BY <2>2, KeyIsKey, KeysDiffer
    <3>. QED
      BY <1>2, <1>4, <2>2, <3>1 DEF Kept
  <2>. QED
    BY <2>1, <2>2
<1>7. Kept(r, G, U, S)
  BY <1>2, <1>3, <1>5, <1>6 DEF Kept
<1>. QED
  BY <1>7 DEF r, G, U

LEMMA KeptSame ==
  ASSUME NEW p \in [Messages -> Nat], NEW F, NEW T, NEW S, Kept(p, F, T, S), NEW m \in Messages,
         KeptOf(m, p[m] + 1, F[KeyOf(m)], S)
  PROVE  Kept([p EXCEPT ![m] = p[m] + 1], F, T, S)
<1>. DEFINE b == F[KeyOf(m)]
            t == T[KeyOf(m)]
<1>1. KeyOf(m) \in Keys
  BY KeyIsKey
<1>2. /\ b \in Seq(Byte) \cup {None} /\ t \in Nat /\ Tallied(b, t)
      /\ [F EXCEPT ![KeyOf(m)] = b] = F /\ [T EXCEPT ![KeyOf(m)] = t] = T
  BY <1>1 DEF Kept
<1>. HIDE DEF b, t
<1>3. KeptOf(m, p[m] + 1, b, S)
  BY DEF b
<1>4. Kept([p EXCEPT ![m] = p[m] + 1], [F EXCEPT ![KeyOf(m)] = b], [T EXCEPT ![KeyOf(m)] = t], S)
  BY <1>2, <1>3, KeptStep
<1>. QED
  BY <1>2, <1>4

LEMMA KeptShrinks ==
  ASSUME NEW p, NEW F, NEW T, NEW S, NEW R, Kept(p, F, T, S), R \subseteq S
  PROVE  Kept(p, F, T, R)
<1>1. \A m \in Messages : Failing(m, S) => Failing(m, R)
  BY DEF Failing
<1>2. \A m \in Messages : KeptOf(m, p[m], F[KeyOf(m)], R)
  BY <1>1 DEF Kept, KeptOf
<1>. QED
  BY <1>2 DEF Kept

-----------------------------------------------------------------------------
(* What is returned                                                        *)

Statuses == {"NO_ENCRYPTION", "SUCCESS", "ERROR"}
Entry == [key : Keys, json : Seq(Byte), bin : Seq(Byte), status : Statuses]

(* R holds the messages of which p counts all frames, and reports of frames*)
(* that could not be decrypted.                                            *)
Returned(p, R, C) ==
  /\ R \in Seq(Entry)
  /\ \A i \in 1..Len(R) : R[i].status # "ERROR" =>
        \E m \in Messages : m \in C /\ p[m] = Count(m) /\ Gives(R[i], m)
  /\ \A i, j \in 1..Len(R) :
        i # j /\ R[i].status # "ERROR" /\ R[j].status # "ERROR" => R[i].key # R[j].key
  /\ \A m \in Messages : p[m] = Count(m) => \E i \in 1..Len(R) : R[i].key = KeyOf(m)

LEMMA GivesKey ==
  ASSUME NEW m, NEW r, Gives(r, m)
  PROVE  r.key = KeyOf(m)
  BY DEF Gives, Content, KeyOf

LEMMA ReturnedSkip ==
  ASSUME NEW p \in [Messages -> Nat], NEW R, NEW C, Returned(p, R, C), NEW m \in Messages,
         p[m] + 1 < Count(m)
  PROVE  Returned([p EXCEPT ![m] = p[m] + 1], R, C)
<1>. DEFINE r == [p EXCEPT ![m] = p[m] + 1]
<1>1. Count(m) \in Nat /\ p[m] \in Nat
  BY CountType
<1>2. r[m] = p[m] + 1 /\ \A n \in Messages : n # m => r[n] = p[n]
  OBVIOUS
<1>. HIDE DEF r
<1>3. \A n \in Messages : r[n] = Count(n) <=> p[n] = Count(n)
  <2>. SUFFICES ASSUME NEW n \in Messages PROVE r[n] = Count(n) <=> p[n] = Count(n)
    OBVIOUS
  <2>. QED
    BY <1>1, <1>2
<1>4. Returned(r, R, C)
  BY <1>3 DEF Returned
<1>. QED
  BY <1>4 DEF r

(* Parse appends e for the next frame of m.                                *)
LEMMA ReturnedAppend ==
  ASSUME NEW p \in [Messages -> Nat], NEW R, NEW C, Returned(p, R, C), NEW m \in Messages,
         m \in C, p[m] + 1 <= Count(m), NEW e \in Entry, e.key = KeyOf(m),
         e.status # "ERROR" => p[m] + 1 = Count(m) /\ Gives(e, m)
  PROVE  Returned([p EXCEPT ![m] = p[m] + 1], Append(R, e), C)
<1>. DEFINE r == [p EXCEPT ![m] = p[m] + 1]
            Z == Append(R, e)
            N == Len(R)
<1>1. Count(m) \in Nat /\ p[m] \in Nat /\ R \in Seq(Entry)
  BY CountType DEF Returned
<1>2. r[m] = p[m] + 1 /\ \A n \in Messages : n # m => r[n] = p[n]
  OBVIOUS
<1>3. /\ Z \in Seq(Entry) /\ N \in Nat /\ Len(Z) = N + 1 /\ Z[N + 1] = e
      /\ \A i \in 1..N : Z[i] = R[i]
  BY <1>1, AppendProperties
<1>. HIDE DEF r, Z
<1>4. ASSUME NEW i \in 1..N, R[i].status # "ERROR"
      PROVE  \E n \in Messages : n \in C /\ n # m /\ r[n] = Count(n) /\ Gives(R[i], n)
  <2>1. PICK n \in Messages : n \in C /\ p[n] = Count(n) /\ Gives(R[i], n)
    BY <1>4 DEF Returned
  <2>2. n # m
    BY <1>1, <2>1
  <2>. QED
    BY <1>2, <2>1, <2>2
<1>5. ASSUME NEW i \in 1..Len(Z), Z[i].status # "ERROR"
      PROVE  \E n \in Messages : n \in C /\ r[n] = Count(n) /\ Gives(Z[i], n)
  <2>1. CASE i = N + 1
    BY <1>2, <1>3, <1>5, <2>1
  <2>2. CASE i \in 1..N
    BY <1>3, <1>4, <1>5, <2>2
  <2>. QED
    BY <1>3, <2>1, <2>2
<1>6. ASSUME NEW i \in 1..N, R[i].status # "ERROR" PROVE R[i].key # e.key
  <2>1. PICK n \in Messages : n # m /\ Gives(R[i], n)
    BY <1>4, <1>6
  <2>2. R[i].key = KeyOf(n) /\ KeyOf(n) # KeyOf(m)
    BY <2>1, GivesKey, KeysDiffer
  <2>. QED
    BY <2>2
<1>7. ASSUME NEW i \in 1..Len(Z), NEW j \in 1..Len(Z), i # j,
             Z[i].status # "ERROR", Z[j].status # "ERROR"
      PROVE  Z[i].key # Z[j].key
  <2>1. CASE i \in 1..N /\ j \in 1..N
    BY <1>3, <1>7, <2>1 DEF Returned
  <2>2. CASE i = N + 1 /\ j \in 1..N
    BY <1>3, <1>6, <1>7, <2>2
  <2>3. CASE i \in 1..N /\ j = N + 1
    BY <1>3, <1>6, <1>7, <2>3
  <2>. QED
    BY <1>3, <1>7, <2>1, <2>2, <2>3
<1>8. ASSUME NEW n \in Messages, r[n] = Count(n)
      PROVE  \E i \in 1..Len(Z) : Z[i].key = KeyOf(n)
  <2>1. CASE n = m
    <3>1. N + 1 \in 1..Len(Z)
      BY <1>3
    <3>. QED
      BY <1>3, <2>1, <3>1
  <2>2. CASE n # m
    <3>1. p[n] = Count(n)
      BY <1>2, <1>8, <2>2
    <3>2. PICK i \in 1..N : R[i].key = KeyOf(n)
      BY <3>1 DEF Returned
    <3>3. i \in 1..Len(Z) /\ Z[i] = R[i]
      BY <1>3
    <3>. QED
      BY <3>2, <3>3
  <2>. QED
    BY <2>1, <2>2
<1>9. Returned(r, Z, C)
  BY <1>3, <1>5, <1>7, <1>8 DEF Returned
<1>. QED
  BY <1>9 DEF r, Z

-----------------------------------------------------------------------------
(* The order of what is returned                                           *)

Contents == {Content(m) : m \in Messages}

(* D lists each message of which q counts all frames, once.                *)
Listed(q, D) ==
  /\ D \in Seq(Contents)
  /\ \A i \in 1..Len(D) : \E m \in Messages : q[m] = Count(m) /\ D[i] = Content(m)
  /\ \A m \in Messages : q[m] = Count(m) => \E i \in 1..Len(D) : D[i] = Content(m)
  /\ \A i, j \in 1..Len(D) : D[i] = D[j] => i = j

(* The first n of D are those whose last frame is parsed.                  *)
Leading(p, D, n) ==
  /\ n \in 0..Len(D)
  /\ \A m \in Messages : \A i \in 1..Len(D) : D[i] = Content(m) => (i <= n <=> p[m] = Count(m))

(* D has the order of the last frames on the wire.                         *)
LastFrame(m) == Composed(m)[Count(m)]
Ranked(W, D) ==
  \A m, l \in Messages : \A i, j \in 1..Len(D) : \A a, b \in 1..Len(W) :
    D[i] = Content(m) /\ D[j] = Content(l) /\ W[a] = LastFrame(m) /\ W[b] = LastFrame(l)
      => (i < j <=> a < b)

LEMMA ContentUnique ==
  ASSUME NEW m \in Messages, NEW n \in Messages, Content(m) = Content(n)
  PROVE  m = n
<1>1. Content(m).key = KeyOf(m) /\ Content(n).key = KeyOf(n)
  BY DEF Content, KeyOf
<1>. QED
  BY <1>1, KeysDiffer

LEMMA RankedTail ==
  ASSUME NEW W \in Seq(Pieces), W # <<>>, NEW D, Ranked(W, D)
  PROVE  Ranked(Tail(W), D)
<1>. DEFINE V == Tail(W)
<1>1. /\ Len(W) \in Nat /\ Len(W) >= 1 /\ Len(V) = Len(W) - 1
      /\ \A i \in 1..Len(V) : V[i] = W[i + 1]
  BY EmptySeq, HeadTailProperties
<1>. HIDE DEF V
<1>2. SUFFICES ASSUME NEW m \in Messages, NEW l \in Messages,
                      NEW i \in 1..Len(D), NEW j \in 1..Len(D),
                      NEW a \in 1..Len(V), NEW b \in 1..Len(V),
                      D[i] = Content(m), D[j] = Content(l), V[a] = LastFrame(m), V[b] = LastFrame(l)
               PROVE  i < j <=> a < b
  BY DEF Ranked, V
<1>. DEFINE x == a + 1
            y == b + 1
<1>3. x \in 1..Len(W) /\ y \in 1..Len(W) /\ W[x] = LastFrame(m) /\ W[y] = LastFrame(l)
  BY <1>1, <1>2
<1>4. a < b <=> x < y
  BY <1>1
<1>. HIDE DEF x, y
<1>5. i < j <=> x < y
  BY <1>2, <1>3 DEF Ranked
<1>. QED
  BY <1>4, <1>5

LEMMA LeadingSkip ==
  ASSUME NEW p \in [Messages -> Nat], NEW D, NEW n, Leading(p, D, n), NEW m \in Messages,
         p[m] + 1 < Count(m)
  PROVE  Leading([p EXCEPT ![m] = p[m] + 1], D, n)
<1>. DEFINE r == [p EXCEPT ![m] = p[m] + 1]
<1>1. Count(m) \in Nat /\ p[m] \in Nat
  BY CountType
<1>2. r[m] = p[m] + 1 /\ \A l \in Messages : l # m => r[l] = p[l]
  OBVIOUS
<1>. HIDE DEF r
<1>3. \A l \in Messages : r[l] = Count(l) <=> p[l] = Count(l)
  <2>. SUFFICES ASSUME NEW l \in Messages PROVE r[l] = Count(l) <=> p[l] = Count(l)
    OBVIOUS
  <2>. QED
    BY <1>1, <1>2
<1>4. Leading(r, D, n)
  BY <1>3 DEF Leading
<1>. QED
  BY <1>4 DEF r

(* The message whose last frame is the next one is the next of D.          *)
LEMMA LeadingLast ==
  ASSUME NEW p, NEW q, NEW C, NEW W \in Seq(Pieces), Transit(p, q, W, C), W # <<>>,
         NEW D, NEW n, Listed(q, D), Leading(p, D, n), Ranked(W, D),
         NEW m \in Messages, Piece(Head(W), m, p[m] + 1), p[m] + 1 = Count(m), p[m] + 1 <= q[m]
  PROVE  /\ n + 1 \in 1..Len(D) /\ D[n + 1] = Content(m)
         /\ Leading([p EXCEPT ![m] = p[m] + 1], D, n + 1)
<1>. DEFINE r == [p EXCEPT ![m] = p[m] + 1]
<1>1. /\ p \in [Messages -> Nat]
      /\ \A l \in Messages : /\ p[l] \in Nat /\ q[l] \in Nat /\ p[l] <= q[l] /\ q[l] <= Count(l)
                             /\ Count(l) \in Nat
  BY CountType DEF Transit, Counting
<1>2. r[m] = Count(m) /\ \A l \in Messages : l # m => r[l] = p[l]
  BY <1>1
<1>. HIDE DEF r
<1>3. Len(W) \in Nat /\ Len(W) >= 1 /\ W[1] = LastFrame(m) /\ 1 \in 1..Len(W)
  BY EmptySeq, HeadTailProperties DEF Piece, LastFrame
<1>4. q[m] = Count(m) /\ p[m] # Count(m)
  BY <1>1
<1>5. PICK i \in 1..Len(D) : D[i] = Content(m)
  BY <1>4 DEF Listed
<1>6. Len(D) \in Nat /\ n \in 0..Len(D) /\ ~(i <= n)
  BY <1>4, <1>5 DEF Listed, Leading
<1>7. i = n + 1
  <2>1. SUFFICES ASSUME i # n + 1 PROVE FALSE
    OBVIOUS
  <2>. DEFINE j == n + 1
  <2>2. j \in 1..Len(D) /\ j < i /\ ~(j <= n)
    BY <1>6, <2>1
  <2>. HIDE DEF j
  <2>3. PICK l \in Messages : q[l] = Count(l) /\ D[j] = Content(l)
    BY <2>2 DEF Listed
  <2>4. p[l] # Count(l)
    BY <2>2, <2>3 DEF Leading
  <2>5. Count(l) \in (p[l] + 1)..q[l]
    BY <1>1, <2>3, <2>4
  <2>6. PICK b \in 1..Len(W) : W[b] = LastFrame(l)
    BY <2>5 DEF Transit, Complete, LastFrame
  <2>7. j < i <=> b < 1
    BY <1>3, <1>5, <2>2, <2>3, <2>6 DEF Ranked
  <2>. QED
    BY <1>3, <2>2, <2>7
<1>8. ASSUME NEW l \in Messages, NEW j \in 1..Len(D), D[j] = Content(l)
      PROVE  j <= n + 1 <=> r[l] = Count(l)
  <2>1. CASE l = m
    <3>1. j = i
      BY <1>5, <1>8, <2>1 DEF Listed
    <3>. QED
      BY <1>2, <1>6, <1>7, <2>1, <3>1
  <2>2. CASE l # m
    <3>1. j # i
      BY <1>5, <1>8, <2>2, ContentUnique
    <3>2. j <= n <=> p[l] = Count(l)
      BY <1>8 DEF Leading
    <3>3. j <= n + 1 <=> j <= n
      BY <1>6, <1>7, <3>1
    <3>. QED
      BY <1>2, <2>2, <3>2, <3>3
  <2>. QED
    BY <2>1, <2>2
<1>9. n + 1 \in 0..Len(D) /\ n + 1 \in 1..Len(D)
  BY <1>6, <1>7
<1>10. Leading(r, D, n + 1)
  BY <1>8, <1>9 DEF Leading
<1>. QED
  BY <1>5, <1>7, <1>9, <1>10 DEF r

LEMMA LastIsPiece ==
  ASSUME NEW m \in Messages
  PROVE  Piece(LastFrame(m), m, Count(m))
<1>1. Count(m) \in 1..Count(m)
  BY CountType
<1>. QED
  BY <1>1 DEF Piece, LastFrame

(* A frame that is not the last of its message is put on the wire.         *)
LEMMA OrderSkip ==
  ASSUME NEW q \in [Messages -> Nat], NEW W \in Seq(Pieces), NEW D,
         Listed(q, D), Ranked(W, D), NEW m \in Messages, q[m] + 1 < Count(m)
  PROVE  /\ Listed([q EXCEPT ![m] = q[m] + 1], D)
         /\ Ranked(Append(W, Composed(m)[q[m] + 1]), D)
<1>. DEFINE r == [q EXCEPT ![m] = q[m] + 1]
            f == Composed(m)[q[m] + 1]
            V == Append(W, f)
            L == Len(W)
<1>1. Count(m) \in Nat /\ q[m] \in Nat
  BY CountType
<1>2. r[m] = q[m] + 1 /\ \A l \in Messages : l # m => r[l] = q[l]
  OBVIOUS
<1>3. Piece(f, m, q[m] + 1)
  BY <1>1 DEF Piece
<1>4. f \in Pieces
  BY <1>3 DEF Piece, Pieces
<1>. HIDE DEF r, f, V
<1>5. /\ L \in Nat /\ Len(V) = L + 1 /\ V[L + 1] = f
      /\ \A i \in 1..L : V[i] = W[i]
  BY <1>4, AppendProperties DEF V
<1>6. \A l \in Messages : r[l] = Count(l) <=> q[l] = Count(l)
  <2>. SUFFICES ASSUME NEW l \in Messages PROVE r[l] = Count(l) <=> q[l] = Count(l)
    OBVIOUS
  <2>. QED
    BY <1>1, <1>2
<1>7. Listed(r, D)
  BY <1>6 DEF Listed
<1>8. ASSUME NEW l \in Messages, f = LastFrame(l) PROVE FALSE
  <2>1. Piece(f, l, Count(l))
    BY <1>8, LastIsPiece
  <2>2. l = m /\ q[m] + 1 = Count(l)
    BY <1>3, <2>1, PieceUnique
  <2>. QED
    BY <1>1, <2>2
<1>9. ASSUME NEW a \in 1..Len(V), NEW l \in Messages, V[a] = LastFrame(l)
      PROVE  a \in 1..L /\ W[a] = LastFrame(l)
  <2>1. a # L + 1
    BY <1>5, <1>8, <1>9
  <2>. QED
    BY <1>5, <1>9, <2>1
<1>10. Ranked(V, D)
  <2>. SUFFICES ASSUME NEW n \in Messages, NEW l \in Messages,
                       NEW i \in 1..Len(D), NEW j \in 1..Len(D),
                       NEW a \in 1..Len(V), NEW b \in 1..Len(V),
                       D[i] = Content(n), D[j] = Content(l), V[a] = LastFrame(n), V[b] = LastFrame(l)
                PROVE  i < j <=> a < b
    BY DEF Ranked
  <2>1. a \in 1..L /\ W[a] = LastFrame(n)
    BY <1>9
  <2>2. b \in 1..L /\ W[b] = LastFrame(l)
    BY <1>9
  <2>. QED
    BY <2>1, <2>2 DEF Ranked
<1>. QED
  BY <1>7, <1>10 DEF r, V, f

(* The last frame of m is put on the wire.                                 *)
LEMMA OrderAppend ==
  ASSUME NEW p, NEW q, NEW C, NEW W \in Seq(Pieces), Transit(p, q, W, C),
         NEW D, NEW n, Listed(q, D), Leading(p, D, n), Ranked(W, D),
         NEW m \in Messages, q[m] + 1 = Count(m)
  PROVE  /\ Listed([q EXCEPT ![m] = q[m] + 1], Append(D, Content(m)))
         /\ Leading(p, Append(D, Content(m)), n)
         /\ Ranked(Append(W, Composed(m)[q[m] + 1]), Append(D, Content(m)))
<1>. DEFINE r == [q EXCEPT ![m] = q[m] + 1]
            f == Composed(m)[q[m] + 1]
            V == Append(W, f)
            L == Len(W)
            x == Content(m)
            E == Append(D, x)
            N == Len(D)
<1>1. /\ p \in [Messages -> Nat] /\ q \in [Messages -> Nat]
      /\ \A l \in Messages : /\ p[l] \in Nat /\ q[l] \in Nat /\ p[l] <= q[l] /\ q[l] <= Count(l)
                             /\ Count(l) \in Nat
  BY CountType DEF Transit, Counting
<1>2. r[m] = Count(m) /\ \A l \in Messages : l # m => r[l] = q[l]
  BY <1>1
<1>3. f = LastFrame(m) /\ Piece(f, m, Count(m)) /\ f \in Pieces
  <2>1. f = LastFrame(m) /\ Piece(LastFrame(m), m, Count(m))
    BY LastIsPiece DEF LastFrame
  <2>. QED
    BY <2>1 DEF Piece, Pieces
<1>4. x \in Contents /\ D \in Seq(Contents)
  BY DEF Contents, Listed
<1>. HIDE DEF r, f, V, x, E
<1>5. /\ L \in Nat /\ Len(V) = L + 1 /\ V[L + 1] = f
      /\ \A i \in 1..L : V[i] = W[i]
  BY <1>3, AppendProperties DEF V
<1>6. /\ E \in Seq(Contents) /\ N \in Nat /\ Len(E) = N + 1 /\ E[N + 1] = x
      /\ \A i \in 1..N : E[i] = D[i]
  BY <1>4, AppendProperties DEF E
<1>7. ASSUME NEW i \in 1..N PROVE D[i] # x
  <2>1. PICK l \in Messages : q[l] = Count(l) /\ D[i] = Content(l)
    BY DEF Listed
  <2>2. l # m
    BY <1>1, <2>1
  <2>. QED
    BY <2>1, <2>2, ContentUnique DEF x
<1>8. ASSUME NEW a \in 1..L PROVE W[a] # LastFrame(m)
  <2>0. SUFFICES ASSUME W[a] = LastFrame(m) PROVE FALSE
    OBVIOUS
  <2>1. PICK l \in Messages : \E k \in (p[l] + 1)..q[l] : W[a] = Composed(l)[k]
    BY DEF Transit, OnWire
  <2>2. PICK k \in (p[l] + 1)..q[l] : W[a] = Composed(l)[k]
    BY <2>1
  <2>3. k \in 1..Count(l)
    BY <1>1
  <2>4. Piece(W[a], l, k) /\ Piece(W[a], m, Count(m))
    BY <1>3, <2>0, <2>2, <2>3 DEF Piece
  <2>5. l = m /\ k = Count(m)
    BY <2>4, PieceUnique
  <2>. QED
    BY <1>1, <2>5
<1>9. Listed(r, E)
  <2>1. ASSUME NEW i \in 1..Len(E)
        PROVE  \E l \in Messages : r[l] = Count(l) /\ E[i] = Content(l)
    <3>1. CASE i = N + 1
      BY <1>2, <1>6, <3>1 DEF x
    <3>2. CASE i \in 1..N
      <4>1. PICK l \in Messages : q[l] = Count(l) /\ D[i] = Content(l)
        BY <3>2 DEF Listed
      <4>2. r[l] = Count(l)
        BY <1>1, <1>2, <4>1
      <4>. QED
        BY <1>6, <3>2, <4>1, <4>2
    <3>. QED
      BY <1>6, <3>1, <3>2
  <2>2. ASSUME NEW l \in Messages, r[l] = Count(l)
        PROVE  \E i \in 1..Len(E) : E[i] = Content(l)
    <3>1. CASE l = m
      <4>1. N + 1 \in 1..Len(E)
        BY <1>6
      <4>. QED
        BY <1>6, <3>1, <4>1 DEF x
    <3>2. CASE l # m
      <4>1. q[l] = Count(l)
        BY <1>2, <2>2, <3>2
      <4>2. PICK i \in 1..N : D[i] = Content(l)
        BY <4>1 DEF Listed
      <4>3. i \in 1..Len(E) /\ E[i] = D[i]
        BY <1>6
      <4>. QED
        BY <4>2, <4>3
    <3>. QED
      BY <3>1, <3>2
  <2>3. ASSUME NEW i \in 1..Len(E), NEW j \in 1..Len(E), E[i] = E[j] PROVE i = j
    <3>1. CASE i \in 1..N /\ j \in 1..N
      BY <1>6, <2>3, <3>1 DEF Listed
    <3>2. CASE i = N + 1 /\ j \in 1..N
      BY <1>6, <1>7, <2>3, <3>2
    <3>3. CASE i \in 1..N /\ j = N + 1
      BY <1>6, <1>7, <2>3, <3>3
    <3>. QED
      BY <1>6, <3>1, <3>2, <3>3
  <2>. QED
    BY <1>6, <2>1, <2>2, <2>3 DEF Listed
<1>10. ASSUME NEW i \in 1..Len(E), NEW l \in Messages, E[i] = Content(l)
       PROVE  (i = N + 1 <=> l = m) /\ (l # m => i \in 1..N /\ D[i] = Content(l))
  <2>1. CASE i = N + 1
    <3>1. l = m
      BY <1>6, <1>10, <2>1, ContentUnique DEF x
    <3>. QED
      BY <2>1, <3>1
  <2>2. CASE i # N + 1
    <3>1. i \in 1..N /\ D[i] = Content(l)
      BY <1>6, <1>10, <2>2
    <3>2. l # m
      BY <1>7, <3>1 DEF x
    <3>. QED
      BY <2>2, <3>1, <3>2
  <2>. QED
    BY <2>1, <2>2
<1>11. ASSUME NEW a \in 1..Len(V), NEW l \in Messages, V[a] = LastFrame(l)
       PROVE  (a = L + 1 <=> l = m) /\ (l # m => a \in 1..L /\ W[a] = LastFrame(l))
  <2>1. CASE a = L + 1
    <3>1. Piece(f, l, Count(l))
      BY <1>5, <1>11, <2>1, LastIsPiece
    <3>2. l = m
      BY <1>3, <3>1, PieceUnique
    <3>. QED
      BY <2>1, <3>2
  <2>2. CASE a # L + 1
    <3>1. a \in 1..L /\ W[a] = LastFrame(l)
      BY <1>5, <1>11, <2>2
    <3>2. l # m
      BY <1>8, <3>1
    <3>. QED
      BY <2>2, <3>1, <3>2
  <2>. QED
    BY <2>1, <2>2
<1>12. Leading(p, E, n)
  <2>1. n \in 0..N /\ n \in 0..Len(E)
    BY <1>6 DEF Leading
  <2>2. ASSUME NEW l \in Messages, NEW i \in 1..Len(E), E[i] = Content(l)
        PROVE  i <= n <=> p[l] = Count(l)
    <3>1. CASE l = m
      <4>1. i = N + 1 /\ p[m] # Count(m)
        BY <1>1, <1>10, <2>2, <3>1
      <4>. QED
        BY <1>6, <2>1, <3>1, <4>1
    <3>2. CASE l # m
      <4>1. i \in 1..N /\ D[i] = Content(l)
        BY <1>10, <2>2, <3>2
      <4>. QED
        BY <4>1 DEF Leading
    <3>. QED
      BY <3>1, <3>2
  <2>. QED
    BY <2>1, <2>2 DEF Leading
<1>13. Ranked(V, E)
  <2>. SUFFICES ASSUME NEW o \in Messages, NEW l \in Messages,
                       NEW i \in 1..Len(E), NEW j \in 1..Len(E),
                       NEW a \in 1..Len(V), NEW b \in 1..Len(V),
                       E[i] = Content(o), E[j] = Content(l), V[a] = LastFrame(o), V[b] = LastFrame(l)
                PROVE  i < j <=> a < b
    BY DEF Ranked
  <2>1. (i = N + 1 <=> o = m) /\ (j = N + 1 <=> l = m)
    BY <1>10
  <2>2. (a = L + 1 <=> o = m) /\ (b = L + 1 <=> l = m)
    BY <1>11
  <2>3. i \in 1..(N + 1) /\ j \in 1..(N + 1) /\ a \in 1..(L + 1) /\ b \in 1..(L + 1)
    BY <1>5, <1>6
  <2>4. CASE o # m /\ l # m
    <3>1. i \in 1..N /\ D[i] = Content(o) /\ a \in 1..L /\ W[a] = LastFrame(o)
      BY <1>10, <1>11, <2>4
    <3>2. j \in 1..N /\ D[j] = Content(l) /\ b \in 1..L /\ W[b] = LastFrame(l)
      BY <1>10, <1>11, <2>4
    <3>. QED
      BY <3>1, <3>2 DEF Ranked
  <2>5. CASE o = m \/ l = m
    BY <1>5, <1>6, <2>1, <2>2, <2>3, <2>5
  <2>. QED
    BY <2>4, <2>5
<1>. QED
  BY <1>9, <1>12, <1>13 DEF r, V, f, x, E

(* The first c of R are without an error and are the first c of D.         *)
Matches(r, d) == r.key = d.key /\ r.json = d.json /\ r.bin = d.bin
InOrder(R, D, n, c) ==
  /\ c \in 0..Len(R) /\ c <= n /\ (c = Len(R) => n = c)
  /\ \A i \in 1..c : R[i].status # "ERROR" /\ Matches(R[i], D[i])
  /\ c < Len(R) => R[c + 1].status = "ERROR"

LEMMA InOrderError ==
  ASSUME NEW R \in Seq(Entry), NEW D, NEW n \in Nat, NEW c, InOrder(R, D, n, c),
         NEW o \in Nat, n <= o, NEW e \in Entry, e.status = "ERROR"
  PROVE  InOrder(Append(R, e), D, o, c)
<1>. DEFINE Z == Append(R, e)
            N == Len(R)
<1>1. /\ Z \in Seq(Entry) /\ N \in Nat /\ Len(Z) = N + 1 /\ Z[N + 1] = e
      /\ \A i \in 1..N : Z[i] = R[i]
  BY AppendProperties
<1>. HIDE DEF Z
<1>2. c \in 0..N /\ c <= n
  BY DEF InOrder
<1>3. c \in 0..Len(Z) /\ c <= o /\ c < Len(Z)
  BY <1>1, <1>2
<1>4. \A i \in 1..c : Z[i].status # "ERROR" /\ Matches(Z[i], D[i])
  <2>1. \A i \in 1..c : i \in 1..N
    BY <1>1, <1>2
  <2>. QED
    BY <1>1, <2>1 DEF InOrder
<1>5. Z[c + 1].status = "ERROR"
  <2>1. CASE c = N
    BY <1>1, <2>1
  <2>2. CASE c < N
    <3>1. c + 1 \in 1..N
      BY <1>1, <1>2, <2>2
    <3>. QED
      BY <1>1, <2>2, <3>1 DEF InOrder
  <2>. QED
    BY <1>1, <1>2, <2>1, <2>2
<1>6. ~(c = Len(Z))
  BY <1>1, <1>2
<1>7. InOrder(Z, D, o, c)
  BY <1>3, <1>4, <1>5, <1>6 DEF InOrder
<1>. QED
  BY <1>7 DEF Z

LEMMA InOrderNext ==
  ASSUME NEW R \in Seq(Entry), NEW D, NEW n \in Nat, NEW c, InOrder(R, D, n, c),
         NEW e \in Entry, e.status # "ERROR", Matches(e, D[n + 1])
  PROVE  \E d : InOrder(Append(R, e), D, n + 1, d)
<1>. DEFINE Z == Append(R, e)
            N == Len(R)
<1>1. /\ Z \in Seq(Entry) /\ N \in Nat /\ Len(Z) = N + 1 /\ Z[N + 1] = e
      /\ \A i \in 1..N : Z[i] = R[i]
  BY AppendProperties
<1>. HIDE DEF Z
<1>2. c \in 0..N /\ c <= n /\ (c = N => n = c)
  BY DEF InOrder
<1>3. \A i \in 1..c : Z[i].status # "ERROR" /\ Matches(Z[i], D[i])
  <2>1. \A i \in 1..c : i \in 1..N
    BY <1>1, <1>2
  <2>. QED
    BY <1>1, <2>1 DEF InOrder
<1>4. CASE c = N
  <2>1. n = N /\ n + 1 \in 0..Len(Z) /\ n + 1 <= n + 1 /\ ~(n + 1 < Len(Z))
    BY <1>1, <1>2, <1>4
  <2>2. \A i \in 1..(n + 1) : Z[i].status # "ERROR" /\ Matches(Z[i], D[i])
    <3>. SUFFICES ASSUME NEW i \in 1..(n + 1)
                  PROVE  Z[i].status # "ERROR" /\ Matches(Z[i], D[i])
      OBVIOUS
    <3>1. CASE i = n + 1
      BY <1>1, <2>1, <3>1
    <3>2. CASE i # n + 1
      <4>1. i \in 1..c
        BY <1>2, <1>4, <2>1, <3>2
      <4>. QED
        BY <1>3, <4>1
    <3>. QED
      BY <3>1, <3>2
  <2>3. InOrder(Z, D, n + 1, n + 1)
    BY <2>1, <2>2 DEF InOrder
  <2>. QED
    BY <2>3 DEF Z
<1>5. CASE c # N
  <2>1. c \in 0..Len(Z) /\ c <= n + 1 /\ c # Len(Z)
    BY <1>1, <1>2
  <2>2. Z[c + 1].status = "ERROR"
    <3>1. c < N /\ c + 1 \in 1..N
      BY <1>1, <1>2, <1>5
    <3>. QED
      BY <1>1, <3>1 DEF InOrder
  <2>3. InOrder(Z, D, n + 1, c)
    BY <1>3, <2>1, <2>2 DEF InOrder
  <2>. QED
    BY <2>3 DEF Z
<1>. QED
  BY <1>4, <1>5

LEMMA InOrderGrows ==
  ASSUME NEW R \in Seq(Entry), NEW D \in Seq(Contents), NEW n \in 0..Len(D), NEW c,
         InOrder(R, D, n, c), NEW x \in Contents
  PROVE  InOrder(R, Append(D, x), n, c)
<1>1. Len(D) \in Nat /\ \A i \in 1..Len(D) : Append(D, x)[i] = D[i]
  BY AppendProperties
<1>2. c \in 0..Len(R) /\ c <= n /\ Len(R) \in Nat
  BY DEF InOrder
<1>3. \A i \in 1..c : i \in 1..Len(D)
  BY <1>1, <1>2
<1>4. \A i \in 1..c : R[i].status # "ERROR" /\ Matches(R[i], Append(D, x)[i])
  BY <1>1, <1>3 DEF InOrder
<1>. QED
  BY <1>4 DEF InOrder

-----------------------------------------------------------------------------
(* The invariant                                                           *)

Types ==
  /\ composed \subseteq Messages /\ secure \subseteq Sessions
  /\ wire \in Seq(Pieces) /\ NothingInBio
  /\ res \in Seq(Entry) /\ handed \in Seq(Entry)
  /\ pc \in {"loop", "parse"} /\ (pc = "loop" => res = <<>>)

(* p and q count the frames parsed and sent of each message, n the messages*)
(* whose last frame is parsed, c those returned before the first error, g  *)
(* the bytes of the stream.                                                *)
Sending(p, q) == Transit(p, q, wire, composed) /\ Waiting(q, queue, composed)
Collecting(p) == Kept(p, frames, totalSize, secure)
Returning(p) == Returned(p, Parsed, composed)
Ordering(p, q, n, c) ==
  /\ Listed(q, completed) /\ Leading(p, completed, n) /\ Ranked(wire, completed)
  /\ InOrder(Parsed, completed, n, c)
Flow(p, q, n, c) == Sending(p, q) /\ Collecting(p) /\ Returning(p) /\ Ordering(p, q, n, c)
Arrived == \E g : Measured(g, wire, buffer)

ParserInv == Types /\ Arrived /\ \E p, q, n, c : Flow(p, q, n, c)

LEMMA ParsedKeeps ==
  ASSUME Types, UNCHANGED <<res, handed>>
  PROVE  Parsed' = Parsed /\ Parsed \in Seq(Entry)
  BY DEF Types, Parsed

LEMMA ParsedGrows ==
  ASSUME Types, NEW e \in Entry, res' = Append(res, e), handed' = handed
  PROVE  Parsed' = Append(Parsed, e) /\ Parsed \in Seq(Entry) /\ res' \in Seq(Entry)
<1>1. res \in Seq(Entry) /\ handed \in Seq(Entry)
  BY DEF Types
<1>. DEFINE a == handed
            b == res
<1>. HIDE DEF a, b
<1>2. ASSUME a \in Seq(Entry), b \in Seq(Entry)
      PROVE  a \o Append(b, e) = Append(a \o b, e) /\ a \o b \in Seq(Entry) /\ Append(b, e) \in Seq(Entry)
  <2>1. <<e>> \in Seq(Entry) /\ a \o b \in Seq(Entry) /\ Append(b, e) \in Seq(Entry)
    BY <1>2
  <2>2. Append(b, e) = b \o <<e>> /\ Append(a \o b, e) = (a \o b) \o <<e>>
    BY <1>2, <2>1, AppendIsConcat
  <2>3. a \o (b \o <<e>>) = (a \o b) \o <<e>>
    BY <1>2, <2>1, ConcatAssociative
  <2>. QED
    BY <2>1, <2>2, <2>3
<1>. QED
  BY <1>1, <1>2 DEF a, b, Parsed

LEMMA ParsedHanded ==
  ASSUME Types, handed' = handed \o res, res' = <<>>
  PROVE  Parsed' = Parsed /\ handed' \in Seq(Entry)
<1>1. handed \o res \in Seq(Entry)
  BY DEF Types
<1>2. (handed \o res) \o <<>> = handed \o res
  BY <1>1, ConcatEmptySeq
<1>. QED
  BY <1>1, <1>2 DEF Parsed

LEMMA InvInit == Init => ParserInv
<1>. SUFFICES ASSUME Init PROVE ParserInv
  OBVIOUS
<1>. DEFINE z == [m \in Messages |-> 0]
            g == [i \in 0..0 |-> 0]
<1>1. Types
  BY DEF Init, Types, NothingInBio
<1>2. Arrived
  <2>1. Len(<<>>) = 0 /\ wire = <<>> /\ buffer = 0
    BY DEF Init
  <2>2. g \in [0..0 -> Nat] /\ g[0] = 0
    OBVIOUS
  <2>3. Sums(g, <<>>)
    BY <2>1, <2>2 DEF Sums
  <2>. QED
    BY <2>1, <2>2, <2>3 DEF Arrived, Measured
<1>3. \A m \in Messages : z[m] = 0 /\ Count(m) \in Nat \ {0}
  BY CountType
<1>4. z \in [Messages -> Nat]
  OBVIOUS
<1>. HIDE DEF z
<1>5. Transit(z, z, <<>>, {})
  <2>1. Counting(z, z, {})
    BY <1>3, <1>4 DEF Counting
  <2>2. \A m \in Messages : (z[m] + 1)..z[m] = {}
    BY <1>3
  <2>3. 1..Len(<<>>) = {}
    OBVIOUS
  <2>4. OnWire(z, z, <<>>) /\ Complete(z, z, <<>>) /\ InTurn(<<>>)
    BY <2>2, <2>3 DEF OnWire, Complete, InTurn
  <2>. QED
    BY <2>1, <2>4 DEF Transit
<1>6. Waiting(z, queue, {})
  BY DEF Init, Waiting
<1>7. Kept(z, frames, totalSize, secure)
  <2>1. /\ frames \in [Keys -> Seq(Byte) \cup {None}] /\ totalSize \in [Keys -> Nat]
        /\ \A k \in Keys : frames[k] = None /\ totalSize[k] = 0
    BY DEF Init
  <2>2. \A k \in Keys : Tallied(frames[k], totalSize[k])
    BY <2>1 DEF Tallied
  <2>3. \A m \in Messages : KeptOf(m, z[m], frames[KeyOf(m)], secure)
    BY <1>3, <2>1, KeyIsKey DEF KeptOf
  <2>. QED
    BY <2>1, <2>2, <2>3 DEF Kept
<1>8. Returned(z, <<>>, {})
  BY <1>3 DEF Returned
<1>9. Listed(z, <<>>) /\ Leading(z, <<>>, 0) /\ Ranked(<<>>, <<>>)
  <2>1. Listed(z, <<>>)
    BY <1>3 DEF Listed
  <2>2. Leading(z, <<>>, 0)
    BY DEF Leading
  <2>3. Ranked(<<>>, <<>>)
    BY DEF Ranked
  <2>. QED
    BY <2>1, <2>2, <2>3
<1>10. InOrder(<<>>, <<>>, 0, 0)
  BY DEF InOrder
<1>11. Parsed = <<>> /\ wire = <<>> /\ composed = {} /\ completed = <<>>
  BY DEF Init, Parsed
<1>12. Flow(z, z, 0, 0)
  BY <1>5, <1>6, <1>7, <1>8, <1>9, <1>10, <1>11
  DEF Flow, Sending, Collecting, Returning, Ordering
<1>. QED
  BY <1>1, <1>2, <1>12 DEF ParserInv

LEMMA StepCompose ==
  ASSUME ParserInv, NEW m \in Messages, Compose(m)
  PROVE  ParserInv'
<1>1. Types'
  BY DEF ParserInv, Types, NothingInBio, Compose, parser
<1>2. Arrived'
  BY DEF ParserInv, Arrived, Compose, parser
<1>3. PICK p, q, n, c : Flow(p, q, n, c)
  BY DEF ParserInv
<1>4. Parsed' = Parsed
  BY ParsedKeeps DEF ParserInv, Compose, parser
<1>5. /\ Transit(p, q, wire, composed \cup {m})
      /\ Waiting(q, [queue EXCEPT ![m] = Composed(m)], composed \cup {m})
  BY <1>3, WaitingCompose DEF Flow, Sending, Compose
<1>6. Sending(p, q)'
  BY <1>5 DEF Sending, Compose
<1>7. Collecting(p)'
  BY <1>3 DEF Flow, Collecting, Compose, parser
<1>8. Returned(p, Parsed, composed \cup {m})
  BY <1>3 DEF Flow, Returning, Returned
<1>9. Returning(p)'
  BY <1>4, <1>8 DEF Returning, Compose
<1>10. Ordering(p, q, n, c)'
  BY <1>3, <1>4 DEF Flow, Ordering, Compose
<1>11. Flow(p, q, n, c)'
  BY <1>6, <1>7, <1>9, <1>10 DEF Flow
<1>. QED
  BY <1>1, <1>2, <1>11 DEF ParserInv

LEMMA StepUnregister ==
  ASSUME ParserInv, NEW s \in Sessions, Unregister(s)
  PROVE  ParserInv'
<1>1. Types'
  BY DEF ParserInv, Types, NothingInBio, Unregister, parser
<1>2. Arrived'
  BY DEF ParserInv, Arrived, Unregister, parser
<1>3. PICK p, q, n, c : Flow(p, q, n, c)
  BY DEF ParserInv
<1>4. Parsed' = Parsed
  BY ParsedKeeps DEF ParserInv, Unregister, parser
<1>5. Sending(p, q)'
  BY <1>3 DEF Flow, Sending, Unregister
<1>6. Kept(p, frames, totalSize, secure')
  BY <1>3, KeptShrinks DEF Flow, Collecting, Unregister
<1>7. Collecting(p)'
  BY <1>6 DEF Collecting, Unregister, parser
<1>8. Returning(p)'
  BY <1>3, <1>4 DEF Flow, Returning, Unregister
<1>9. Ordering(p, q, n, c)'
  BY <1>3, <1>4 DEF Flow, Ordering, Unregister
<1>10. Flow(p, q, n, c)'
  BY <1>5, <1>7, <1>8, <1>9 DEF Flow
<1>. QED
  BY <1>1, <1>2, <1>10 DEF ParserInv

(* A step that leaves the messages and what is collected of them alone.    *)
LEMMA QuietStep ==
  ASSUME ParserInv, Types', Arrived', Parsed' = Parsed,
         UNCHANGED <<queue, composed, secure, wire, frames, totalSize, completed>>
  PROVE  ParserInv'
<1>1. PICK p, q, n, c : Flow(p, q, n, c)
  BY DEF ParserInv
<1>2. Sending(p, q)' /\ Collecting(p)' /\ Returning(p)'
  BY <1>1 DEF Flow, Sending, Collecting, Returning
<1>3. Ordering(p, q, n, c)'
  BY <1>1 DEF Flow, Ordering
<1>4. Flow(p, q, n, c)'
  BY <1>2, <1>3 DEF Flow
<1>. QED
  BY <1>4 DEF ParserInv

LEMMA StepArrive ==
  ASSUME ParserInv, Arrive
  PROVE  ParserInv'
<1>1. PICK x \in 1..(WireBytes - buffer) : Read(x)
  BY DEF Arrive
<1>2. PICK g : Measured(g, wire, buffer)
  BY DEF ParserInv, Arrived
<1>3. WireBytes = g[Len(wire)] /\ Len(wire) \in Nat
  BY <1>2, StreamIsSum DEF WireBytes, ParserInv, Types, Measured
<1>4. g[Len(wire)] \in Nat /\ buffer \in Nat /\ buffer <= g[Len(wire)]
  BY <1>2, <1>3 DEF Measured
<1>5. Measured(g, wire, buffer + x)
  <2>1. buffer + x \in Nat /\ buffer + x <= g[Len(wire)]
    BY <1>3, <1>4
  <2>. QED
    BY <1>2, <2>1 DEF Measured
<1>6. Arrived'
  BY <1>1, <1>5 DEF Arrived, Read
<1>7. Types'
  BY <1>1 DEF ParserInv, Types, NothingInBio, Read
<1>8. Parsed' = Parsed
  BY <1>1, ParsedKeeps DEF ParserInv, Read
<1>. QED
  BY <1>1, <1>6, <1>7, <1>8, QuietStep DEF Read

LEMMA StepEndParse ==
  ASSUME ParserInv, EndParse
  PROVE  ParserInv'
<1>1. Parsed' = Parsed /\ handed' \in Seq(Entry)
  BY ParsedHanded DEF ParserInv, EndParse
<1>2. Types'
  BY <1>1 DEF ParserInv, Types, NothingInBio, EndParse
<1>3. Arrived'
  BY DEF ParserInv, Arrived, EndParse
<1>. QED
  BY <1>1, <1>2, <1>3, QuietStep DEF EndParse

LEMMA StepTransmit ==
  ASSUME ParserInv, NEW m \in Messages, Transmit(m)
  PROVE  ParserInv'
<1>1. PICK p, q, n, c : Flow(p, q, n, c)
  BY DEF ParserInv
<1>. DEFINE r == [q EXCEPT ![m] = q[m] + 1]
            f == Composed(m)[q[m] + 1]
<1>2. Transit(p, q, wire, composed) /\ Waiting(q, queue, composed) /\ wire \in Seq(Pieces)
  BY <1>1 DEF Flow, Sending, ParserInv, Types
<1>3. queue[m] # <<>> /\ q \in [Messages -> Nat] /\ Count(m) \in Nat
  BY <1>2, CountType DEF Transmit, Transit, Counting
<1>4. /\ m \in composed /\ q[m] \in Nat /\ q[m] < Count(m) /\ Head(queue[m]) = f
      /\ Len(queue[m]) = 1 <=> q[m] + 1 = Count(m)
  BY <1>2, <1>3, WaitingHead
<1>5. wire' = Append(wire, f) /\ queue' = [queue EXCEPT ![m] = Tail(queue[m])]
  BY <1>4 DEF Transmit
<1>6. Transit(p, r, Append(wire, f), composed)
  BY <1>2, <1>4, TransitAppend
<1>7. Waiting(r, [queue EXCEPT ![m] = Tail(queue[m])], composed)
  BY <1>2, <1>3, WaitingSend
<1>8. f \in Pieces
  <2>1. q[m] + 1 \in 1..Count(m)
    BY <1>3, <1>4
  <2>. QED
    BY <2>1 DEF Pieces
<1>. HIDE DEF r, f
<1>9. Parsed' = Parsed /\ Parsed \in Seq(Entry)
  BY ParsedKeeps DEF ParserInv, Transmit, parser
<1>10. Sending(p, r)'
  BY <1>5, <1>6, <1>7 DEF Sending, Transmit
<1>11. Collecting(p)' /\ Returning(p)'
  BY <1>1, <1>9 DEF Flow, Collecting, Returning, Transmit, parser
<1>12. Types'
  <2>1. wire' \in Seq(Pieces)
    BY <1>2, <1>5, <1>8
  <2>. QED
    BY <2>1 DEF ParserInv, Types, NothingInBio, Transmit, parser
<1>13. Arrived'
  <2>1. PICK g : Measured(g, wire, buffer)
    BY DEF ParserInv, Arrived
  <2>2. \E h : Measured(h, Append(wire, f), buffer)
    BY <1>2, <1>8, <2>1, MeasuredAppend
  <2>. QED
    BY <1>5, <2>2 DEF Arrived, Transmit, parser
<1>14. /\ Listed(q, completed) /\ Leading(p, completed, n) /\ Ranked(wire, completed)
       /\ InOrder(Parsed, completed, n, c)
  BY <1>1 DEF Flow, Ordering
<1>15. Ordering(p, r, n, c)'
  <2>1. CASE q[m] + 1 = Count(m)
    <3>1. completed' = Append(completed, Content(m))
      BY <1>4, <2>1 DEF Transmit
    <3>2. /\ Listed(r, Append(completed, Content(m)))
          /\ Leading(p, Append(completed, Content(m)), n)
          /\ Ranked(Append(wire, f), Append(completed, Content(m)))
      BY <1>2, <1>14, <2>1, OrderAppend DEF r, f
    <3>3. completed \in Seq(Contents) /\ n \in 0..Len(completed) /\ Content(m) \in Contents
      BY <1>14 DEF Listed, Leading, Contents
    <3>4. InOrder(Parsed, Append(completed, Content(m)), n, c)
      BY <1>9, <1>14, <3>3, InOrderGrows
    <3>. QED
      BY <1>5, <1>9, <3>1, <3>2, <3>4 DEF Ordering
  <2>2. CASE q[m] + 1 # Count(m)
    <3>1. completed' = completed /\ q[m] + 1 < Count(m)
      BY <1>3, <1>4, <2>2 DEF Transmit
    <3>2. Listed(r, completed) /\ Ranked(Append(wire, f), completed)
      BY <1>2, <1>3, <1>14, <3>1, OrderSkip DEF r, f
    <3>. QED
      BY <1>5, <1>9, <1>14, <3>1, <3>2 DEF Ordering
  <2>. QED
    BY <2>1, <2>2
<1>16. Flow(p, r, n, c)'
  BY <1>10, <1>11, <1>15 DEF Flow
<1>. QED
  BY <1>12, <1>13, <1>16 DEF ParserInv

-----------------------------------------------------------------------------
(* A turn of the loop of Parse                                             *)

(* The next frame of m is consumed; Parse returns e for it, or nothing when*)
(* it is not the last one.                                                 *)
Speaks(m, k, e) ==
  /\ e \in Entry /\ e.key = KeyOf(m)
  /\ e.status # "ERROR" => k = Count(m) /\ Gives(e, m)
Says(m, k) ==
  /\ handed' = handed
  /\ \/ res' = res /\ k < Count(m)
     \/ \E e : res' = Append(res, e) /\ Speaks(m, k, e)

LEMMA Turn ==
  ASSUME Types, Arrived, NEW p, NEW q, NEW n, NEW c, Flow(p, q, n, c), wire # <<>>,
         NEW m \in Messages, Piece(Head(wire), m, p[m] + 1), m \in composed, p[m] + 1 <= q[m],
         Consume(Head(wire), bioIn), pc' = pc, Says(m, p[m] + 1),
         Kept([p EXCEPT ![m] = p[m] + 1], frames', totalSize', secure)
  PROVE  ParserInv'
<1>. DEFINE r == [p EXCEPT ![m] = p[m] + 1]
            f == Head(wire)
            k == p[m] + 1
<1>1. wire \in Seq(Pieces) /\ Transit(p, q, wire, composed)
  BY DEF Types, Flow, Sending
<1>2. p \in [Messages -> Nat] /\ p[m] \in Nat /\ q[m] \in Nat /\ q[m] <= Count(m) /\ Count(m) \in Nat
  BY <1>1, CountType DEF Transit, Counting
<1>3. k <= Count(m)
  BY <1>2
<1>4. f \in Pieces /\ f.size \in Nat /\ Tail(wire) \in Seq(Pieces)
  BY <1>1, HeadTailProperties, PieceSize
<1>5. wire' = Tail(wire) /\ buffer' = buffer - f.size - HeaderSize /\ bioIn' = bioIn
  BY DEF Consume
<1>6. Arrived'
  <2>1. PICK g : Measured(g, wire, buffer)
    BY DEF Arrived
  <2>2. buffer >= HeaderSize + Head(wire).size
    <3>1. buffer >= f.size + HeaderSize /\ HeaderSize \in Nat /\ buffer \in Nat
      BY <2>1, SizeAssumption DEF Consume, FrameArrived, Measured
    <3>. QED
      BY <1>4, <3>1
  <2>3. \E h : Measured(h, Tail(wire), buffer - Head(wire).size - HeaderSize)
    BY <1>1, <2>1, <2>2, MeasuredTail
  <2>. QED
    BY <1>5, <2>3 DEF Arrived
<1>7. Sending(r, q)'
  <2>1. Transit(r, q, Tail(wire), composed)
    BY <1>1, TransitTail
  <2>. HIDE DEF r
  <2>. QED
    BY <1>5, <2>1 DEF Flow, Sending, Consume
<1>8. Collecting(r)'
  BY DEF Collecting, Consume
<1>9. pc = "parse"
  BY DEF Consume
<1>10. /\ Listed(q, completed) /\ Leading(p, completed, n) /\ Ranked(wire, completed)
       /\ InOrder(Parsed, completed, n, c) /\ Returned(p, Parsed, composed)
  BY DEF Flow, Ordering, Returning
<1>11. Ranked(Tail(wire), completed)
  BY <1>1, <1>10, RankedTail
<1>12. k < Count(m) => Leading(r, completed, n)
  BY <1>2, <1>10, LeadingSkip
<1>13. k = Count(m) => /\ Leading(r, completed, n + 1) /\ completed[n + 1] = Content(m)
  BY <1>1, <1>10, LeadingLast
<1>14. n \in Nat
  BY <1>10 DEF Leading, Listed
<1>15. CASE res' = res /\ k < Count(m)
  <2>1. Parsed' = Parsed
    BY <1>15, ParsedKeeps DEF Says
  <2>2. Types'
    BY <1>4, <1>5, <1>9, <1>15 DEF Types, NothingInBio, Consume
  <2>3. Returned(r, Parsed, composed)
    BY <1>2, <1>10, <1>15, ReturnedSkip
  <2>. HIDE DEF r, k
  <2>4. Returning(r)'
    BY <2>1, <2>3 DEF Returning, Consume
  <2>5. Ordering(r, q, n, c)'
    BY <1>5, <1>10, <1>11, <1>12, <1>15, <2>1 DEF Ordering, Consume
  <2>6. Flow(r, q, n, c)'
    BY <1>7, <1>8, <2>4, <2>5 DEF Flow
  <2>. QED
    BY <1>6, <2>2, <2>6 DEF ParserInv
<1>16. CASE \E e : res' = Append(res, e) /\ Speaks(m, k, e)
  <2>1. PICK e : res' = Append(res, e) /\ Speaks(m, k, e)
    BY <1>16
  <2>2. e \in Entry /\ e.key = KeyOf(m) /\ (e.status # "ERROR" => k = Count(m) /\ Gives(e, m))
    BY <2>1 DEF Speaks
  <2>3. Parsed' = Append(Parsed, e) /\ Parsed \in Seq(Entry) /\ res' \in Seq(Entry)
    BY <2>1, <2>2, ParsedGrows DEF Says
  <2>4. Types'
    BY <1>4, <1>5, <1>9, <2>3 DEF Types, NothingInBio, Consume
  <2>5. Returned(r, Append(Parsed, e), composed)
    BY <1>2, <1>3, <1>10, <2>2, ReturnedAppend
  <2>. HIDE DEF r, k
  <2>6. Returning(r)'
    BY <2>3, <2>5 DEF Returning, Consume
  <2>7. \E o, d : Leading(r, completed, o) /\ InOrder(Append(Parsed, e), completed, o, d)
    <3>1. CASE k = Count(m) /\ e.status = "ERROR"
      <4>1. n + 1 \in Nat /\ n <= n + 1
        BY <1>14
      <4>2. InOrder(Append(Parsed, e), completed, n + 1, c)
        BY <1>10, <1>14, <2>2, <2>3, <3>1, <4>1, InOrderError
      <4>. QED
        BY <1>13, <3>1, <4>2
    <3>2. CASE k = Count(m) /\ e.status # "ERROR"
      <4>1. Matches(e, completed[n + 1])
        BY <1>13, <2>2, <3>2 DEF Matches, Gives
      <4>2. \E d : InOrder(Append(Parsed, e), completed, n + 1, d)
        BY <1>10, <1>14, <2>2, <2>3, <3>2, <4>1, InOrderNext
      <4>. QED
        BY <1>13, <3>2, <4>2
    <3>3. CASE k # Count(m)
      <4>1. k < Count(m) /\ e.status = "ERROR" /\ n <= n
        BY <1>2, <1>3, <1>14, <2>2, <3>3 DEF k
      <4>2. InOrder(Append(Parsed, e), completed, n, c)
        BY <1>10, <1>14, <2>2, <2>3, <4>1, InOrderError
      <4>. QED
        BY <1>12, <4>1, <4>2
    <3>. QED
      BY <3>1, <3>2, <3>3
  <2>8. PICK o, d : Leading(r, completed, o) /\ InOrder(Append(Parsed, e), completed, o, d)
    BY <2>7
  <2>9. Ordering(r, q, o, d)'
    BY <1>5, <1>10, <1>11, <2>3, <2>8 DEF Ordering, Consume
  <2>10. Flow(r, q, o, d)'
    BY <1>7, <1>8, <2>6, <2>9 DEF Flow
  <2>. QED
    BY <1>6, <2>4, <2>10 DEF ParserInv
<1>. QED
  BY <1>15, <1>16 DEF Says

LEMMA ContentType ==
  ASSUME NEW m \in Messages
  PROVE  /\ Content(m).key = KeyOf(m) /\ KeyOf(m) \in Keys
         /\ Content(m).json \in Seq(Byte) /\ Content(m).bin \in Seq(Byte)
<1>. DEFINE h == IF Kind[m] = "rpc" THEN BinaryHeaderSize + Json[m] ELSE 0
            B == BinaryHeaderSize
            L == Length(m)
<1>1. h \in Nat /\ B \in Nat /\ L \in Nat /\ L >= h /\ (Kind[m] = "rpc" => h >= B)
  BY LengthType, MessageAssumption, SizeAssumption DEF Length
<1>2. /\ Content(m).key = KeyOf(m)
      /\ Content(m).json = IF Kind[m] = "rpc" THEN Bytes(m, B + 1, h) ELSE <<>>
      /\ Content(m).bin = Bytes(m, h + 1, L)
  BY DEF Content, KeyOf
<1>. HIDE DEF h, B, L
<1>3. Bytes(m, h + 1, L) \in Seq(Byte)
  <2>. DEFINE a == h + 1
  <2>1. a \in Nat \ {0} /\ L >= a - 1
    BY <1>1
  <2>. HIDE DEF a
  <2>2. Bytes(m, a, L) \in Seq(Byte)
    BY <1>1, <2>1, BytesType
  <2>. QED
    BY <2>2 DEF a
<1>4. Kind[m] = "rpc" => Bytes(m, B + 1, h) \in Seq(Byte)
  <2>. DEFINE a == B + 1
  <2>1. Kind[m] = "rpc" => a \in Nat \ {0} /\ h >= a - 1
    BY <1>1
  <2>. HIDE DEF a
  <2>2. Kind[m] = "rpc" => Bytes(m, a, h) \in Seq(Byte)
    BY <1>1, <2>1, BytesType
  <2>. QED
    BY <2>2 DEF a
<1>5. <<>> \in Seq(Byte)
  OBVIOUS
<1>. QED
  BY <1>2, <1>3, <1>4, <1>5, KeyIsKey

LEMMA StatusType ==
  ASSUME NEW f
  PROVE  Decrypted(f).status \in Statuses
  BY DEF Decrypted, Statuses

(* What Parse makes of all data of m is a whole message.                   *)
LEMMA ResultSpeaks ==
  ASSUME NEW m \in Messages, NEW f, Describes(m, f), NEW status \in Statuses, NEW size \in Nat,
         size >= Length(m), f.type # "control"
  PROVE  Speaks(m, Count(m), Result(f, status, Bytes(m, 1, Length(m)), size))
<1>. DEFINE e == Result(f, status, Bytes(m, 1, Length(m)), size)
<1>1. Gives(e, m) /\ e.key = KeyOf(m) /\ e.status = status
  BY WholeGives
<1>2. e = [key |-> e.key, json |-> e.json, bin |-> e.bin, status |-> e.status]
  BY DEF Result
<1>. HIDE DEF e
<1>3. e.key \in Keys /\ e.json \in Seq(Byte) /\ e.bin \in Seq(Byte) /\ e.status \in Statuses
  BY <1>1, ContentType DEF Gives
<1>4. e \in Entry
  BY <1>2, <1>3 DEF Entry
<1>. QED
  BY <1>1, <1>4 DEF Speaks, e

LEMMA ReportType ==
  ASSUME NEW m \in Messages, NEW f, Describes(m, f), NEW status \in Statuses,
         NEW data \in Seq(Byte)
  PROVE  LET e == Report(f, status, data)
         IN e \in Entry /\ e.key = KeyOf(m) /\ e.status = status
<1>1. KeyOf(m) \in Keys /\ Key(f) = KeyOf(m) /\ <<>> \in Seq(Byte)
  BY KeyIsKey DEF Describes
<1>. QED
  BY <1>1 DEF Report, Entry

LEMMA ParseUndecryptedStep ==
  ASSUME Fits, Types, Arrived, NEW p, NEW q, NEW n, NEW c, Flow(p, q, n, c), wire # <<>>,
         NEW m \in Messages, Piece(Head(wire), m, p[m] + 1), m \in composed, p[m] + 1 <= q[m],
         ParseUndecrypted(Head(wire), Decrypted(Head(wire)))
  PROVE  ParserInv'
<1>. DEFINE f == Head(wire)
            d == Decrypted(f)
            k == p[m] + 1
            e == Report(f, d.status, d.data)
<1>1. /\ p \in [Messages -> Nat] /\ p[m] \in Nat /\ q[m] \in Nat /\ q[m] <= Count(m)
      /\ Count(m) \in Nat \ {0}
  BY CountType DEF Flow, Sending, Transit, Counting
<1>2. d.data = f.data /\ d.left = bioIn /\ (d.status = "ERROR" <=> Fails(f)) /\ d.status \in Statuses
  BY PieceDecrypted, StatusType DEF Types
<1>3. Describes(m, f)
  BY PieceKinds
<1>4. Count(m) = 1 \/ k # 1
  <2>1. SUFFICES ASSUME Count(m) # 1, k = 1 PROVE FALSE
    OBVIOUS
  <2>2. f.enc = FALSE /\ f.data # <<>>
    BY <2>1, PieceKinds DEF Leads
  <2>. QED
    BY <1>2, <2>2 DEF ParseUndecrypted, Fails
<1>5. /\ f.data \in Seq(Byte) /\ f.enc = (m \in Encrypted) /\ (Count(m) # 1 => f.data # <<>>)
  BY <1>4, PieceData
<1>6. e \in Entry /\ e.key = KeyOf(m) /\ e.status = d.status
  BY <1>2, <1>3, <1>5, ReportType
<1>. HIDE DEF d
<1>7. ASSUME e.status # "ERROR" PROVE k = Count(m) /\ Gives(e, m)
  <2>1. f.data = <<>> /\ Count(m) = 1
    BY <1>2, <1>5, <1>6, <1>7 DEF ParseUndecrypted, d
  <2>2. f.data = Bytes(m, 1, Length(m)) /\ k = 1
    BY <1>1, <2>1, PieceKinds DEF Alone
  <2>3. Length(m) \in Nat /\ Len(Bytes(m, 1, Length(m))) = Length(m)
    BY LengthType, Beginning
  <2>4. Length(m) = 0
    BY <2>1, <2>2, <2>3
  <2>5. Kind[m] # "rpc"
    BY <2>4, LengthType, MessageAssumption, SizeAssumption
  <2>6. Gives(Report(f, d.status, Bytes(m, 1, Length(m))), m)
    BY <1>3, <2>5, ReportGives
  <2>. QED
    BY <1>2, <2>1, <2>2, <2>6
<1>. HIDE DEF e
<1>8. Speaks(m, k, e)
  BY <1>6, <1>7 DEF Speaks
<1>9. Says(m, k)
  BY <1>8 DEF ParseUndecrypted, Consume, Says, e, d
<1>10. KeptOf(m, k, frames[KeyOf(m)], secure)
  <2>1. KeptOf(m, p[m], frames[KeyOf(m)], secure)
    BY DEF Flow, Collecting, Kept
  <2>2. CASE Count(m) = 1
    <3>1. frames[KeyOf(m)] = None /\ k = Count(m)
      BY <1>1, <2>1, <2>2 DEF KeptOf
    <3>. QED
      BY <1>1, <2>2, <3>1 DEF KeptOf
  <2>3. CASE Count(m) # 1
    <3>1. Fails(f) /\ f.data # <<>> /\ f.session = Session[m]
      BY <1>2, <1>3, <1>5, <2>3 DEF ParseUndecrypted, Describes, d
    <3>2. Failing(m, secure)
      BY <1>5, <3>1 DEF Fails, Failing
    <3>3. 0 < p[m] /\ p[m] < Count(m) /\ k # 0
      BY <1>1, <1>4, <2>3
    <3>. QED
      BY <2>1, <2>3, <3>2, <3>3 DEF KeptOf
  <2>. QED
    BY <2>2, <2>3
<1>11. Kept([p EXCEPT ![m] = p[m] + 1], frames, totalSize, secure)
  BY <1>1, <1>10, KeptSame DEF Flow, Collecting
<1>12. /\ Consume(f, bioIn) /\ pc' = pc
       /\ Kept([p EXCEPT ![m] = p[m] + 1], frames', totalSize', secure)
  BY <1>2, <1>11 DEF ParseUndecrypted, d
<1>. QED
  BY <1>9, <1>12, Turn

(* A frame that is a whole message.                                        *)
LEMMA ParseWholeStep ==
  ASSUME Fits, Types, Arrived, NEW p, NEW q, NEW n, NEW c, Flow(p, q, n, c), wire # <<>>,
         NEW m \in Messages, Piece(Head(wire), m, p[m] + 1), m \in composed, p[m] + 1 <= q[m],
         \/ ParseControlFrame(Head(wire), Decrypted(Head(wire)))
         \/ ParseSingleFrame(Head(wire), Decrypted(Head(wire)))
  PROVE  ParserInv'
<1>. DEFINE f == Head(wire)
            d == Decrypted(f)
            k == p[m] + 1
<1>1. /\ p \in [Messages -> Nat] /\ p[m] \in Nat /\ q[m] \in Nat /\ q[m] <= Count(m)
      /\ Count(m) \in Nat \ {0}
  BY CountType DEF Flow, Sending, Transit, Counting
<1>2. d.data = f.data /\ d.left = bioIn /\ d.status \in Statuses
  BY PieceDecrypted, StatusType DEF Types
<1>3. Describes(m, f)
  BY PieceKinds
<1>4. f.type \in {"control", "single"}
  BY DEF ParseControlFrame, ParseSingleFrame
<1>5. Count(m) = 1
  BY <1>4, PieceKinds DEF Leads, Follows
<1>6. /\ k = Count(m) /\ f.type = (IF Kind[m] = "control" THEN "control" ELSE "single")
      /\ f.data = Bytes(m, 1, Length(m))
  BY <1>1, <1>5, PieceKinds DEF Alone
<1>7. f.size \in Nat /\ f.size >= Length(m) /\ f.data \in Seq(Byte)
  <2>1. Length(m) \in Nat /\ Len(f.data) = Length(m) /\ f.data \in Seq(Byte)
    BY <1>6, LengthType, Beginning
  <2>. QED
    BY <1>3, <2>1 DEF Describes
<1>. HIDE DEF d
<1>8. Says(m, k)
  <2>1. CASE ParseControlFrame(f, d)
    <3>. DEFINE e == Report(f, d.status, d.data)
    <3>1. Kind[m] # "rpc"
      BY <1>6, <2>1 DEF ParseControlFrame
    <3>2. e \in Entry /\ e.key = KeyOf(m)
      BY <1>2, <1>3, <1>7, ReportType
    <3>3. Gives(e, m)
      BY <1>2, <1>3, <1>6, <3>1, ReportGives
    <3>. HIDE DEF e
    <3>4. Speaks(m, k, e)
      BY <1>6, <3>2, <3>3 DEF Speaks
    <3>. QED
      BY <2>1, <3>4 DEF ParseControlFrame, Consume, Says, e
  <2>2. CASE ParseSingleFrame(f, d)
    <3>1. f.type # "control"
      BY <2>2 DEF ParseSingleFrame
    <3>2. Speaks(m, k, Result(f, d.status, d.data, f.size))
      BY <1>2, <1>3, <1>6, <1>7, <3>1, ResultSpeaks
    <3>. QED
      BY <2>2, <3>2 DEF ParseSingleFrame, Consume, Says
  <2>. QED
    BY <2>1, <2>2 DEF d
<1>9. KeptOf(m, k, frames[KeyOf(m)], secure)
  <2>1. KeptOf(m, p[m], frames[KeyOf(m)], secure)
    BY DEF Flow, Collecting, Kept
  <2>2. frames[KeyOf(m)] = None
    BY <1>5, <2>1 DEF KeptOf
  <2>. QED
    BY <1>1, <1>5, <1>6, <2>2 DEF KeptOf
<1>10. Kept([p EXCEPT ![m] = p[m] + 1], frames, totalSize, secure)
  BY <1>1, <1>9, KeptSame DEF Flow, Collecting
<1>11. Consume(f, bioIn) /\ pc' = pc /\ frames' = frames /\ totalSize' = totalSize
  BY <1>2 DEF ParseControlFrame, ParseSingleFrame, d
<1>12. Kept([p EXCEPT ![m] = p[m] + 1], frames', totalSize', secure)
  BY <1>10, <1>11
<1>. QED
  BY <1>8, <1>11, <1>12, Turn

LEMMA ParseFirstStep ==
  ASSUME Fits, Types, Arrived, NEW p, NEW q, NEW n, NEW c, Flow(p, q, n, c), wire # <<>>,
         NEW m \in Messages, Piece(Head(wire), m, p[m] + 1), m \in composed, p[m] + 1 <= q[m],
         ParseFirstFrame(Head(wire), Decrypted(Head(wire)))
  PROVE  ParserInv'
<1>. DEFINE f == Head(wire)
            d == Decrypted(f)
            k == p[m] + 1
<1>1. /\ p \in [Messages -> Nat] /\ p[m] \in Nat /\ Count(m) \in Nat \ {0}
  BY CountType DEF Flow, Sending, Transit, Counting
<1>2. d.left = bioIn
  BY PieceDecrypted DEF Types
<1>3. f.type = "first" /\ Key(f) = KeyOf(m) /\ f.size \in Nat
  BY PieceKinds DEF ParseFirstFrame, Describes
<1>4. Count(m) # 1 /\ k = 1 /\ f.size > 0
  <2>1. Count(m) # 1
    BY <1>3, PieceKinds DEF Alone
  <2>2. k = 1
    BY <1>3, <2>1, PieceKinds DEF Follows
  <2>. QED
    BY <2>1, <2>2, PieceKinds DEF Leads
<1>5. Says(m, k)
  BY <1>1, <1>4 DEF ParseFirstFrame, Consume, Says
<1>6. <<>> \in Seq(Byte) \cup {None} /\ <<>> # None /\ Len(<<>>) = 0
  <2>1. <<>> \in Seq(Byte)
    OBVIOUS
  <2>. QED
    BY <2>1, NoneIsNoSeq
<1>7. Tallied(<<>>, f.size)
  BY <1>3, <1>4, <1>6 DEF Tallied
<1>8. Bytes(m, 1, (1 - 1) * MaxPayload) = <<>>
  <2>1. (1 - 1) * MaxPayload = 0
    BY SizeAssumption
  <2>2. Bytes(m, 1, 0) \in Seq(Byte) /\ Len(Bytes(m, 1, 0)) = 0
    BY Beginning
  <2>. QED
    BY <2>1, <2>2
<1>9. KeptOf(m, 1, <<>>, secure)
  <2>1. 1 # 0 /\ 1 # Count(m)
    BY <1>4
  <2>. QED
    BY <1>4, <1>6, <1>8, <2>1 DEF KeptOf
<1>10. KeptOf(m, p[m] + 1, <<>>, secure)
  BY <1>4, <1>9
<1>11. Kept([p EXCEPT ![m] = p[m] + 1], [frames EXCEPT ![KeyOf(m)] = <<>>],
            [totalSize EXCEPT ![KeyOf(m)] = f.size], secure)
  BY <1>1, <1>3, <1>6, <1>7, <1>10, KeptStep DEF Flow, Collecting
<1>12. /\ Consume(f, bioIn) /\ pc' = pc
       /\ Kept([p EXCEPT ![m] = p[m] + 1], frames', totalSize', secure)
  BY <1>2, <1>3, <1>11 DEF ParseFirstFrame
<1>. QED
  BY <1>5, <1>12, Turn

(* The data of the frames up to the k-th, put together.                    *)
LEMMA CollectedBytes ==
  ASSUME NEW m \in Messages, Count(m) # 1, NEW k \in 2..Count(m), NEW x \in Nat, k = x + 1
  PROVE  LET b == Bytes(m, 1, (x - 1) * MaxPayload)
             d == Bytes(m, From(m, k), To(m, k))
         IN /\ b \o d = Bytes(m, 1, To(m, k)) /\ b \in Seq(Byte) /\ d \in Seq(Byte)
            /\ To(m, k) \in Nat
            /\ Len(b \o d) = To(m, k) /\ Len(b) + Len(d) = To(m, k)
            /\ k = Count(m) => To(m, k) = Length(m)
            /\ k # Count(m) => To(m, k) = x * MaxPayload
<1>. DEFINE b == Bytes(m, 1, (x - 1) * MaxPayload)
            d == Bytes(m, From(m, k), To(m, k))
            B == (x - 1) * MaxPayload
            T == To(m, k)
<1>1. Length(m) > MaxPayload /\ Count(m) \in Nat /\ MaxPayload \in Nat /\ Length(m) \in Nat
  BY CountType, LengthType, SizeAssumption
<1>2. k \in 2..Count(m)
  OBVIOUS
<1>3. /\ From(m, k) \in Nat \ {0} /\ T \in Nat /\ From(m, k) <= T /\ T <= Length(m)
      /\ To(m, Count(m)) = Length(m)
      /\ k < Count(m) => T = (k - 1) * MaxPayload
  BY <1>1, <1>2, Extent
<1>4. From(m, k) = B + 1 /\ B \in Nat /\ k - 1 = x
  <2>1. k - 2 = x - 1 /\ x - 1 \in Nat /\ k - 1 = x
    BY <1>1, <1>2
  <2>2. From(m, k) = B + 1
    BY <2>1 DEF From
  <2>3. B \in Nat
    BY <1>1, <2>1
  <2>. QED
    BY <2>1, <2>2, <2>3
<1>. HIDE DEF b, d, B, T
<1>5. b = Bytes(m, 1, B) /\ d = Bytes(m, B + 1, T) /\ B <= T
  BY <1>3, <1>4 DEF b, d, B, T
<1>6. b \o d = Bytes(m, 1, T)
  BY <1>3, <1>4, <1>5, JoinBytes
<1>7. b \in Seq(Byte) /\ Len(b) = B
  BY <1>4, <1>5, Beginning
<1>8. d \in Seq(Byte) /\ Len(d) = T - B
  <2>. DEFINE a == B + 1
  <2>1. a \in Nat \ {0} /\ T >= a - 1 /\ T - a + 1 = T - B
    BY <1>3, <1>4, <1>5
  <2>. HIDE DEF a
  <2>2. Bytes(m, a, T) \in Seq(Byte) /\ Len(Bytes(m, a, T)) = T - a + 1
    BY <1>3, <2>1, BytesType
  <2>. QED
    BY <1>5, <2>1, <2>2 DEF a
<1>9. Len(Bytes(m, 1, T)) = T
  BY <1>3, Beginning
<1>10. Len(b) + Len(d) = T
  BY <1>3, <1>4, <1>7, <1>8
<1>11. k = Count(m) => T = Length(m)
  BY <1>3 DEF T
<1>12. k # Count(m) => T = x * MaxPayload
  <2>1. k # Count(m) => k < Count(m)
    BY <1>1, <1>2
  <2>. QED
    BY <1>3, <1>4, <2>1
<1>. QED
  BY <1>3, <1>6, <1>7, <1>8, <1>9, <1>10, <1>11, <1>12 DEF b, d, T

LEMMA ParseConsecutiveStep ==
  ASSUME Fits, Types, Arrived, NEW p, NEW q, NEW n, NEW c, Flow(p, q, n, c), wire # <<>>,
         NEW m \in Messages, Piece(Head(wire), m, p[m] + 1), m \in composed, p[m] + 1 <= q[m],
         ParseConsecutiveFrame(Head(wire), Decrypted(Head(wire)))
  PROVE  ParserInv'
<1>. DEFINE f == Head(wire)
            d == Decrypted(f)
            k == p[m] + 1
            K == KeyOf(m)
            b == frames[K]
            t == totalSize[K]
<1>1. /\ p \in [Messages -> Nat] /\ p[m] \in Nat /\ q[m] \in Nat /\ q[m] <= Count(m)
      /\ Count(m) \in Nat \ {0}
  BY CountType DEF Flow, Sending, Transit, Counting
<1>2. d.data = f.data /\ d.left = bioIn /\ (d.status = "ERROR" <=> Fails(f)) /\ d.status \in Statuses
  BY PieceDecrypted, StatusType DEF Types
<1>3. Describes(m, f) /\ f.type = "consecutive"
  BY PieceKinds DEF ParseConsecutiveFrame
<1>4. Count(m) # 1 /\ k # 1
  <2>1. Count(m) # 1
    BY <1>3, PieceKinds DEF Alone
  <2>. QED
    BY <1>3, <2>1, PieceKinds DEF Leads
<1>5. Follows(m, k, f) /\ k \in 2..Count(m)
  BY <1>4, PieceKinds
<1>6. Key(f) = K /\ f.size \in Nat /\ f.size >= Len(f.data) /\ f.session = Session[m] /\ K \in Keys
  BY <1>3, KeyIsKey DEF Describes
<1>. HIDE DEF d, K
<1>7. ~Failing(m, secure)
  <2>1. d.status # "ERROR" /\ d.data # <<>>
    BY DEF ParseConsecutiveFrame, d
  <2>. QED
    BY <1>2, <1>5, <1>6, <2>1 DEF Failing, Fails, Follows
<1>8. Kept(p, frames, totalSize, secure)
  BY DEF Flow, Collecting
<1>9. KeptOf(m, p[m], b, secure) /\ Tallied(b, t) /\ t \in Nat
  BY <1>6, <1>8 DEF Kept, K
<1>10. 0 < p[m] /\ p[m] < Count(m)
  BY <1>1, <1>4
<1>11. b # None /\ b = Bytes(m, 1, (p[m] - 1) * MaxPayload)
  BY <1>7, <1>9, <1>10 DEF KeptOf
<1>12. f.data = Bytes(m, From(m, k), To(m, k)) /\ (f.info = 0 <=> k = Count(m))
  BY <1>5 DEF Follows
<1>. DEFINE T == To(m, k)
            a == b \o f.data
<1>13. /\ a = Bytes(m, 1, T) /\ b \in Seq(Byte) /\ f.data \in Seq(Byte) /\ T \in Nat
       /\ Len(a) = T /\ Len(b) + Len(f.data) = T
       /\ k = Count(m) => T = Length(m)
       /\ k # Count(m) => T = p[m] * MaxPayload
  <2>. DEFINE u == Bytes(m, 1, (p[m] - 1) * MaxPayload)
              v == Bytes(m, From(m, k), To(m, k))
  <2>1. /\ u \o v = Bytes(m, 1, T) /\ u \in Seq(Byte) /\ v \in Seq(Byte) /\ T \in Nat
        /\ Len(u \o v) = T /\ Len(u) + Len(v) = T
        /\ k = Count(m) => T = Length(m)
        /\ k # Count(m) => T = p[m] * MaxPayload
    BY <1>1, <1>4, <1>5, CollectedBytes
  <2>2. b = u /\ f.data = v
    BY <1>11, <1>12
  <2>. HIDE DEF u, v, T, b
  <2>. QED
    BY <2>1, <2>2
<1>14. a \in Seq(Byte)
  <2>. HIDE DEF b
  <2>. QED
    BY <1>13
<1>. HIDE DEF b, t, T, a
<1>15. t + f.size \in Nat /\ t + f.size >= T /\ t + f.size # 0
  <2>1. t # 0 /\ t >= Len(b)
    BY <1>9, <1>11 DEF Tallied
  <2>2. Len(b) \in Nat /\ Len(f.data) \in Nat
    BY <1>13
  <2>. QED
    BY <1>6, <1>9, <1>13, <2>1, <2>2
<1>16. Collected(f, d) = a /\ pc' = pc /\ Consume(f, bioIn)
  BY <1>2, <1>6, <1>11 DEF ParseConsecutiveFrame, Collected, a, b, d
<1>17. CASE f.info # 0
  <2>1. k # Count(m) /\ k < Count(m)
    BY <1>1, <1>5, <1>12, <1>17
  <2>2. /\ frames' = [frames EXCEPT ![K] = a]
        /\ totalSize' = [totalSize EXCEPT ![K] = t + f.size] /\ res' = res
    BY <1>6, <1>16, <1>17 DEF ParseConsecutiveFrame, t, d
  <2>3. Says(m, k)
    BY <2>1, <2>2 DEF Says, ParseConsecutiveFrame, Consume
  <2>4. a # None
    BY <1>14, NoneIsNoSeq
  <2>5. Tallied(a, t + f.size)
    BY <1>13, <1>15, <2>4 DEF Tallied
  <2>6. KeptOf(m, p[m] + 1, a, secure)
    <3>1. (p[m] + 1) - 1 = p[m] /\ p[m] + 1 # 0 /\ p[m] + 1 # Count(m)
      BY <1>1, <2>1
    <3>2. a = Bytes(m, 1, ((p[m] + 1) - 1) * MaxPayload)
      BY <1>13, <2>1, <3>1
    <3>. QED
      BY <1>4, <2>4, <3>1, <3>2 DEF KeptOf
  <2>. DEFINE y == t + f.size
  <2>7. y \in Nat /\ Tallied(a, y) /\ a \in Seq(Byte) \cup {None}
    BY <1>14, <1>15, <2>5
  <2>8. totalSize' = [totalSize EXCEPT ![KeyOf(m)] = y] /\ frames' = [frames EXCEPT ![KeyOf(m)] = a]
    BY <2>2 DEF K
  <2>. HIDE DEF y
  <2>9. Kept([p EXCEPT ![m] = p[m] + 1], frames', totalSize', secure)
    BY <1>1, <1>8, <2>6, <2>7, <2>8, KeptStep
  <2>. QED
    BY <1>16, <2>3, <2>9, Turn
<1>18. CASE f.info = 0
  <2>1. k = Count(m)
    BY <1>12, <1>18
  <2>2. /\ frames' = [frames EXCEPT ![K] = None]
        /\ totalSize' = [totalSize EXCEPT ![K] = 0]
        /\ res' = Append(res, Result(f, d.status, a, t + f.size))
    BY <1>6, <1>16, <1>18 DEF ParseConsecutiveFrame, t, d
  <2>3. a = Bytes(m, 1, Length(m)) /\ t + f.size >= Length(m) /\ f.type # "control"
    BY <1>3, <1>13, <1>15, <2>1
  <2>4. Speaks(m, Count(m), Result(f, d.status, a, t + f.size))
    BY <1>2, <1>3, <1>15, <2>3, ResultSpeaks
  <2>5. Says(m, k)
    BY <2>1, <2>2, <2>4 DEF Says, ParseConsecutiveFrame, Consume
  <2>6. KeptOf(m, p[m] + 1, None, secure)
    <3>1. ~(p[m] + 1 < Count(m))
      BY <1>1, <2>1
    <3>. QED
      BY <3>1 DEF KeptOf
  <2>7. Tallied(None, 0) /\ None \in Seq(Byte) \cup {None} /\ 0 \in Nat
    BY DEF Tallied
  <2>8. Kept([p EXCEPT ![m] = p[m] + 1], [frames EXCEPT ![KeyOf(m)] = None],
             [totalSize EXCEPT ![KeyOf(m)] = 0], secure)
    BY <1>1, <1>8, <2>6, <2>7, KeptStep
  <2>9. Kept([p EXCEPT ![m] = p[m] + 1], frames', totalSize', secure)
    BY <2>2, <2>8 DEF K
  <2>. QED
    BY <1>16, <2>5, <2>9, Turn
<1>. QED
  BY <1>17, <1>18

LEMMA StepParseFrame ==
  ASSUME Fits, ParserInv, ParseFrame
  PROVE  ParserInv'
<1>1. Types /\ Arrived /\ wire # <<>> /\ wire \in Seq(Pieces)
  BY DEF ParserInv, Types, ParseFrame
<1>2. PICK p, q, n, c : Flow(p, q, n, c)
  BY DEF ParserInv
<1>3. Transit(p, q, wire, composed)
  BY <1>2 DEF Flow, Sending
<1>4. PICK m \in Messages : /\ Piece(Head(wire), m, p[m] + 1) /\ m \in composed
                            /\ p[m] \in Nat /\ p[m] + 1 <= q[m] /\ q[m] \in Nat
  BY <1>1, <1>3, HeadIsNext
<1>5. CASE ParseUndecrypted(Head(wire), Decrypted(Head(wire)))
  BY <1>1, <1>2, <1>4, <1>5, ParseUndecryptedStep
<1>6. CASE \/ ParseControlFrame(Head(wire), Decrypted(Head(wire)))
           \/ ParseSingleFrame(Head(wire), Decrypted(Head(wire)))
  BY <1>1, <1>2, <1>4, <1>6, ParseWholeStep
<1>7. CASE ParseFirstFrame(Head(wire), Decrypted(Head(wire)))
  BY <1>1, <1>2, <1>4, <1>7, ParseFirstStep
<1>8. CASE ParseConsecutiveFrame(Head(wire), Decrypted(Head(wire)))
  BY <1>1, <1>2, <1>4, <1>8, ParseConsecutiveStep
<1>. QED
  BY <1>5, <1>6, <1>7, <1>8 DEF ParseFrame

LEMMA InvStep ==
  ASSUME Fits, ParserInv, [Next]_vars
  PROVE  ParserInv'
<1>1. ASSUME NEW m \in Messages, Compose(m) PROVE ParserInv'
  BY <1>1, StepCompose
<1>2. ASSUME NEW m \in Messages, Transmit(m) PROVE ParserInv'
  BY <1>2, StepTransmit
<1>3. ASSUME NEW s \in Sessions, Unregister(s) PROVE ParserInv'
  BY <1>3, StepUnregister
<1>4. CASE Arrive
  BY <1>4, StepArrive
<1>5. CASE ParseFrame
  BY <1>5, StepParseFrame
<1>6. CASE EndParse
  BY <1>6, StepEndParse
<1>7. CASE UNCHANGED vars
  <2>1. Types' /\ Arrived'
    BY <1>7 DEF ParserInv, Types, NothingInBio, Arrived, vars
  <2>2. Parsed' = Parsed
    BY <1>7 DEF vars, Parsed
  <2>. QED
    BY <1>7, <2>1, <2>2, QuietStep DEF vars
<1>. QED
  BY <1>1, <1>2, <1>3, <1>4, <1>5, <1>6, <1>7 DEF Next

-----------------------------------------------------------------------------
(* What the invariant says                                                 *)

LEMMA InvTypeOK == ParserInv => TypeOK
<1>. SUFFICES ASSUME ParserInv PROVE TypeOK
  OBVIOUS
<1>1. PICK g : Measured(g, wire, buffer)
  BY DEF ParserInv, Arrived
<1>2. WireBytes = g[Len(wire)] /\ Len(wire) \in Nat
  BY <1>1, StreamIsSum DEF WireBytes, ParserInv, Types, Measured
<1>3. buffer \in 0..WireBytes
  BY <1>1, <1>2 DEF Measured
<1>4. PICK p, q, n, c : Flow(p, q, n, c)
  BY DEF ParserInv
<1>5. \A k \in Keys : totalSize[k] \in Nat /\ (frames[k] = None <=> totalSize[k] = 0)
  BY <1>4 DEF Flow, Collecting, Kept, Tallied
<1>. QED
  BY <1>3, <1>5 DEF ParserInv, Types, TypeOK

LEMMA InvIntact == ParserInv => Intact
<1>. SUFFICES ASSUME ParserInv PROVE Intact
  OBVIOUS
<1>1. PICK p, q, n, c : Flow(p, q, n, c)
  BY DEF ParserInv
<1>2. Returned(p, Parsed, composed)
  BY <1>1 DEF Flow, Returning
<1>. QED
  BY <1>2 DEF Intact, Returned, Gives

LEMMA InvAllDelivered == ParserInv => AllDelivered
<1>. SUFFICES ASSUME ParserInv, pc = "loop", wire = <<>>,
                     NEW m \in composed, queue[m] = <<>>
              PROVE  /\ \E i \in 1..Len(handed) : handed[i].key = Content(m).key
                     /\ Session[m] \in secure =>
                           frames[Content(m).key] = None /\ bioIn[Session[m]] = <<>>
  BY DEF AllDelivered
<1>1. PICK p, q, n, c : Flow(p, q, n, c)
  BY DEF ParserInv
<1>2. m \in Messages /\ Content(m).key = KeyOf(m) /\ Session[m] \in Sessions
  BY ContentType DEF ParserInv, Types, Sessions
<1>3. /\ p[m] \in Nat /\ q[m] \in Nat /\ p[m] <= q[m] /\ Count(m) \in Nat
  BY <1>1, <1>2, CountType DEF Flow, Sending, Transit, Counting
<1>4. q[m] = Count(m)
  <2>1. Len(queue[m]) = Count(m) - q[m] /\ Len(<<>>) = 0
    BY <1>1, <1>2 DEF Flow, Sending, Waiting
  <2>. QED
    BY <1>3, <2>1
<1>5. p[m] = Count(m)
  <2>1. SUFFICES ASSUME p[m] # Count(m) PROVE FALSE
    OBVIOUS
  <2>2. Count(m) \in (p[m] + 1)..q[m]
    BY <1>3, <1>4, <2>1
  <2>3. \E i \in 1..Len(<<>>) : <<>>[i] = Composed(m)[Count(m)]
    BY <1>1, <1>2, <2>2 DEF Flow, Sending, Transit, Complete
  <2>. QED
    BY <2>3
<1>6. Parsed = handed
  <2>1. handed \in Seq(Entry) /\ res = <<>>
    BY DEF ParserInv, Types
  <2>. QED
    BY <2>1, ConcatEmptySeq DEF Parsed
<1>7. \E i \in 1..Len(handed) : handed[i].key = KeyOf(m)
  BY <1>1, <1>2, <1>5, <1>6 DEF Flow, Returning, Returned
<1>8. Session[m] \in secure => frames[KeyOf(m)] = None
  BY <1>1, <1>2, <1>5 DEF Flow, Collecting, Kept, KeptOf, Failing
<1>9. bioIn[Session[m]] = <<>>
  BY <1>2 DEF ParserInv, Types, NothingInBio
<1>. QED
  BY <1>2, <1>7, <1>8, <1>9

(* For every set of messages, every size of frames and every interleaving: *)
(* Parse keeps its bookkeeping, returns each message once and byte for     *)
(* byte, never fails in Lua and holds nothing back, also when sessions lose*)
(* their security on the way, as long as an encrypted frame fits one TLS   *)
(* record.                                                                 *)
THEOREM ParserSoundCorrect == ASSUME Fits PROVE Spec => []ParserSound
<1>1. Init => ParserInv
  BY InvInit
<1>2. ParserInv /\ [Next]_vars => ParserInv'
  BY InvStep
<1>3. ParserInv => ParserSound
  <2>1. ParserInv => NoLuaError
    BY DEF ParserInv, Types, NoLuaError
  <2>. QED
    BY <2>1, InvTypeOK, InvIntact, InvAllDelivered DEF ParserSound
<1>. QED
  BY <1>1, <1>2, <1>3, PTL DEF Spec

-----------------------------------------------------------------------------
(* Parse implements the message channel                                    *)

(* What of a result Content tells.                                         *)
Strip(r) == [key |-> r.key, json |-> r.json, bin |-> r.bin]
Got == [i \in 1..Cardinality(Clean) |-> Strip(Parsed[i])]

LEMMA CleanCount ==
  ASSUME NEW n, NEW c, Parsed \in Seq(Entry), InOrder(Parsed, completed, n, c)
  PROVE  c \in Nat /\ Cardinality(Clean) = c
<1>1. Len(Parsed) \in Nat /\ c \in 0..Len(Parsed)
  BY DEF InOrder
<1>2. Clean = 1..c
  <2>1. ASSUME NEW i \in 1..c PROVE i \in Clean
    <3>1. i \in 1..Len(Parsed) /\ \A j \in 1..i : j \in 1..c
      BY <1>1
    <3>. QED
      BY <3>1 DEF Clean, InOrder
  <2>2. ASSUME NEW i \in Clean PROVE i \in 1..c
    <3>1. i \in 1..Len(Parsed) /\ \A j \in 1..i : Parsed[j].status # "ERROR"
      BY DEF Clean
    <3>2. SUFFICES ASSUME c < i PROVE FALSE
      BY <1>1, <3>1
    <3>3. c + 1 \in 1..i /\ c < Len(Parsed)
      BY <1>1, <3>1, <3>2
    <3>. QED
      BY <3>1, <3>3 DEF InOrder
  <2>. QED
    BY <2>1, <2>2
<1>3. Cardinality(1..c) = IF 1 > c THEN 0 ELSE c - 1 + 1
  BY <1>1, FS_Interval
<1>. QED
  BY <1>1, <1>2, <1>3

(* Until the first error Parse has returned the messages that were sent.   *)
LEMMA GotIsSent ==
  ASSUME ParserInv
  PROVE  /\ completed \in Seq(Contents) /\ Got \in Seq(Contents)
         /\ Len(Got) <= Len(completed)
         /\ \A i \in 1..Len(Got) : Got[i] = completed[i]
<1>1. PICK p, q, n, c : Flow(p, q, n, c)
  BY DEF ParserInv
<1>2. /\ completed \in Seq(Contents) /\ n \in 0..Len(completed)
      /\ InOrder(Parsed, completed, n, c) /\ Parsed \in Seq(Entry)
  BY <1>1 DEF Flow, Ordering, Listed, Leading, Returning, Returned
<1>3. c \in Nat /\ Cardinality(Clean) = c
  BY <1>2, CleanCount
<1>4. c <= Len(completed) /\ Len(completed) \in Nat
  BY <1>2, <1>3 DEF InOrder
<1>5. ASSUME NEW i \in 1..c PROVE Strip(Parsed[i]) = completed[i] /\ completed[i] \in Contents
  <2>1. Matches(Parsed[i], completed[i])
    BY <1>2 DEF InOrder
  <2>2. i \in 1..Len(completed)
    BY <1>3, <1>4
  <2>3. completed[i] \in Contents
    BY <1>2, <2>2
  <2>4. PICK m \in Messages : completed[i] = Content(m)
    BY <2>3 DEF Contents
  <2>5. Content(m) = [key |-> Content(m).key, json |-> Content(m).json, bin |-> Content(m).bin]
    BY DEF Content
  <2>. QED
    BY <2>1, <2>3, <2>4, <2>5 DEF Matches, Strip
<1>6. Got = [i \in 1..c |-> Strip(Parsed[i])]
  BY <1>3 DEF Got
<1>7. Got = [i \in 1..c |-> completed[i]]
  BY <1>5, <1>6
<1>8. Got \in Seq(Contents) /\ Len(Got) = c /\ \A i \in 1..c : Got[i] = completed[i]
  BY <1>3, <1>5, <1>7
<1>. QED
  BY <1>2, <1>4, <1>8

LEMMA CompletedGrows ==
  ASSUME ParserInv, ParserInv', [Next]_vars
  PROVE  /\ Len(completed) <= Len(completed')
         /\ \A i \in 1..Len(completed) : completed[i] = completed'[i]
<1>1. completed \in Seq(Contents)
  BY GotIsSent
<1>2. CASE completed' = completed
  BY <1>1, <1>2
<1>3. ASSUME NEW m \in Messages, completed' = Append(completed, Content(m))
      PROVE  /\ Len(completed) <= Len(completed')
             /\ \A i \in 1..Len(completed) : completed[i] = completed'[i]
  <2>1. Content(m) \in Contents
    BY DEF Contents
  <2>2. /\ Len(Append(completed, Content(m))) = Len(completed) + 1 /\ Len(completed) \in Nat
        /\ \A i \in 1..Len(completed) : Append(completed, Content(m))[i] = completed[i]
    BY <1>1, <2>1, AppendProperties
  <2>. QED
    BY <1>3, <2>2
<1>4. completed' = completed \/ \E m \in Messages : completed' = Append(completed, Content(m))
  <2>1. ASSUME NEW m \in Messages, Compose(m) PROVE completed' = completed
    BY <2>1 DEF Compose
  <2>2. ASSUME NEW m \in Messages, Transmit(m)
        PROVE  completed' = completed \/ completed' = Append(completed, Content(m))
    BY <2>2 DEF Transmit
  <2>3. ASSUME NEW s \in Sessions, Unregister(s) PROVE completed' = completed
    BY <2>3 DEF Unregister
  <2>4. CASE Arrive
    BY <2>4 DEF Arrive, Read
  <2>5. CASE ParseFrame
    BY <2>5 DEF ParseFrame, ParseUndecrypted, ParseControlFrame, ParseSingleFrame,
                ParseFirstFrame, ParseConsecutiveFrame, Consume
  <2>6. CASE EndParse
    BY <2>6 DEF EndParse
  <2>7. CASE UNCHANGED vars
    BY <2>7 DEF vars
  <2>. QED
    BY <2>1, <2>2, <2>3, <2>4, <2>5, <2>6, <2>7 DEF Next
<1>. QED
  BY <1>2, <1>3, <1>4

LEMMA ParsedOnlyGrows ==
  ASSUME ParserInv, ParserInv', [Next]_vars
  PROVE  /\ Len(Parsed) <= Len(Parsed')
         /\ \A i \in 1..Len(Parsed) : Parsed[i] = Parsed'[i]
<1>1. Types /\ Types' /\ Parsed \in Seq(Entry)
  BY DEF ParserInv, Types, Parsed
<1>2. CASE Parsed' = Parsed
  BY <1>1, <1>2
<1>3. ASSUME NEW e, res' = Append(res, e), handed' = handed
      PROVE  /\ Len(Parsed) <= Len(Parsed')
             /\ \A i \in 1..Len(Parsed) : Parsed[i] = Parsed'[i]
  <2>. DEFINE S == Entry \cup {e}
  <2>1. res \in Seq(S) /\ e \in S /\ Append(res, e) \in Seq(Entry)
    BY <1>1, <1>3 DEF Types
  <2>. HIDE DEF S
  <2>2. Len(Append(res, e)) = Len(res) + 1 /\ Append(res, e)[Len(res) + 1] = e /\ Len(res) \in Nat
    BY <2>1, AppendProperties
  <2>3. e \in Entry
    BY <2>1, <2>2
  <2>4. Parsed' = Append(Parsed, e)
    BY <1>1, <1>3, <2>3, ParsedGrows
  <2>5. /\ Len(Append(Parsed, e)) = Len(Parsed) + 1 /\ Len(Parsed) \in Nat
        /\ \A i \in 1..Len(Parsed) : Append(Parsed, e)[i] = Parsed[i]
    BY <1>1, <2>3, AppendProperties
  <2>. QED
    BY <2>4, <2>5
<1>4. Parsed' = Parsed \/ \E e : res' = Append(res, e) /\ handed' = handed
  <2>0. UNCHANGED <<res, handed>> => Parsed' = Parsed
    BY DEF Parsed
  <2>1. ASSUME NEW m \in Messages, Compose(m) PROVE UNCHANGED <<res, handed>>
    BY <2>1 DEF Compose, parser
  <2>2. ASSUME NEW m \in Messages, Transmit(m) PROVE UNCHANGED <<res, handed>>
    BY <2>2 DEF Transmit, parser
  <2>3. ASSUME NEW s \in Sessions, Unregister(s) PROVE UNCHANGED <<res, handed>>
    BY <2>3 DEF Unregister, parser
  <2>4. CASE Arrive
    BY <2>0, <2>4 DEF Arrive, Read
  <2>5. CASE ParseFrame
    <3>1. handed' = handed
      BY <2>5 DEF ParseFrame, ParseUndecrypted, ParseControlFrame, ParseSingleFrame,
                  ParseFirstFrame, ParseConsecutiveFrame, Consume
    <3>2. res' = res \/ \E e : res' = Append(res, e)
      BY <2>5 DEF ParseFrame, ParseUndecrypted, ParseControlFrame, ParseSingleFrame,
                  ParseFirstFrame, ParseConsecutiveFrame
    <3>. QED
      BY <2>0, <3>1, <3>2
  <2>6. CASE EndParse
    BY <1>1, <2>6, ParsedHanded DEF EndParse
  <2>7. CASE UNCHANGED vars
    BY <2>0, <2>7 DEF vars
  <2>. QED
    BY <2>0, <2>1, <2>2, <2>3, <2>4, <2>5, <2>6, <2>7 DEF Next
<1>. QED
  BY <1>2, <1>3, <1>4

(* What is got ends at the first error.                                    *)
UpToError ==
  /\ Parsed \in Seq(Entry) /\ Len(Got) \in 0..Len(Parsed)
  /\ \A i \in 1..Len(Got) : Parsed[i].status # "ERROR"
  /\ Len(Got) < Len(Parsed) => Parsed[Len(Got) + 1].status = "ERROR"

LEMMA GotUpToError == ParserInv => UpToError
<1>. SUFFICES ASSUME ParserInv PROVE UpToError
  OBVIOUS
<1>1. PICK p, q, n, c : Flow(p, q, n, c)
  BY DEF ParserInv
<1>2. InOrder(Parsed, completed, n, c) /\ Parsed \in Seq(Entry)
  BY <1>1 DEF Flow, Ordering, Returning, Returned
<1>3. c \in Nat /\ Cardinality(Clean) = c
  BY <1>2, CleanCount
<1>4. Len(Got) = c
  <2>1. Got = [i \in 1..c |-> Strip(Parsed[i])]
    BY <1>3 DEF Got
  <2>2. Len([i \in 1..c |-> Strip(Parsed[i])]) = c
    BY <1>3
  <2>. QED
    BY <2>1, <2>2
<1>. QED
  BY <1>2, <1>4 DEF InOrder, UpToError

LEMMA GotGrows ==
  ASSUME ParserInv, ParserInv', [Next]_vars
  PROVE  /\ Got' \in Seq(Contents) /\ completed' \in Seq(Contents)
         /\ Len(Got) <= Len(Got') /\ Len(Got') <= Len(completed')
         /\ \A i \in 1..Len(Got) : Got[i] = Got'[i]
         /\ \A i \in 1..Len(Got') : Got'[i] = completed'[i]
<1>1. /\ completed \in Seq(Contents) /\ Got \in Seq(Contents)
      /\ Len(Got) <= Len(completed)
      /\ \A i \in 1..Len(Got) : Got[i] = completed[i]
  BY GotIsSent
<1>2. (ParserInv => /\ completed \in Seq(Contents) /\ Got \in Seq(Contents)
                    /\ Len(Got) <= Len(completed)
                    /\ \A i \in 1..Len(Got) : Got[i] = completed[i])'
  BY GotIsSent, PTL
<1>3. /\ completed' \in Seq(Contents) /\ Got' \in Seq(Contents)
      /\ Len(Got') <= Len(completed')
      /\ \A i \in 1..Len(Got') : Got'[i] = completed'[i]
  BY <1>2
<1>4. UpToError /\ UpToError'
  BY GotUpToError, PTL
<1>5. /\ Len(Parsed) <= Len(Parsed') /\ \A i \in 1..Len(Parsed) : Parsed[i] = Parsed'[i]
  BY ParsedOnlyGrows
<1>6. /\ Len(completed) <= Len(completed')
      /\ \A i \in 1..Len(completed) : completed[i] = completed'[i]
  BY CompletedGrows
<1>7. Len(Got) <= Len(Got')
  <2>. DEFINE a == Len(Got)
              b == Len(Got')
              x == Len(Parsed)
              y == Len(Parsed')
  <2>1. /\ a \in Nat /\ b \in Nat /\ x \in Nat /\ y \in Nat /\ x <= y /\ a <= x
        /\ \A i \in 1..a : Parsed[i].status # "ERROR"
        /\ b < y => Parsed'[b + 1].status = "ERROR"
    BY <1>4, <1>5 DEF UpToError
  <2>. HIDE DEF a, b, y
  <2>2. SUFFICES ASSUME b < a PROVE FALSE
    BY <2>1 DEF a, b
  <2>3. b + 1 \in 1..a /\ b + 1 \in 1..x /\ b < y
    BY <2>1, <2>2
  <2>. QED
    BY <1>5, <2>1, <2>3
<1>8. \A i \in 1..Len(Got) : Got[i] = Got'[i]
  <2>. SUFFICES ASSUME NEW i \in 1..Len(Got) PROVE Got[i] = Got'[i]
    OBVIOUS
  <2>1. i \in 1..Len(completed) /\ i \in 1..Len(Got')
    BY <1>1, <1>3, <1>7
  <2>. QED
    BY <1>1, <1>3, <1>6, <2>1
<1>. QED
  BY <1>3, <1>7, <1>8

LEMMA PrefixIntro ==
  ASSUME NEW S, NEW s \in Seq(S), NEW t \in Seq(S), Len(s) <= Len(t),
         \A i \in 1..Len(s) : s[i] = t[i]
  PROVE  Channel!IsPrefix(s, t)
<1>1. Len(SubSeq(s, 1, Len(s))) = Len(s) /\ Len(SubSeq(t, 1, Len(s))) = Len(s)
  OBVIOUS
<1>2. \A i \in 1..Len(s) : SubSeq(s, 1, Len(s))[i] = SubSeq(t, 1, Len(s))[i]
  OBVIOUS
<1>3. SubSeq(s, 1, Len(s)) = SubSeq(t, 1, Len(s))
  BY <1>1, <1>2
<1>. QED
  BY <1>3 DEF Channel!IsPrefix

(* Parse implements the message channel, for every set of messages and     *)
(* every interleaving of their frames: up to the first frame that cannot be*)
(* decrypted the messages come out whole, once each and in the order in    *)
(* which they were completed on the wire.                                  *)
THEOREM ParserIsChannel == ASSUME Fits PROVE Spec => Reassembled
<1>1. Init => Channel!Init
  <2>. SUFFICES ASSUME Init PROVE Channel!Init
    OBVIOUS
  <2>1. completed = <<>> /\ Got \in Seq(Contents) /\ Len(Got) <= Len(completed)
    BY InvInit, GotIsSent DEF Init
  <2>2. Got = <<>>
    BY <2>1
  <2>. QED
    BY <2>1, <2>2 DEF Channel!Init, Got, Strip
<1>2. Init => ParserInv
  BY InvInit
<1>3. ParserInv /\ [Next]_vars => ParserInv'
  BY InvStep
<1>4. ASSUME ParserInv, [Next]_vars PROVE Channel!Transfer
  <2>1. ParserInv'
    BY <1>3, <1>4
  <2>2. /\ Got' \in Seq(Contents) /\ completed' \in Seq(Contents)
        /\ Len(Got) <= Len(Got') /\ Len(Got') <= Len(completed')
        /\ \A i \in 1..Len(Got) : Got[i] = Got'[i]
        /\ \A i \in 1..Len(Got') : Got'[i] = completed'[i]
    BY <1>4, <2>1, GotGrows
  <2>3. /\ Got \in Seq(Contents) /\ completed \in Seq(Contents)
        /\ Len(completed) <= Len(completed')
        /\ \A i \in 1..Len(completed) : completed[i] = completed'[i]
    BY <1>4, <2>1, GotIsSent, CompletedGrows
  <2>4. Channel!IsPrefix(completed, completed')
    BY <2>2, <2>3, PrefixIntro
  <2>5. Channel!IsPrefix(Got, Got')
    BY <2>2, <2>3, PrefixIntro
  <2>6. Channel!IsPrefix(Got', completed')
    BY <2>2, PrefixIntro
  <2>. QED
    BY <2>4, <2>5, <2>6 DEF Channel!Transfer, Got, Strip
<1>. QED
  BY <1>1, <1>2, <1>3, <1>4, PTL DEF Spec, Reassembled, Channel!Spec
=============================================================================
