----------------------- MODULE MessageDispatcherProofs -----------------------
(***************************************************************************)
(* Proofs about MessageDispatcher, for any number of streams, any sizes    *)
(* and any Capacity.                                                       *)
(*                                                                         *)
(* The invariant says how the three ways a frame can be out of its file    *)
(* (sent, kept, not yet read) add up: sent[g] is exactly the part of       *)
(* file[g] that was read and is not kept.  Mapping adds which streams are  *)
(* served, for StopStreaming.                                              *)
(***************************************************************************)
EXTENDS MessageDispatcher, TLAPS

Prefixed(g) ==
  /\ keep[g] => pos[g] > 0
  /\ Len(sent[g]) = IF keep[g] THEN pos[g] - 1 ELSE pos[g]
  /\ \A i \in 1..Len(sent[g]) : sent[g][i] = file[g][i]

Inv ==
  /\ TypeOK
  /\ RoomKept
  /\ closes = 0 => open
  /\ \A g \in Generators : Prefixed(g)

-----------------------------------------------------------------------------
(* Turns of the round robin name generators.                               *)
LEMMA TurnInRange ==
  ASSUME TypeOK, NEW G \in Seq(Generators), NEW i \in 1..Len(G)
  PROVE  Turn(G, i) \in 1..Len(G) /\ G[Turn(G, i)] \in Generators
<1>. DEFINE first == IF idx < Len(G) THEN idx + 1 ELSE 1
            k == first + i - 2
<1>1. first \in Nat /\ first >= 1 /\ Len(G) \in Nat /\ Len(G) > 0 /\ i \in Nat /\ i >= 1
  BY DEF TypeOK
<1>2. k \in Int
  BY <1>1
<1>3. k % Len(G) \in 0..(Len(G) - 1)
  BY <1>1, <1>2
<1>4. Turn(G, i) = (k % Len(G)) + 1
  BY DEF Turn
<1>5. Turn(G, i) \in 1..Len(G)
  BY <1>1, <1>3, <1>4
<1>. QED
  BY <1>5

(* The initial state.                                                      *)
LEMMA InitHolds == Init => Inv
<1>. SUFFICES ASSUME Init PROVE Inv
  OBVIOUS
<1>1. /\ file \in [Generators -> Seq(Nat)]
      /\ sent \in [Generators -> Seq(Nat)]
      /\ pos \in [Generators -> Nat]
      /\ keep \in [Generators -> BOOLEAN]
      /\ limited \in [Generators -> BOOLEAN]
  BY DEF Init
<1>2. /\ generators \in Seq(Generators)
      /\ mapped \in [FileNames -> Streams \cup {Nil}]
  BY DEF Init, Generators
<1>3. \A g \in Generators : pos[g] <= Len(file[g]) /\ Prefixed(g)
  BY DEF Init, Prefixed
<1>4. RoomKept /\ idx \in Nat /\ bufferSize \in Nat /\ inflight \in Nat /\ closes \in Nat
  BY SizeAssumption DEF Init, RoomKept
<1>5. timer \in BOOLEAN /\ open \in BOOLEAN
  BY Zenon DEF Init
<1>6. TypeOK
  BY <1>1, <1>2, <1>3, <1>4, <1>5, Zenon DEF TypeOK
<1>. QED
  BY <1>3, <1>4, <1>6 DEF Inv, Init

(* F is file with more frames at the end of some of its files.             *)
Longer(F) ==
  /\ F \in [Generators -> Seq(Nat)]
  /\ \A g \in Generators :
       /\ Len(file[g]) <= Len(F[g])
       /\ \A i \in 1..Len(file[g]) : F[g][i] = file[g][i]

(* What a run of the loop of bytesWritten on files F leaves: the types, and*)
(* for every generator the account of its frames.                          *)
Accounted(F) ==
  /\ pos' \in [Generators -> Nat]
  /\ keep' \in [Generators -> BOOLEAN]
  /\ limited' \in [Generators -> BOOLEAN]
  /\ idx' \in Nat
  /\ timer' \in BOOLEAN
  /\ sent' \in [Generators -> Seq(Nat)]
  /\ \A g \in Generators :
       /\ pos'[g] <= Len(F[g])
       /\ keep'[g] => pos'[g] > 0
       /\ Len(sent'[g]) = IF keep'[g] THEN pos'[g] - 1 ELSE pos'[g]
       /\ \A i \in 1..Len(sent'[g]) : sent'[g][i] = F[g][i]
       /\ Len(sent[g]) <= Len(sent'[g])
       /\ \A i \in 1..Len(sent[g]) : sent'[g][i] = sent[g][i]

(* The room and the bytes in the socket after a run of the loop that began *)
(* with credit and pend.                                                   *)
Charged(credit, pend) ==
  /\ bufferSize' \in Nat
  /\ inflight' \in Nat
  /\ bufferSize' + inflight' <= credit + pend
  /\ open => bufferSize' + inflight' = credit + pend

(* The generators that are asked leave well typed variables.               *)
LEMMA AskedTypes ==
  ASSUME Inv, NEW F, Longer(F), NEW G \in Seq(Generators),
         NEW n \in 0..Len(G), NEW kept \in [Generators -> BOOLEAN],
         NEW running \in BOOLEAN, Asked(F, G, n, kept, running)
  PROVE  /\ pos' \in [Generators -> Nat]
         /\ keep' \in [Generators -> BOOLEAN]
         /\ limited' \in [Generators -> BOOLEAN]
         /\ idx' \in Nat
         /\ timer' \in BOOLEAN
<1>1. pos' \in [Generators -> Nat]
  <2>1. \A g \in Generators : pos[g] \in Nat /\ Frame(g) \in Nat
    BY DEF Inv, TypeOK, Frame
  <2>2. PICK taken : pos' = [g \in Generators |-> IF g \in taken THEN Frame(g) ELSE pos[g]]
    BY Zenon DEF Asked
  <2>. QED
    BY <2>1, <2>2
<1>2. keep' \in [Generators -> BOOLEAN]
  BY DEF Asked, Inv, TypeOK
<1>3. limited' \in [Generators -> BOOLEAN]
  BY DEF Asked, Inv, TypeOK
<1>4. idx' \in Nat
  <2>1. CASE n = 0
    BY <2>1 DEF Asked, Inv, TypeOK
  <2>2. CASE n # 0
    <3>1. n \in 1..Len(G)
      BY <2>2
    <3>2. Turn(G, n) \in 1..Len(G)
      BY <3>1, TurnInRange DEF Inv
    <3>. QED
      BY <2>2, <3>2 DEF Asked
  <2>. QED
    BY <2>1, <2>2
<1>5. timer' \in BOOLEAN
  BY DEF Asked
<1>. QED
  BY <1>1, <1>2, <1>3, <1>4, <1>5

(* A frame that is offered is the one after the frames that were sent.     *)
LEMMA OfferedNext ==
  ASSUME Inv, NEW F, Longer(F), NEW g \in Generators, Offers(F, g)
  PROVE  /\ Frame(g) \in Nat
         /\ Frame(g) = Len(sent[g]) + 1
         /\ Frame(g) <= Len(F[g])
         /\ F[g][Frame(g)] \in Nat
<1>1. keep[g] \in BOOLEAN /\ pos[g] \in Nat /\ sent[g] \in Seq(Nat) /\ F[g] \in Seq(Nat)
  BY DEF Inv, TypeOK, Longer
<1>2. Frame(g) \in Nat /\ Frame(g) = Len(sent[g]) + 1
  BY <1>1 DEF Inv, Prefixed, Frame
<1>3. Frame(g) <= Len(F[g])
  BY DEF Offers
<1>4. Frame(g) \in 1..Len(F[g])
  BY <1>1, <1>2, <1>3
<1>. QED
  BY <1>1, <1>2, <1>3, <1>4

(* One run of the loop of bytesWritten, the lemma the operations rest on.  *)
LEMMA PumpEffect ==
  ASSUME Inv, NEW F, Longer(F), NEW G \in Seq(Generators), NEW credit \in Nat,
         NEW pend \in Nat, NEW running \in BOOLEAN,
         Pump(F, G, credit, pend, running)
  PROVE  Accounted(F) /\ Charged(credit, pend)
<1>0. /\ \A g \in Generators : /\ F[g] \in Seq(Nat)
                               /\ sent[g] \in Seq(Nat)
                               /\ pos[g] \in Nat
                               /\ keep[g] \in BOOLEAN
                               /\ pos[g] <= Len(F[g])
                               /\ Prefixed(g)
                               /\ \A i \in 1..Len(sent[g]) : sent[g][i] = F[g][i]
      /\ sent \in [Generators -> Seq(Nat)]
  <2>1. /\ sent \in [Generators -> Seq(Nat)]
        /\ file \in [Generators -> Seq(Nat)]
        /\ F \in [Generators -> Seq(Nat)]
    BY DEF Inv, TypeOK, Longer
  <2>2. ASSUME NEW g \in Generators
        PROVE  /\ pos[g] \in Nat
               /\ keep[g] \in BOOLEAN
               /\ pos[g] <= Len(file[g])
               /\ Len(file[g]) <= Len(F[g])
               /\ Prefixed(g)
    BY DEF Inv, TypeOK, Longer
  <2>3. ASSUME NEW g \in Generators, NEW i \in 1..Len(sent[g])
        PROVE  sent[g][i] = F[g][i]
    <3>1. Len(sent[g]) <= Len(file[g])
      <4>1. pos[g] \in Nat /\ pos[g] <= Len(file[g]) /\ Len(file[g]) \in Nat
        BY <2>1, <2>2
      <4>2. Len(sent[g]) = pos[g] - 1 \/ Len(sent[g]) = pos[g]
        BY <2>2 DEF Prefixed
      <4>. QED
        BY <4>1, <4>2
    <3>2. i \in 1..Len(file[g])
      BY <2>1, <3>1
    <3>. QED
      BY <2>2, <3>2 DEF Prefixed, Longer
  <2>4. ASSUME NEW g \in Generators PROVE pos[g] <= Len(F[g])
    BY <2>1, <2>2
  <2>. QED
    BY <2>1, <2>2, <2>3, <2>4
<1>1. ASSUME NEW i \in 1..Len(G), NEW g, g = G[Turn(G, i)],
             Fits(F, g, credit),
             Asked(F, G, i, [x \in Generators |-> x # g], running),
             ToSocket(g, F[g][Frame(g)], credit),
             inflight' = IF open THEN pend + F[g][Frame(g)] ELSE pend
      PROVE  Accounted(F) /\ Charged(credit, pend)
  <2>. DEFINE size == F[g][Frame(g)]
  <2>1. g \in Generators
    BY <1>1, TurnInRange DEF Inv
  <2>2. Offers(F, g) /\ size <= credit
    BY <1>1 DEF Fits
  <2>3. /\ Frame(g) \in Nat
        /\ Frame(g) = Len(sent[g]) + 1
        /\ Frame(g) <= Len(F[g])
        /\ size \in Nat
    BY <2>1, <2>2, OfferedNext
  <2>4. Charged(credit, pend)
    <3>1. bufferSize' = credit - size /\ inflight' = IF open THEN pend + size ELSE pend
      BY <1>1 DEF ToSocket
    <3>. HIDE DEF size
    <3>2. CASE open
      BY <3>1, <3>2, <2>2, <2>3 DEF Charged
    <3>3. CASE ~open
      BY <3>1, <3>3, <2>2, <2>3 DEF Charged
    <3>. QED
      BY <3>2, <3>3
  <2>5. sent' = [sent EXCEPT ![g] = Append(sent[g], size)]
    BY <1>1, <2>1, <1>0 DEF ToSocket
  <2>6. sent' \in [Generators -> Seq(Nat)]
    BY <2>1, <2>3, <2>5, <1>0
  <2>. DEFINE left == [x \in Generators |-> x # g]
  <2>7. i \in 0..Len(G) /\ left \in [Generators -> BOOLEAN] /\ Asked(F, G, i, left, running)
    BY <1>1
  <2>8. /\ pos' \in [Generators -> Nat]
        /\ keep' \in [Generators -> BOOLEAN]
        /\ limited' \in [Generators -> BOOLEAN]
        /\ idx' \in Nat
        /\ timer' \in BOOLEAN
    <3>. HIDE DEF left
    <3>. QED
      BY <2>7, AskedTypes
  <2>9. PICK taken :
          /\ \A x \in taken : Offers(F, x)
          /\ g \in taken
          /\ pos' = [x \in Generators |-> IF x \in taken THEN Frame(x) ELSE pos[x]]
          /\ keep' = [x \in Generators |-> IF x \in taken THEN x # g ELSE keep[x]]
    <3>. DEFINE asked == {G[Turn(G, k)] : k \in 1..i}
                taken == {x \in asked : Offers(F, x)}
                kept  == [x \in Generators |-> x # g]
    <3>1. g \in taken
      BY <1>1, <2>2
    <3>2. pos' = [x \in Generators |-> IF x \in taken THEN Frame(x) ELSE pos[x]]
      BY <1>1 DEF Asked
    <3>3. keep' = [x \in Generators |-> IF x \in taken THEN kept[x] ELSE keep[x]]
      BY <1>1 DEF Asked
    <3>4. keep' = [x \in Generators |-> IF x \in taken THEN x # g ELSE keep[x]]
      BY <3>3
    <3>5. \A x \in taken : Offers(F, x)
      OBVIOUS
    <3>. QED
      BY <3>1, <3>2, <3>4, <3>5
  <2>10. ASSUME NEW x \in Generators
         PROVE  /\ pos'[x] <= Len(F[x])
                /\ keep'[x] => pos'[x] > 0
                /\ Len(sent'[x]) = IF keep'[x] THEN pos'[x] - 1 ELSE pos'[x]
                /\ \A k \in 1..Len(sent'[x]) : sent'[x][k] = F[x][k]
                /\ Len(sent[x]) <= Len(sent'[x])
                /\ \A k \in 1..Len(sent[x]) : sent'[x][k] = sent[x][k]
    <3>1. CASE x = g
      <4>1. pos'[x] = Frame(x) /\ ~keep'[x] /\ sent'[x] = Append(sent[x], size)
        BY <3>1, <2>1, <2>5, <2>9, <1>0
      <4>2. /\ F[x] \in Seq(Nat) /\ sent[x] \in Seq(Nat) /\ size = F[x][Len(sent[x]) + 1]
            /\ pos'[x] = Len(sent[x]) + 1 /\ Len(sent[x]) + 1 <= Len(F[x])
        BY <4>1, <3>1, <2>3, <1>0
      <4>. HIDE DEF size
      <4>3. /\ Len(sent'[x]) = Len(sent[x]) + 1
            /\ \A k \in 1..Len(sent[x]) : sent'[x][k] = sent[x][k]
            /\ sent'[x][Len(sent[x]) + 1] = size
        BY <4>1, <4>2, <2>3, SMTT(30)
      <4>4. \A k \in 1..Len(sent'[x]) : sent'[x][k] = F[x][k]
        <5>1. ASSUME NEW k \in 1..Len(sent'[x]) PROVE sent'[x][k] = F[x][k]
          <6>1. k \in 1..Len(sent[x]) \/ k = Len(sent[x]) + 1
            BY <4>2, <4>3
          <6>. QED
            BY <6>1, <4>2, <4>3, <1>0
        <5>. QED
          BY <5>1
      <4>5. Len(sent[x]) \in Nat
        BY <4>2
      <4>6. /\ pos'[x] <= Len(F[x])
            /\ Len(sent'[x]) = pos'[x]
            /\ Len(sent[x]) <= Len(sent'[x])
        BY <4>2, <4>3, <4>5
      <4>. QED
        BY <4>1, <4>3, <4>4, <4>6, Zenon
    <3>2. CASE x # g /\ x \in taken
      <4>1. pos'[x] = Frame(x) /\ keep'[x] /\ sent'[x] = sent[x]
        BY <3>2, <2>1, <2>5, <2>9, <1>0
      <4>2. Frame(x) \in Nat /\ Frame(x) = Len(sent[x]) + 1 /\ Frame(x) <= Len(F[x])
        BY <3>2, <2>9, OfferedNext
      <4>. QED
        BY <4>1, <4>2, <1>0
    <3>3. CASE x # g /\ x \notin taken
      <4>1. pos'[x] = pos[x] /\ keep'[x] = keep[x] /\ sent'[x] = sent[x]
        BY <3>3, <2>1, <2>5, <2>9, <1>0
      <4>. QED
        BY <4>1, <1>0 DEF Prefixed
    <3>. QED
      BY <3>1, <3>2, <3>3
  <2>. QED
    BY <2>4, <2>6, <2>8, <2>10 DEF Accounted
<1>2. ASSUME Asked(F, G, Len(G), [x \in Generators |-> TRUE], running),
             bufferSize' = credit, inflight' = pend, sent' = sent
      PROVE  Accounted(F) /\ Charged(credit, pend)
  <2>1. Charged(credit, pend)
    BY <1>2 DEF Charged
  <2>. DEFINE left == [x \in Generators |-> TRUE]
  <2>2. /\ Len(G) \in 0..Len(G)
        /\ left \in [Generators -> BOOLEAN]
        /\ Asked(F, G, Len(G), left, running)
    BY <1>2
  <2>3. /\ pos' \in [Generators -> Nat]
        /\ keep' \in [Generators -> BOOLEAN]
        /\ limited' \in [Generators -> BOOLEAN]
        /\ idx' \in Nat
        /\ timer' \in BOOLEAN
    <3>. HIDE DEF left
    <3>. QED
      BY <2>2, AskedTypes
  <2>4. PICK taken :
          /\ \A x \in taken : Offers(F, x)
          /\ pos' = [x \in Generators |-> IF x \in taken THEN Frame(x) ELSE pos[x]]
          /\ keep' = [x \in Generators |-> IF x \in taken THEN TRUE ELSE keep[x]]
    <3>. DEFINE asked == {G[Turn(G, k)] : k \in 1..Len(G)}
                taken == {x \in asked : Offers(F, x)}
                kept  == [x \in Generators |-> TRUE]
    <3>1. pos' = [x \in Generators |-> IF x \in taken THEN Frame(x) ELSE pos[x]]
      BY <1>2 DEF Asked
    <3>2. keep' = [x \in Generators |-> IF x \in taken THEN kept[x] ELSE keep[x]]
      BY <1>2 DEF Asked
    <3>3. keep' = [x \in Generators |-> IF x \in taken THEN TRUE ELSE keep[x]]
      BY <3>2
    <3>4. \A x \in taken : Offers(F, x)
      OBVIOUS
    <3>. QED
      BY <3>1, <3>3, <3>4
  <2>5. ASSUME NEW x \in Generators
        PROVE  /\ pos'[x] <= Len(F[x])
               /\ keep'[x] => pos'[x] > 0
               /\ Len(sent'[x]) = IF keep'[x] THEN pos'[x] - 1 ELSE pos'[x]
    <3>1. CASE x \in taken
      <4>1. pos'[x] = Frame(x) /\ keep'[x]
        BY <3>1, <2>4
      <4>2. Frame(x) \in Nat /\ Frame(x) = Len(sent[x]) + 1 /\ Frame(x) <= Len(F[x])
        BY <3>1, <2>4, OfferedNext
      <4>. QED
        BY <4>1, <4>2, <1>2, <1>0
    <3>2. CASE x \notin taken
      <4>1. pos'[x] = pos[x] /\ keep'[x] = keep[x]
        BY <3>2, <2>4
      <4>. QED
        BY <4>1, <1>2, <1>0 DEF Prefixed
    <3>. QED
      BY <3>1, <3>2
  <2>6. ASSUME NEW x \in Generators
        PROVE  /\ \A k \in 1..Len(sent'[x]) : sent'[x][k] = F[x][k]
               /\ Len(sent[x]) <= Len(sent'[x])
               /\ \A k \in 1..Len(sent[x]) : sent'[x][k] = sent[x][k]
    BY <1>0, <1>2
  <2>7. sent' \in [Generators -> Seq(Nat)]
    BY <1>0, <1>2
  <2>. QED
    BY <2>1, <2>3, <2>5, <2>6, <2>7 DEF Accounted
<1>. QED
  BY <1>1, <1>2 DEF Pump

-----------------------------------------------------------------------------
(* Every step keeps the invariant                                          *)

(* Room and bytes that do not exceed what was there do not exceed m; fewer *)
(* bytes in the socket make a smaller sum.                                 *)
LEMMA WithinRoom ==
  \A b1, i1, b, i, m \in Nat :
     b1 + i1 <= b + i /\ b + i <= m => b1 + i1 <= m
  OBVIOUS
LEMMA LessInflight ==
  \A b, i1, i \in Nat : i1 <= i => b + i1 <= b + i
  OBVIOUS

(* A step that runs the loop with the room and the bytes it found.         *)
LEMMA PumpStep ==
  ASSUME Inv, Longer(file'), generators' \in Seq(Generators),
         mapped' \in [FileNames -> Streams \cup {Nil}],
         NEW credit \in Nat, NEW pend \in Nat, NEW running \in BOOLEAN,
         credit + pend = bufferSize + inflight,
         Pump(file', generators', credit, pend, running),
         open' = open, closes' = closes
  PROVE  Inv'
<1>1. Accounted(file') /\ Charged(credit, pend)
  <2>. DEFINE F == file'
              G == generators'
  <2>1. Longer(F) /\ G \in Seq(Generators) /\ Pump(F, G, credit, pend, running)
    OBVIOUS
  <2>. HIDE DEF F, G
  <2>2. Accounted(F) /\ Charged(credit, pend)
    BY <2>1, PumpEffect
  <2>. QED
    BY <2>2 DEF F
<1>2. TypeOK'
  <2>1. file' \in [Generators -> Seq(Nat)]
    BY DEF Longer
  <2>2. /\ closes' \in Nat /\ open' \in BOOLEAN
        /\ bufferSize' \in Nat /\ inflight' \in Nat
    BY <1>1 DEF Inv, TypeOK, Charged
  <2>. QED
    BY <1>1, <2>1, <2>2, Zenon DEF Accounted, TypeOK
<1>3. RoomKept'
  <2>1. /\ bufferSize' \in Nat /\ inflight' \in Nat
        /\ bufferSize \in Nat /\ inflight \in Nat /\ Capacity \in Nat
    BY <1>1, SizeAssumption DEF Inv, TypeOK, Charged
  <2>a. /\ bufferSize + inflight <= Capacity
        /\ closes = 0 => bufferSize + inflight = Capacity /\ open
    BY DEF Inv, RoomKept
  <2>b. /\ bufferSize' + inflight' <= credit + pend
        /\ open => bufferSize' + inflight' = credit + pend
    BY <1>1 DEF Charged
  <2>2. bufferSize' + inflight' <= bufferSize + inflight
    BY <2>b, Zenon
  <2>3. bufferSize' + inflight' <= Capacity
    BY <2>1, <2>a, <2>2, WithinRoom, Zenon
  <2>4. closes' = 0 => bufferSize' + inflight' = Capacity
    BY <2>a, <2>b, Zenon
  <2>5. \A n \in Nat : n >= 0
    OBVIOUS
  <2>. QED
    BY <2>1, <2>3, <2>4, <2>5, Zenon DEF RoomKept
<1>4. \A g \in Generators : Prefixed(g)'
  BY <1>1, Zenon DEF Accounted, Prefixed
<1>5. closes' = 0 => open'
  BY DEF Inv
<1>. QED
  BY <1>2, <1>3, <1>4, <1>5 DEF Inv

(* Files only get longer.                                                  *)
LEMMA FilesGrow ==
  ASSUME Inv, [Next]_vars
  PROVE  Longer(file')
<1>. USE DEF Inv, TypeOK
<1>1. ASSUME file' = file PROVE Longer(file')
  BY <1>1 DEF Longer
<1>2. ASSUME NEW frames \in Packs, Send(frames) PROVE Longer(file')
  <2>1. frames \in Seq(Nat)
    <3>1. CASE \E a \in FrameSizes : frames = <<a>>
      BY <3>1, SizeAssumption
    <3>2. CASE \E a, b \in FrameSizes : frames = <<a, b>>
      <4>1. PICK a \in FrameSizes, b \in FrameSizes : frames = <<a, b>>
        BY <3>2
      <4>2. a \in Nat /\ b \in Nat
        BY SizeAssumption
      <4>. QED
        BY <4>1, <4>2
    <3>. QED
      BY <3>1, <3>2, <1>2 DEF Packs
  <2>2. file' = [file EXCEPT ![Storage] = file[Storage] \o frames] /\ Storage \in Generators
    BY <1>2 DEF Send, Generators
  <2>3. file' \in [Generators -> Seq(Nat)]
    <3>1. file[Storage] \o frames \in Seq(Nat)
      BY <2>1, <2>2
    <3>. QED
      BY <2>2, <3>1
  <2>4. ASSUME NEW g \in Generators
        PROVE  /\ Len(file[g]) <= Len(file'[g])
               /\ \A i \in 1..Len(file[g]) : file'[g][i] = file[g][i]
    <3>0. file[g] \in Seq(Nat) /\ Len(file[g]) \in Nat /\ Len(frames) \in Nat
      BY <2>1
    <3>1. CASE g = Storage
      <4>1. file'[g] = file[g] \o frames
        BY <2>2, <3>1
      <4>. QED
        BY <4>1, <3>0, <2>1
    <3>2. CASE g # Storage
      <4>1. file'[g] = file[g]
        BY <2>2, <3>2
      <4>. QED
        BY <4>1, <3>0
    <3>. QED
      BY <3>1, <3>2
  <2>. QED
    BY <2>3, <2>4 DEF Longer
<1>3. ASSUME NEW s \in Streams, StartStreaming(s) PROVE Longer(file')
  <2>1. /\ file' = [file EXCEPT ![s] = Content[s]] /\ file[s] = <<>>
        /\ s \in Generators /\ Content[s] \in Seq(Nat)
    BY <1>3, GeneratorAssumption DEF StartStreaming, Generators
  <2>2. file' \in [Generators -> Seq(Nat)]
    BY <2>1
  <2>3. ASSUME NEW g \in Generators
        PROVE  /\ Len(file[g]) <= Len(file'[g])
               /\ \A i \in 1..Len(file[g]) : file'[g][i] = file[g][i]
    <3>1. CASE g = s
      <4>1. Len(file[g]) = 0 /\ Len(file'[g]) \in Nat
        BY <2>1, <2>2, <3>1
      <4>. QED
        BY <4>1
    <3>2. CASE g # s
      <4>1. file'[g] = file[g] /\ Len(file[g]) \in Nat
        BY <2>1, <3>2
      <4>. QED
        BY <4>1
    <3>. QED
      BY <3>1, <3>2
  <2>. QED
    BY <2>2, <2>3 DEF Longer
<1>4. CASE \E s \in Streams : Elapse(s)
  BY <1>4, <1>1 DEF Elapse
<1>5. CASE \E f \in FileNames : StopStreaming(f)
  BY <1>5, <1>1 DEF StopStreaming
<1>6. CASE \E c \in 1..inflight : BytesWritten(c)
  BY <1>6, <1>1 DEF BytesWritten
<1>7. CASE Timeout
  BY <1>7, <1>1 DEF Timeout
<1>8. CASE Close
  BY <1>8, <1>1 DEF Close, genVars
<1>9. CASE Connect
  BY <1>9, <1>1 DEF Connect, genVars
<1>10. CASE UNCHANGED vars
  BY <1>10, <1>1 DEF vars, genVars
<1>. QED
  BY <1>2, <1>3, <1>4, <1>5, <1>6, <1>7, <1>8, <1>9, <1>10 DEF Next

(* One step.                                                               *)
LEMMA StepHolds ==
  ASSUME Inv, [Next]_vars
  PROVE  Inv'
<1>0. /\ bufferSize \in Nat /\ inflight \in Nat /\ timer \in BOOLEAN
      /\ generators \in Seq(Generators)
      /\ mapped \in [FileNames -> Streams \cup {Nil}]
      /\ Longer(file')
  BY FilesGrow DEF Inv, TypeOK
<1>1. ASSUME NEW frames \in Packs, Send(frames) PROVE Inv'
  <2>1. /\ Pump(file', generators', bufferSize, inflight, timer)
        /\ generators' = generators /\ mapped' = mapped
        /\ open' = open /\ closes' = closes
    BY <1>1 DEF Send
  <2>. QED
    BY <1>0, <2>1, PumpStep, Zenon
<1>2. ASSUME NEW s \in Streams, StartStreaming(s) PROVE Inv'
  <2>1. /\ Pump(file', generators', bufferSize, inflight, timer)
        /\ generators' = Append(generators, s)
        /\ mapped' = [mapped EXCEPT ![FileOf[s]] = s]
        /\ open' = open /\ closes' = closes
    BY <1>2 DEF StartStreaming
  <2>2. s \in Generators /\ FileOf[s] \in FileNames
    BY DEF Generators, FileNames
  <2>3. generators' \in Seq(Generators)
    BY <2>1, <2>2, <1>0
  <2>4. mapped' \in [FileNames -> Streams \cup {Nil}]
    BY <2>1, <2>2, <1>0
  <2>. QED
    BY <1>0, <2>1, <2>3, <2>4, PumpStep, Zenon
<1>3. ASSUME NEW c \in 1..inflight, BytesWritten(c) PROVE Inv'
  <2>1. /\ Pump(file', generators', bufferSize + c, inflight - c, timer)
        /\ generators' = generators /\ mapped' = mapped
        /\ open' = open /\ closes' = closes
    BY <1>3 DEF BytesWritten
  <2>2. /\ bufferSize + c \in Nat /\ inflight - c \in Nat
        /\ (bufferSize + c) + (inflight - c) = bufferSize + inflight
    BY <1>0
  <2>. QED
    BY <1>0, <2>1, <2>2, PumpStep, Zenon
<1>4. ASSUME Timeout PROVE Inv'
  <2>1. /\ Pump(file', generators', bufferSize, inflight, FALSE)
        /\ generators' = generators /\ mapped' = mapped
        /\ open' = open /\ closes' = closes
    BY <1>4 DEF Timeout
  <2>. QED
    BY <1>0, <2>1, PumpStep, Zenon
<1>5. ASSUME NEW s \in Streams, Elapse(s) PROVE Inv'
  <2>1. limited' \in [Generators -> BOOLEAN]
    BY <1>5 DEF Elapse, Inv, TypeOK
  <2>2. UNCHANGED <<file, pos, keep, generators, idx, mapped, bufferSize, timer,
                    inflight, open, closes, sent>>
    BY <1>5 DEF Elapse
  <2>. QED
    BY <2>1, <2>2 DEF Inv, TypeOK, RoomKept, Prefixed
<1>6. ASSUME NEW f \in FileNames, StopStreaming(f) PROVE Inv'
  <2>1. UNCHANGED <<file, pos, keep, limited, idx, bufferSize, timer, inflight,
                    open, closes, sent>>
    BY <1>6 DEF StopStreaming
  <2>2. mapped' \in [FileNames -> Streams \cup {Nil}]
    BY <1>6, <1>0 DEF StopStreaming
  <2>3. generators' \in Seq(Generators)
    <3>1. PICK i \in 1..Len(generators) : generators' = RemoveAt(generators, i)
      BY <1>6 DEF StopStreaming
    <3>2. /\ SubSeq(generators, 1, i - 1) \in Seq(Generators)
          /\ SubSeq(generators, i + 1, Len(generators)) \in Seq(Generators)
      BY <1>0
    <3>. QED
      BY <3>1, <3>2 DEF RemoveAt
  <2>. QED
    BY <2>1, <2>2, <2>3 DEF Inv, TypeOK, RoomKept, Prefixed
<1>7. ASSUME Close PROVE Inv'
  <2>1. /\ UNCHANGED <<genVars, bufferSize, timer, sent>>
        /\ open' = FALSE /\ closes' = closes + 1 /\ inflight' \in 0..inflight
    BY <1>7 DEF Close
  <2>2. closes' \in Nat /\ closes' # 0 /\ inflight' \in Nat /\ inflight' <= inflight
    BY <2>1, <1>0 DEF Inv, TypeOK
  <2>3. bufferSize' = bufferSize /\ bufferSize' + inflight' <= Capacity
    <3>1. bufferSize' = bufferSize /\ bufferSize + inflight <= Capacity
      BY <2>1 DEF Inv, RoomKept
    <3>2. bufferSize + inflight' <= bufferSize + inflight
      BY <2>2, <1>0, LessInflight, Zenon
    <3>3. bufferSize + inflight' <= Capacity
      BY <3>1, <3>2, <2>2, <1>0, SizeAssumption, WithinRoom, Zenon
    <3>. QED
      BY <3>1, <3>3, Zenon
  <2>4. RoomKept'
    BY <2>2, <2>3, <1>0 DEF RoomKept
  <2>5. TypeOK'
    BY <2>1, <2>2, <1>0 DEF Inv, TypeOK, genVars
  <2>6. \A g \in Generators : Prefixed(g)'
    BY <2>1 DEF Inv, Prefixed, genVars
  <2>. QED
    BY <2>2, <2>4, <2>5, <2>6 DEF Inv
<1>8. ASSUME Connect PROVE Inv'
  BY <1>8 DEF Connect, genVars, Inv, TypeOK, RoomKept, Prefixed
<1>9. ASSUME UNCHANGED vars PROVE Inv'
  BY <1>9 DEF vars, genVars, Inv, TypeOK, RoomKept, Prefixed
<1>. QED
  BY <1>1, <1>2, <1>3, <1>4, <1>5, <1>6, <1>7, <1>8, <1>9 DEF Next

(* What went to the socket is never taken back.                            *)
SentOnly ==
  \A g \in Generators :
    /\ Len(sent[g]) <= Len(sent'[g])
    /\ \A i \in 1..Len(sent[g]) : sent'[g][i] = sent[g][i]

LEMMA SentGrows ==
  ASSUME Inv, [Next]_vars
  PROVE  SentOnly
<1>0. /\ bufferSize \in Nat /\ inflight \in Nat /\ timer \in BOOLEAN
      /\ Longer(file')
      /\ generators' \in Seq(Generators)
  BY FilesGrow, StepHolds DEF Inv, TypeOK
<1>1. ASSUME NEW credit \in Nat, NEW pend \in Nat, NEW running \in BOOLEAN,
             Pump(file', generators', credit, pend, running)
      PROVE  SentOnly
  <2>. DEFINE F == file'
              G == generators'
  <2>1. Longer(F) /\ G \in Seq(Generators) /\ Pump(F, G, credit, pend, running)
    BY <1>0, <1>1
  <2>. HIDE DEF F, G
  <2>2. Accounted(F)
    BY <2>1, PumpEffect
  <2>. QED
    BY <2>2, Zenon DEF Accounted, SentOnly
<1>2. ASSUME sent' = sent PROVE SentOnly
  <2>1. \A g \in Generators : Len(sent[g]) \in Nat
    BY DEF Inv, TypeOK
  <2>. QED
    BY <1>2, <2>1 DEF SentOnly
<1>3. CASE \E frames \in Packs : Send(frames)
  <2>1. Pump(file', generators', bufferSize, inflight, timer)
    BY <1>3 DEF Send
  <2>. QED
    BY <1>0, <1>1, <2>1
<1>4. CASE \E s \in Streams : StartStreaming(s)
  <2>1. Pump(file', generators', bufferSize, inflight, timer)
    BY <1>4 DEF StartStreaming
  <2>. QED
    BY <1>0, <1>1, <2>1
<1>5. ASSUME NEW c \in 1..inflight, BytesWritten(c) PROVE SentOnly
  <2>1. Pump(file', generators', bufferSize + c, inflight - c, timer)
    BY <1>5 DEF BytesWritten
  <2>2. bufferSize + c \in Nat /\ inflight - c \in Nat
    BY <1>0
  <2>. QED
    BY <1>0, <1>1, <2>1, <2>2
<1>6. CASE Timeout
  <2>1. Pump(file', generators', bufferSize, inflight, FALSE)
    BY <1>6 DEF Timeout
  <2>. QED
    BY <1>0, <1>1, <2>1
<1>7. CASE \/ \E s \in Streams : Elapse(s)
           \/ \E f \in FileNames : StopStreaming(f)
           \/ Close
           \/ Connect
           \/ UNCHANGED vars
  <2>1. sent' = sent
    BY <1>7 DEF Elapse, StopStreaming, Close, Connect, vars
  <2>. QED
    BY <1>2, <2>1
<1>. QED
  BY <1>3, <1>4, <1>5, <1>6, <1>7 DEF Next

-----------------------------------------------------------------------------
(* The theorems                                                            *)

(* Every behaviour of the dispatcher keeps its types, and no generator     *)
(* reads beyond its file.                                                  *)
THEOREM DispatcherTypes == Spec => []TypeOK
<1>1. Inv => TypeOK
  BY DEF Inv
<1>. QED
  BY InitHolds, StepHolds, <1>1, PTL DEF Spec

(* Flow control for every Capacity, every set of frame sizes and any number*)
(* of streams: bytesWritten never overdraws the room, and loses none of it *)
(* unless the connection is closed.                                        *)
THEOREM RoomAlwaysKept == Spec => []RoomKept
<1>1. Inv => RoomKept
  BY DEF Inv
<1>. QED
  BY InitHolds, StepHolds, <1>1, PTL DEF Spec

(* Sequences that agree where the shorter one is defined.                  *)
LEMMA PrefixIntro ==
  ASSUME NEW s \in Seq(Nat), NEW t \in Seq(Nat), Len(s) <= Len(t),
         \A i \in 1..Len(s) : s[i] = t[i]
  PROVE  Channel!IsPrefix(s, t)
<1>1. Len(SubSeq(s, 1, Len(s))) = Len(s) /\ Len(SubSeq(t, 1, Len(s))) = Len(s)
  OBVIOUS
<1>2. \A i \in 1..Len(s) : SubSeq(s, 1, Len(s))[i] = SubSeq(t, 1, Len(s))[i]
  OBVIOUS
<1>3. SubSeq(s, 1, Len(s)) = SubSeq(t, 1, Len(s))
  BY <1>1, <1>2
<1>. QED
  BY <1>3 DEF Channel!IsPrefix

(* The dispatcher implements the message channel at each of its generators:*)
(* frames that were kept, limited, interleaved with other generators or    *)
(* stopped still reach the socket once each and in the order of their file.*)
THEOREM DispatcherIsChannel == Spec => InOrder
<1>1. Init => Channel!Init
  BY DEF Init, Channel!Init
<1>2. ASSUME Inv, [Next]_vars
      PROVE  [Channel!Transfer]_<<file, sent>>
  <2>1. Inv' /\ SentOnly /\ Longer(file')
    BY <1>2, StepHolds, SentGrows, FilesGrow
  <2>2. ASSUME NEW g \in Generators
        PROVE  /\ Channel!IsPrefix(file[g], file'[g])
               /\ Channel!IsPrefix(sent[g], sent'[g])
               /\ Channel!IsPrefix(sent'[g], file'[g])
    <3>1. /\ file[g] \in Seq(Nat) /\ sent[g] \in Seq(Nat)
          /\ file'[g] \in Seq(Nat) /\ sent'[g] \in Seq(Nat)
      BY <1>2, <2>1 DEF Inv, TypeOK
    <3>2. Channel!IsPrefix(file[g], file'[g])
      <4>1. Len(file[g]) <= Len(file'[g]) /\ \A i \in 1..Len(file[g]) : file[g][i] = file'[g][i]
        BY <2>1 DEF Longer
      <4>. QED
        BY <3>1, <4>1, PrefixIntro
    <3>3. Channel!IsPrefix(sent[g], sent'[g])
      <4>1. Len(sent[g]) <= Len(sent'[g]) /\ \A i \in 1..Len(sent[g]) : sent[g][i] = sent'[g][i]
        BY <2>1 DEF SentOnly
      <4>. QED
        BY <3>1, <4>1, PrefixIntro
    <3>4. Channel!IsPrefix(sent'[g], file'[g])
      <4>1. \A i \in 1..Len(sent'[g]) : sent'[g][i] = file'[g][i]
        BY <2>1 DEF Inv, Prefixed
      <4>2. /\ pos'[g] \in Nat /\ pos'[g] <= Len(file'[g])
            /\ Len(sent'[g]) = pos'[g] - 1 \/ Len(sent'[g]) = pos'[g]
        BY <2>1 DEF Inv, TypeOK, Prefixed
      <4>3. Len(sent'[g]) <= Len(file'[g])
        BY <4>2, <3>1
      <4>. QED
        BY <3>1, <4>1, <4>3, PrefixIntro
    <3>. QED
      BY <3>2, <3>3, <3>4
  <2>. QED
    BY <2>2 DEF Channel!Transfer
<1>. QED
  BY <1>1, <1>2, InitHolds, StepHolds, PTL DEF Spec, InOrder, Channel!Spec


-----------------------------------------------------------------------------
(* Streams that are stopped, when no two streams share a file.  A second   *)
(* StartStreaming of a file takes over its entry of mapped, and the first  *)
(* stream could then not be stopped any more.                              *)
OwnFiles == \A s, t \in Streams : FileOf[s] = FileOf[t] => s = t

(* A stream that is served is the one its file names, has been given its   *)
(* frames, and is served in one place only.                                *)
Served(G, M, F) ==
  \A i \in 1..Len(G) : G[i] \in Streams => M[FileOf[G[i]]] = G[i] /\ F[G[i]] # <<>>
Once(G) == \A i, j \in 1..Len(G) : G[i] = G[j] => i = j

Mapping == Served(generators, mapped, file) /\ Once(generators)

(* The loop sends only what one of its generators returns.                 *)
LEMMA PumpSends ==
  ASSUME TypeOK, NEW F, NEW G \in Seq(Generators), NEW credit, NEW pend, NEW running,
         Pump(F, G, credit, pend, running),
         NEW s \in Streams, sent'[s] # sent[s]
  PROVE  \E i \in 1..Len(G) : G[i] = s
<1>1. PICK i \in 1..Len(G) : ToSocket(G[Turn(G, i)], F[G[Turn(G, i)]][Frame(G[Turn(G, i)])], credit)
  BY DEF Pump
<1>2. Turn(G, i) \in 1..Len(G) /\ G[Turn(G, i)] \in Generators
  BY TurnInRange
<1>3. G[Turn(G, i)] = s
  <2>. DEFINE g == G[Turn(G, i)]
              size == F[g][Frame(g)]
  <2>1. sent' = [sent EXCEPT ![g] = Append(sent[g], size)]
    BY <1>1 DEF ToSocket
  <2>2. s \in Generators
    BY DEF Generators
  <2>. HIDE DEF g, size
  <2>3. s # g => sent'[s] = sent[s]
    BY <2>1, <2>2 DEF TypeOK
  <2>4. g = s
    BY <2>3
  <2>. QED
    BY <2>4 DEF g
<1>. QED
  BY <1>2, <1>3

(* What is left when one generator is taken out.                           *)
LEMMA RemovedAt ==
  ASSUME NEW G \in Seq(Generators), NEW k \in 1..Len(G)
  PROVE  /\ RemoveAt(G, k) \in Seq(Generators)
         /\ Len(RemoveAt(G, k)) = Len(G) - 1
         /\ \A i \in 1..(Len(G) - 1) :
              RemoveAt(G, k)[i] = IF i < k THEN G[i] ELSE G[i + 1]
<1>. DEFINE a == SubSeq(G, 1, k - 1)
            b == SubSeq(G, k + 1, Len(G))
<1>0. k \in Nat /\ k >= 1 /\ k <= Len(G) /\ Len(G) \in Nat
  OBVIOUS
<1>1. /\ a \in Seq(Generators) /\ Len(a) = k - 1
      /\ \A i \in 1..(k - 1) : a[i] = G[i]
  BY <1>0
<1>2. /\ b \in Seq(Generators) /\ Len(b) = Len(G) - k
      /\ \A i \in 1..(Len(G) - k) : b[i] = G[k + i]
  BY <1>0
<1>. HIDE DEF a, b
<1>a. a \o b \in Seq(Generators) /\ Len(a \o b) = Len(a) + Len(b)
  <2>1. a \in Seq(Generators) /\ b \in Seq(Generators)
    BY <1>1, <1>2
  <2>2. a \o b \in Seq(Generators)
    BY <2>1
  <2>3. Len(a \o b) = Len(a) + Len(b)
    BY <2>1
  <2>. QED
    BY <2>2, <2>3
<1>b. \A i \in 1..(Len(a) + Len(b)) : (a \o b)[i] = IF i <= Len(a) THEN a[i] ELSE b[i - Len(a)]
  BY <1>1, <1>2
<1>c. \A i \in 1..(Len(G) - 1) : (a \o b)[i] = IF i <= k - 1 THEN a[i] ELSE b[i - (k - 1)]
  BY <1>0, <1>1, <1>2, <1>b
<1>3. /\ a \o b \in Seq(Generators) /\ Len(a \o b) = Len(G) - 1
      /\ \A i \in 1..(Len(G) - 1) : (a \o b)[i] = IF i < k THEN a[i] ELSE b[i - (k - 1)]
  BY <1>0, <1>1, <1>2, <1>a, <1>c
<1>4. ASSUME NEW i \in 1..(Len(G) - 1)
      PROVE  (a \o b)[i] = IF i < k THEN G[i] ELSE G[i + 1]
  <2>1. CASE i < k
    BY <1>0, <1>1, <1>3, <2>1
  <2>2. CASE ~(i < k)
    <3>1. i - (k - 1) \in 1..(Len(G) - k) /\ k + (i - (k - 1)) = i + 1
      BY <1>0, <2>2
    <3>. QED
      BY <1>2, <1>3, <2>2, <3>1
  <2>. QED
    BY <2>1, <2>2
<1>5. RemoveAt(G, k) = a \o b
  BY DEF RemoveAt, a, b
<1>. QED
  BY <1>3, <1>4, <1>5

LEMMA MappingInit == Init => Mapping
<1>. SUFFICES ASSUME Init PROVE Mapping
  OBVIOUS
<1>1. Len(generators) = 1 /\ generators[1] = Storage
  BY DEF Init
<1>. QED
  BY <1>1, GeneratorAssumption DEF Mapping, Served, Once

LEMMA MappingStart ==
  ASSUME OwnFiles, Inv, Mapping, NEW s \in Streams, StartStreaming(s)
  PROVE  Mapping'
<1>0. /\ generators \in Seq(Generators) /\ Len(generators) \in Nat
      /\ s \in Generators /\ FileOf[s] \in FileNames
  BY DEF Inv, TypeOK, Generators, FileNames
<1>1. /\ file[s] = <<>> /\ file' = [file EXCEPT ![s] = Content[s]]
      /\ generators' = Append(generators, s)
      /\ mapped' = [mapped EXCEPT ![FileOf[s]] = s]
  BY DEF StartStreaming
<1>2. /\ Len(generators') = Len(generators) + 1
      /\ generators'[Len(generators) + 1] = s
      /\ \A i \in 1..Len(generators) : generators'[i] = generators[i]
  BY <1>0, <1>1
<1>3. \A i \in 1..Len(generators) : generators[i] # s
  BY <1>1 DEF Mapping, Served
<1>4. mapped'[FileOf[s]] = s /\ file'[s] # <<>>
  BY <1>0, <1>1, GeneratorAssumption DEF Inv, TypeOK
<1>5. ASSUME NEW i \in 1..Len(generators), generators[i] \in Streams
      PROVE  mapped'[FileOf[generators[i]]] = generators[i] /\ file'[generators[i]] # <<>>
  <2>1. /\ mapped[FileOf[generators[i]]] = generators[i] /\ file[generators[i]] # <<>>
        /\ generators[i] # s
    BY <1>3, <1>5 DEF Mapping, Served
  <2>2. FileOf[generators[i]] # FileOf[s] /\ FileOf[generators[i]] \in FileNames
    BY <1>5, <2>1 DEF OwnFiles, FileNames
  <2>3. mapped'[FileOf[generators[i]]] = mapped[FileOf[generators[i]]]
    BY <1>1, <2>2 DEF Inv, TypeOK
  <2>4. file'[generators[i]] = file[generators[i]]
    BY <1>1, <1>5, <2>1 DEF Inv, TypeOK, Generators
  <2>. QED
    BY <2>1, <2>3, <2>4
<1>6. ASSUME NEW i \in 1..Len(generators') PROVE i \in 1..Len(generators) \/ i = Len(generators) + 1
  BY <1>0, <1>2
<1>7. Served(generators', mapped', file')
  BY <1>2, <1>4, <1>5, <1>6 DEF Served
<1>8. Once(generators')
  BY <1>2, <1>3, <1>6 DEF Once, Mapping
<1>. QED
  BY <1>7, <1>8 DEF Mapping

LEMMA MappingStop ==
  ASSUME Inv, Mapping, NEW f \in FileNames, StopStreaming(f)
  PROVE  Mapping'
<1>0. generators \in Seq(Generators) /\ Len(generators) \in Nat
  BY DEF Inv, TypeOK
<1>1. PICK k \in 1..Len(generators) :
        generators[k] = mapped[f] /\ generators' = RemoveAt(generators, k)
  BY DEF StopStreaming
<1>2. file' = file /\ mapped' = [mapped EXCEPT ![f] = Nil]
  BY DEF StopStreaming
<1>3. /\ Len(generators') = Len(generators) - 1
      /\ \A i \in 1..(Len(generators) - 1) :
           generators'[i] = IF i < k THEN generators[i] ELSE generators[i + 1]
  BY <1>0, <1>1, RemovedAt
<1>. DEFINE Old(i) == IF i < k THEN i ELSE i + 1
<1>4. ASSUME NEW i \in 1..Len(generators')
      PROVE  Old(i) \in 1..Len(generators) /\ Old(i) # k /\ generators'[i] = generators[Old(i)]
  BY <1>0, <1>3
<1>5. ASSUME NEW i \in 1..Len(generators'), NEW j \in 1..Len(generators'), Old(i) = Old(j)
      PROVE  i = j
  BY <1>0, <1>3, <1>5
<1>. HIDE DEF Old
<1>6. Once(generators')
  BY <1>4, <1>5 DEF Mapping, Once
<1>7. ASSUME NEW i \in 1..Len(generators'), generators'[i] \in Streams
      PROVE  mapped'[FileOf[generators'[i]]] = generators'[i] /\ file'[generators'[i]] # <<>>
  <2>1. PICK n \in 1..Len(generators) : n # k /\ generators'[i] = generators[n]
    BY <1>4
  <2>2. /\ mapped[FileOf[generators[n]]] = generators[n] /\ file[generators[n]] # <<>>
        /\ generators[n] # generators[k]
    BY <1>7, <2>1 DEF Mapping, Served, Once
  <2>3. FileOf[generators[n]] # f /\ FileOf[generators[n]] \in FileNames
    BY <1>1, <1>7, <2>1, <2>2 DEF FileNames
  <2>4. mapped'[FileOf[generators[n]]] = mapped[FileOf[generators[n]]]
    BY <1>2, <2>3 DEF Inv, TypeOK
  <2>. QED
    BY <1>2, <2>1, <2>2, <2>4
<1>8. Served(generators', mapped', file')
  BY <1>7 DEF Served
<1>. QED
  BY <1>6, <1>8 DEF Mapping

(* Frames for the storage change nothing about the streams.                *)
LEMMA MappingSend ==
  ASSUME Inv, Mapping, NEW frames \in Packs, Send(frames)
  PROVE  Mapping'
<1>1. /\ file' = [file EXCEPT ![Storage] = @ \o frames]
      /\ generators' = generators /\ mapped' = mapped
  BY DEF Send
<1>2. \A s \in Streams : file'[s] = file[s]
  BY <1>1, GeneratorAssumption DEF Inv, TypeOK, Generators
<1>. QED
  BY <1>1, <1>2 DEF Mapping, Served, Once

LEMMA MappingStep ==
  ASSUME OwnFiles, Inv, Mapping, [Next]_vars
  PROVE  Mapping'
<1>1. ASSUME UNCHANGED <<file, generators, mapped>> PROVE Mapping'
  BY <1>1 DEF Mapping, Served, Once
<1>2. CASE \E frames \in Packs : Send(frames)
  BY <1>2, MappingSend
<1>3. CASE \E s \in Streams : StartStreaming(s)
  BY <1>3, MappingStart
<1>4. CASE \E f \in FileNames : StopStreaming(f)
  BY <1>4, MappingStop
<1>5. CASE \/ \E s \in Streams : Elapse(s)
           \/ \E c \in 1..inflight : BytesWritten(c)
           \/ Timeout \/ Close \/ Connect \/ UNCHANGED vars
  BY <1>1, <1>5 DEF Elapse, BytesWritten, Timeout, Close, Connect, vars, genVars
<1>. QED
  BY <1>2, <1>3, <1>4, <1>5 DEF Next

(* What is sent for a stream is sent by the loop.                          *)
LEMMA OnlyThePumpSends ==
  ASSUME [Next]_vars, sent' # sent
  PROVE  \E F, credit, pend, running : Pump(F, generators', credit, pend, running)
<1>1. CASE \E frames \in Packs : Send(frames)
  BY <1>1, Zenon DEF Send
<1>2. CASE \E s \in Streams : StartStreaming(s)
  <2>1. Pump(file', generators', bufferSize, inflight, timer)
    BY <1>2 DEF StartStreaming
  <2>. QED
    BY <2>1, Zenon
<1>3. CASE \E c \in 1..inflight : BytesWritten(c)
  BY <1>3, Zenon DEF BytesWritten
<1>4. CASE Timeout
  BY <1>4, Zenon DEF Timeout
<1>5. CASE \/ \E s \in Streams : Elapse(s)
           \/ \E f \in FileNames : StopStreaming(f)
           \/ Close \/ Connect \/ UNCHANGED vars
  BY <1>5 DEF Elapse, StopStreaming, Close, Connect, vars
<1>. QED
  BY <1>1, <1>2, <1>3, <1>4, <1>5 DEF Next

(* After StopStreaming of a file nothing of it goes to the socket until it *)
(* is streamed again: not what was kept back, not what the timer asks for, *)
(* in whatever order the streams were started and stopped.                 *)
THEOREM StoppedStaysCorrect ==
  ASSUME OwnFiles
  PROVE  Spec => StoppedStays
<1>1. Init => Inv /\ Mapping
  BY InitHolds, MappingInit
<1>2. Inv /\ Mapping /\ [Next]_vars => (Inv /\ Mapping)'
  BY StepHolds, MappingStep
<1>3. Inv /\ Mapping /\ [Next]_vars =>
        [\A s \in Streams : sent'[s] # sent[s] => mapped'[FileOf[s]] # Nil]_vars
  <2>. SUFFICES ASSUME Inv, Mapping, [Next]_vars, NEW s \in Streams, sent'[s] # sent[s]
                PROVE  mapped'[FileOf[s]] # Nil
    OBVIOUS
  <2>1. Inv' /\ Mapping'
    BY <1>2
  <2>2. PICK F, credit, pend, running : Pump(F, generators', credit, pend, running)
    BY OnlyThePumpSends
  <2>. DEFINE G == generators'
  <2>3. G \in Seq(Generators) /\ TypeOK /\ Pump(F, G, credit, pend, running)
    BY <2>1, <2>2 DEF Inv, TypeOK
  <2>. HIDE DEF G
  <2>4. \E i \in 1..Len(G) : G[i] = s
    BY <2>3, PumpSends
  <2>5. mapped'[FileOf[s]] = s
    BY <2>1, <2>4 DEF Mapping, Served, G
  <2>. QED
    BY <2>5, GeneratorAssumption
<1>. QED
  BY <1>1, <1>2, <1>3, PTL DEF Spec, StoppedStays
=============================================================================
