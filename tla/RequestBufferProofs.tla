------------------------ MODULE RequestBufferProofs ------------------------
(***************************************************************************)
(* Safety of the request buffer for every number of workers, every size of *)
(* the ring and every number of connections, and that the buffer is a      *)
(* channel.                                                                *)
(***************************************************************************)
EXTENDS MCRequestBuffer, SequenceTheorems, TLAPS

LEMMA SizeFacts == Size \in Nat /\ Size > 0 /\ Slots = 0 .. (Size - 1)
BY MaxRequestsAssumption DEF Size, Slots

(* An index is at most one turn of the ring away from its remainder. *)
LEMMA ModFacts ==
    ASSUME NEW x \in Nat
    PROVE  /\ x < Size => x % Size = x
           /\ Size <= x /\ x < 2 * Size => x % Size = x - Size
<1>1. Size \in Nat /\ Size > 0
  BY SizeFacts
<1>. QED
  BY <1>1

(* The number of occupied slots. *)
LEMMA OccupiedFacts ==
    ASSUME in \in Slots, out \in Slots
    PROVE  /\ in >= out => Occupied = in - out
           /\ in < out => Occupied = in - out + Size
           /\ Occupied \in 0 .. (Size - 1)
           /\ Vacant <=> Occupied = 0
<1>1. Size \in Nat /\ in \in Nat /\ out \in Nat /\ in < Size /\ out < Size
  BY SizeFacts
<1>2. in - out + Size \in Nat /\ in - out + Size < 2 * Size
  BY <1>1
<1>3. CASE in >= out
  <2>1. Occupied = in - out
    BY <1>1, <1>2, <1>3, ModFacts DEF Occupied
  <2>. QED
    BY <1>1, <1>3, <2>1 DEF Vacant
<1>4. CASE in < out
  <2>1. Occupied = in - out + Size
    BY <1>1, <1>2, <1>4, ModFacts DEF Occupied
  <2>. QED
    BY <1>1, <1>4, <2>1 DEF Vacant
<1>. QED
  BY <1>1, <1>3, <1>4

(* The i-th slot after out. *)
LEMMA SlotFacts ==
    ASSUME NEW o \in Slots, NEW i \in 0 .. (Size - 1)
    PROVE  /\ o + i < Size => (o + i) % Size = o + i
           /\ o + i >= Size => (o + i) % Size = o + i - Size
           /\ (o + i) % Size \in Slots
<1>1. Size \in Nat /\ Size > 0 /\ o + i \in Nat /\ o + i < 2 * Size /\ Slots = 0 .. (Size - 1)
  BY SizeFacts
<1>2. (o + i < Size => (o + i) % Size = o + i) /\ (o + i >= Size => (o + i) % Size = o + i - Size)
  BY <1>1, ModFacts
<1>. QED
  BY <1>1, <1>2

(* The slot after o. *)
LEMMA NextSlot ==
    ASSUME NEW o \in Slots
    PROVE  /\ o + 1 < Size => (o + 1) % Size = o + 1
           /\ o + 1 >= Size => (o + 1) % Size = 0
           /\ (o + 1) % Size \in Slots
<1>1. Size \in Nat /\ Size > 0 /\ o \in Nat /\ o < Size /\ Slots = 0 .. (Size - 1)
  BY SizeFacts
<1>2. CASE o + 1 < Size
  BY <1>1, <1>2, ModFacts
<1>3. CASE o + 1 >= Size
  BY <1>1, <1>3, ModFacts
<1>. QED
  BY <1>1, <1>2, <1>3

(* Putting one connection into a ring that is not full. *)
LEMMA PutFacts ==
    ASSUME in \in Slots, out \in Slots, ~Full,
           in' = (in + 1) % Size, out' = out
    PROVE  /\ in' \in Slots
           /\ Occupied' = Occupied + 1
           /\ (out + Occupied) % Size = in
           /\ \A i \in 0 .. (Occupied - 1) : (out + i) % Size # in
<1>1. Size \in Nat /\ Size > 0 /\ in \in Nat /\ out \in Nat /\ in < Size /\ out < Size
  BY SizeFacts
<1>2. in' \in Slots /\ out' \in Slots
  BY NextSlot
<1>3. Occupied \in 0 .. (Size - 2) /\ Occupied \in 0 .. (Size - 1)
  BY <1>1, OccupiedFacts, MaxRequestsAssumption DEF Full, Size
<1>4. /\ in' >= out' => Occupied' = in' - out'
      /\ in' < out' => Occupied' = in' - out' + Size
  <2>1. Occupied' = (in' - out' + Size) % Size
    BY DEF Occupied, Size
  <2>2. in' \in Nat /\ out' \in Nat /\ in' < Size /\ out' < Size
    BY <1>1, <1>2, SizeFacts
  <2>3. in' - out' + Size \in Nat /\ in' - out' + Size < 2 * Size
    BY <1>1, <2>2
  <2>4. CASE in' >= out'
    BY <1>1, <2>1, <2>2, <2>3, <2>4, ModFacts
  <2>5. CASE in' < out'
    BY <1>1, <2>1, <2>2, <2>3, <2>5, ModFacts
  <2>. QED
    BY <2>2, <2>4, <2>5
<1>5. Occupied' = Occupied + 1
  <2>1. CASE in + 1 < Size
    BY <1>1, <1>3, <1>4, <2>1, NextSlot, OccupiedFacts
  <2>2. CASE in + 1 >= Size
    BY <1>1, <1>3, <1>4, <2>2, NextSlot, OccupiedFacts
  <2>. QED
    BY <1>1, <2>1, <2>2
<1>6. (out + Occupied) % Size = in
  BY <1>1, <1>3, OccupiedFacts, SlotFacts
<1>7. ASSUME NEW i \in 0 .. (Occupied - 1) PROVE (out + i) % Size # in
  <2>1. i \in 0 .. (Size - 1)
    BY <1>1, <1>3
  <2>. QED
    BY <1>1, <1>3, <2>1, SlotFacts, OccupiedFacts
<1>. QED
  BY <1>2, <1>5, <1>6, <1>7

(* Taking one connection out of a ring that is not empty. *)
LEMMA TakeFacts ==
    ASSUME in \in Slots, out \in Slots, ~Vacant,
           out' = (out + 1) % Size, in' = in
    PROVE  /\ out' \in Slots
           /\ Occupied' = Occupied - 1
           /\ \A i \in 0 .. (Occupied - 2) : (out' + i) % Size = (out + (i + 1)) % Size
<1>1. Size \in Nat /\ Size > 0 /\ in \in Nat /\ out \in Nat /\ in < Size /\ out < Size
  BY SizeFacts
<1>2. in' \in Slots /\ out' \in Slots
  BY NextSlot
<1>3. Occupied \in 1 .. (Size - 1)
  BY <1>1, OccupiedFacts
<1>4. /\ in' >= out' => Occupied' = in' - out'
      /\ in' < out' => Occupied' = in' - out' + Size
  <2>1. Occupied' = (in' - out' + Size) % Size
    BY DEF Occupied, Size
  <2>2. in' \in Nat /\ out' \in Nat /\ in' < Size /\ out' < Size
    BY <1>1, <1>2, SizeFacts
  <2>3. in' - out' + Size \in Nat /\ in' - out' + Size < 2 * Size
    BY <1>1, <2>2
  <2>4. CASE in' >= out'
    BY <1>1, <2>1, <2>2, <2>3, <2>4, ModFacts
  <2>5. CASE in' < out'
    BY <1>1, <2>1, <2>2, <2>3, <2>5, ModFacts
  <2>. QED
    BY <2>2, <2>4, <2>5
<1>5. Occupied' = Occupied - 1
  <2>1. CASE out + 1 < Size
    BY <1>1, <1>3, <1>4, <2>1, NextSlot, OccupiedFacts
  <2>2. CASE out + 1 >= Size
    BY <1>1, <1>3, <1>4, <2>2, NextSlot, OccupiedFacts
  <2>. QED
    BY <1>1, <2>1, <2>2
<1>6. ASSUME NEW i \in 0 .. (Occupied - 2)
      PROVE  (out' + i) % Size = (out + (i + 1)) % Size
  <2>1. i \in 0 .. (Size - 1) /\ i + 1 \in 0 .. (Size - 1) /\ i \in Nat
    BY <1>1, <1>3
  <2>2. CASE out + 1 < Size
    <3>1. out' = out + 1
      BY <1>1, <2>2, NextSlot
    <3>2. out' + i = out + (i + 1)
      BY <1>1, <2>1, <3>1
    <3>. QED
      BY <3>2
  <2>3. CASE out + 1 >= Size
    <3>1. out' = 0 /\ (0 + i) % Size = i
      BY <1>1, <1>2, <2>1, <2>3, NextSlot, ModFacts
    <3>2. (out + (i + 1)) % Size = out + (i + 1) - Size
      BY <1>1, <2>1, <2>3, SlotFacts
    <3>. QED
      BY <1>1, <2>1, <2>3, <3>1, <3>2
  <2>. QED
    BY <1>1, <2>2, <2>3
<1>. QED
  BY <1>2, <1>5, <1>6

-----------------------------------------------------------------------------
(* The properties are inductive together: what a worker takes is right     *)
(* because of RingHoldsPending, and no wakeup is missing because of        *)
(* SomebodyAwake and MainNotForgotten in the state before.                 *)
IInv ==
    /\ TypeOK
    /\ RingHoldsPending
    /\ ServedOnce
    /\ SomebodyAwake
    /\ MainNotForgotten

LEMMA InitIInv == Init => IInv
<1>. SUFFICES ASSUME Init PROVE IInv
  OBVIOUS
<1>1. Size \in Nat /\ Size > 0 /\ 0 \in Slots
  BY SizeFacts
<1>2. TypeOK
  BY <1>1, ConnectionsAssumption DEF Init, TypeOK, Connfds
<1>3. Occupied = 0 /\ Vacant
  BY <1>1, OccupiedFacts DEF Init, Vacant
<1>4. RingHoldsPending /\ ServedOnce
  BY <1>3 DEF Init, RingHoldsPending, ServedOnce, Handed, Taken
<1>5. SomebodyAwake /\ MainNotForgotten
  BY <1>3 DEF Init, SomebodyAwake, MainNotForgotten
<1>. QED
  BY <1>2, <1>4, <1>5 DEF IInv

(* Numbers a step uses. *)
LEMMA Counts ==
    ASSUME TypeOK, RingHoldsPending
    PROVE  /\ Size \in Nat /\ Size > 0 /\ in \in Slots /\ out \in Slots
           /\ Occupied \in 0 .. (Size - 1)
           /\ accepted \in Nat /\ Handed \in Nat /\ Taken \in Nat
           /\ Handed = Taken + Occupied
<1>1. Size \in Nat /\ Size > 0 /\ in \in Slots /\ out \in Slots /\ accepted \in Nat
  BY SizeFacts, ConnectionsAssumption DEF TypeOK, Connfds
<1>2. Occupied \in 0 .. (Size - 1)
  BY <1>1, OccupiedFacts
<1>3. Handed \in Int /\ Occupied <= Handed
  BY <1>1 DEF Handed, RingHoldsPending
<1>. QED
  BY <1>1, <1>2, <1>3 DEF Taken

(* A step that changes neither the ring nor what was handed over. *)
LEMMA RingUnchanged ==
    ASSUME IInv, UNCHANGED <<buf, in, out, serving>>, Handed' = Handed
    PROVE  RingHoldsPending' /\ ServedOnce' /\ Occupied' = Occupied /\ (Vacant' <=> Vacant)
<1>1. Occupied' = Occupied
  BY DEF Occupied, Size
<1>2. Taken' = Taken
  BY <1>1 DEF Taken
<1>3. RingHoldsPending'
  BY <1>1, <1>2 DEF IInv, RingHoldsPending, Size
<1>4. ServedOnce'
  BY <1>2 DEF IInv, ServedOnce
<1>. QED
  BY <1>1, <1>3, <1>4 DEF Vacant

LEMMA StepAccept == IInv /\ accept => IInv'
<1>. SUFFICES ASSUME IInv, accept PROVE IInv'
  OBVIOUS
<1>0. accepted \in Nat
  BY Counts DEF IInv
<1>1. Handed' = Handed
  BY <1>0 DEF accept, Handed
<1>2. TypeOK'
  BY <1>0, ConnectionsAssumption DEF IInv, accept, TypeOK, Connfds, Slots
<1>3. RingHoldsPending' /\ ServedOnce' /\ (Vacant' <=> Vacant)
  BY <1>1, RingUnchanged DEF accept
<1>4. SomebodyAwake' /\ MainNotForgotten'
  BY <1>3 DEF IInv, accept, SomebodyAwake, MainNotForgotten
<1>. QED
  BY <1>2, <1>3, <1>4 DEF IInv

(* server_request when the ring is full. *)
LEMMA StepWait ==
    ASSUME IInv, main = "put", Full, main' = "full",
           UNCHANGED <<buf, in, pc, out, accepted, serving>>
    PROVE  IInv'
<1>1. Handed' = Handed
  BY DEF Handed
<1>2. TypeOK'
  BY DEF IInv, TypeOK, Slots, Connfds
<1>3. RingHoldsPending' /\ ServedOnce' /\ Occupied' = Occupied /\ (Vacant' <=> Vacant)
  BY <1>1, RingUnchanged
<1>4. SomebodyAwake' /\ MainNotForgotten'
  BY <1>3 DEF IInv, SomebodyAwake, MainNotForgotten, Full
<1>. QED
  BY <1>2, <1>3, <1>4 DEF IInv

(* server_request when the ring has room. *)
LEMMA StepPut ==
    ASSUME IInv, main = "put", ~Full,
           buf' = [buf EXCEPT ![in] = accepted],
           IF Vacant THEN SignalEmpty ELSE pc' = pc,
           in' = (in + 1) % Size, main' = "accept",
           UNCHANGED <<out, accepted, serving>>
    PROVE  IInv'
<1>1. /\ Size \in Nat /\ Size > 0 /\ in \in Slots /\ out \in Slots
      /\ Occupied \in 0 .. (Size - 1)
      /\ accepted \in Nat /\ Handed \in Nat /\ Taken \in Nat
      /\ Handed = Taken + Occupied
  BY Counts DEF IInv
<1>2. /\ in' \in Slots /\ Occupied' = Occupied + 1
      /\ (out + Occupied) % Size = in
      /\ \A i \in 0 .. (Occupied - 1) : (out + i) % Size # in
  BY <1>1, PutFacts
<1>3. Handed' = Handed + 1 /\ accepted = Handed + 1 /\ Taken' = Taken
  <2>1. Handed = accepted - 1 /\ Handed' = accepted
    BY DEF Handed
  <2>2. Taken' = Handed' - Occupied'
    BY DEF Taken
  <2>. QED
    BY <1>1, <1>2, <2>1, <2>2
<1>4. TypeOK'
  <2>1. pc' \in [Workers -> {"take", "empty", "serve"}]
    BY DEF IInv, TypeOK, SignalEmpty
  <2>2. buf' \in [Slots -> Connfds]
    BY DEF IInv, TypeOK
  <2>. QED
    BY <1>2, <2>1, <2>2 DEF IInv, TypeOK, Slots, Connfds
<1>5. RingHoldsPending'
  <2>1. Occupied' <= Handed'
    BY <1>1, <1>2, <1>3
  <2>2. ASSUME NEW i \in 0 .. (Occupied' - 1)
        PROVE  buf'[(out + i) % Size] = Taken + i + 1
    <3>1. CASE i = Occupied
      BY <1>1, <1>2, <1>3, <3>1 DEF IInv, TypeOK
    <3>2. CASE i # Occupied
      <4>1. i \in 0 .. (Occupied - 1) /\ i \in 0 .. (Size - 1)
        BY <1>1, <1>2, <3>2
      <4>2. (out + i) % Size \in Slots /\ (out + i) % Size # in
        BY <1>1, <1>2, <4>1, SlotFacts
      <4>3. buf'[(out + i) % Size] = buf[(out + i) % Size]
        BY <4>2 DEF IInv, TypeOK
      <4>. QED
        BY <4>1, <4>3 DEF IInv, RingHoldsPending
    <3>. QED
      BY <3>1, <3>2
  <2>. QED
    BY <1>3, <2>1, <2>2 DEF RingHoldsPending, Size
<1>6. ServedOnce'
  BY <1>3 DEF IInv, ServedOnce
<1>7. SomebodyAwake'
  <2>1. CASE Vacant
    <3>1. CASE \A w \in Workers : pc[w] # "empty"
      BY <2>1, <3>1, WorkersAssumption DEF SignalEmpty, SomebodyAwake
    <3>2. CASE \E w \in Workers : pc[w] = "empty"
      <4>1. PICK w \in Workers : pc' = [pc EXCEPT ![w] = "take"]
        BY <2>1, <3>2 DEF SignalEmpty
      <4>2. pc'[w] = "take"
        BY <4>1 DEF IInv, TypeOK
      <4>. QED
        BY <4>2 DEF SomebodyAwake
    <3>. QED
      BY <3>1, <3>2
  <2>2. CASE ~Vacant
    BY <2>2 DEF IInv, SomebodyAwake
  <2>. QED
    BY <2>1, <2>2
<1>8. MainNotForgotten'
  BY DEF MainNotForgotten
<1>. QED
  BY <1>4, <1>5, <1>6, <1>7, <1>8 DEF IInv

LEMMA StepServerRequest == IInv /\ server_request => IInv'
<1>. SUFFICES ASSUME IInv, server_request PROVE IInv'
  OBVIOUS
<1>1. CASE Full
  BY <1>1, StepWait DEF server_request
<1>2. CASE ~Full
  BY <1>2, StepPut DEF server_request
<1>. QED
  BY <1>1, <1>2

(* thread_init with a connection to take. *)
LEMMA StepTake ==
    ASSUME IInv, NEW w \in Workers, pc[w] = "take", ~Vacant,
           serving' = [serving EXCEPT ![w] = buf[out]],
           main' = IF Full /\ main = "full" THEN "put" ELSE main,
           out' = (out + 1) % Size,
           pc' = [pc EXCEPT ![w] = "serve"],
           UNCHANGED <<buf, in, accepted>>
    PROVE  IInv'
<1>1. /\ Size \in Nat /\ Size > 0 /\ in \in Slots /\ out \in Slots
      /\ Occupied \in 0 .. (Size - 1)
      /\ accepted \in Nat /\ Handed \in Nat /\ Taken \in Nat
      /\ Handed = Taken + Occupied
  BY Counts DEF IInv
<1>2. /\ out' \in Slots /\ Occupied' = Occupied - 1
      /\ \A i \in 0 .. (Occupied - 2) : (out' + i) % Size = (out + (i + 1)) % Size
  BY <1>1, TakeFacts
<1>3. Occupied > 0
  BY <1>1, OccupiedFacts
<1>4. Handed' = Handed /\ Taken' = Taken + 1
  <2>1. Handed' = Handed
    BY DEF Handed
  <2>2. Taken' = Handed' - Occupied'
    BY DEF Taken
  <2>. QED
    BY <1>1, <1>2, <2>1, <2>2
<1>5. buf[out] = Taken + 1
  <2>1. 0 \in 0 .. (Occupied - 1)
    BY <1>1, <1>3
  <2>2. (out + 0) % Size = out
    BY <1>1, SizeFacts, ModFacts
  <2>3. buf[(out + 0) % Size] = Taken + 0 + 1
    BY <2>1 DEF IInv, RingHoldsPending
  <2>. QED
    BY <1>1, <2>2, <2>3
<1>6. TypeOK'
  <2>1. buf[out] \in Connfds
    BY <1>1 DEF IInv, TypeOK
  <2>. QED
    BY <1>2, <2>1 DEF IInv, TypeOK, Slots, Connfds
<1>7. RingHoldsPending'
  <2>1. Occupied' <= Handed'
    BY <1>1, <1>2, <1>4
  <2>2. ASSUME NEW i \in 0 .. (Occupied' - 1)
        PROVE  buf[(out' + i) % Size] = Taken' + i + 1
    <3>1. i \in 0 .. (Occupied - 2) /\ i + 1 \in 0 .. (Occupied - 1)
      BY <1>1, <1>2
    <3>2. buf[(out + (i + 1)) % Size] = Taken + (i + 1) + 1
      BY <3>1 DEF IInv, RingHoldsPending
    <3>3. (out' + i) % Size = (out + (i + 1)) % Size
      BY <1>2, <3>1
    <3>4. Taken' + i + 1 = Taken + (i + 1) + 1
      BY <1>1, <1>4, <3>1
    <3>. QED
      BY <3>2, <3>3, <3>4
  <2>. QED
    BY <2>1, <2>2 DEF RingHoldsPending, Size
<1>8. ServedOnce'
  <2>1. serving'[w] = Taken + 1 /\ \A v \in Workers : v # w => serving'[v] = serving[v]
    BY <1>5 DEF IInv, TypeOK
  <2>2. \A v \in Workers : serving[v] \in Nat /\ serving[v] <= Taken
    BY ConnectionsAssumption DEF IInv, TypeOK, Connfds, ServedOnce
  <2>3. \A u, v \in Workers : u # v /\ serving'[u] = serving'[v] => serving'[u] = 0
    BY <1>1, <2>1, <2>2 DEF IInv, ServedOnce
  <2>4. \A v \in Workers : serving'[v] <= Taken'
    BY <1>1, <1>4, <2>1, <2>2
  <2>. QED
    BY <1>4, <2>1, <2>3, <2>4 DEF ServedOnce
<1>9. SomebodyAwake'
  <2>1. pc'[w] = "serve"
    BY DEF IInv, TypeOK
  <2>. QED
    BY <2>1 DEF SomebodyAwake
<1>10. MainNotForgotten'
  BY DEF IInv, MainNotForgotten
<1>. QED
  BY <1>6, <1>7, <1>8, <1>9, <1>10 DEF IInv

(* A step that changes only the pc of the threads. *)
LEMMA StepPc ==
    ASSUME IInv, UNCHANGED <<buf, in, out, accepted, serving>>,
           main' \in {"accept", "put", "full"}, Handed' = Handed,
           main' = "full" => main = "full",
           pc' \in [Workers -> {"take", "empty", "serve"}],
           Vacant \/ \E w \in Workers : pc'[w] # "empty"
    PROVE  IInv'
<1>1. TypeOK'
  BY DEF IInv, TypeOK, Slots, Connfds
<1>2. RingHoldsPending' /\ ServedOnce' /\ Occupied' = Occupied /\ (Vacant' <=> Vacant)
  BY RingUnchanged
<1>3. SomebodyAwake' /\ MainNotForgotten'
  BY <1>2 DEF IInv, SomebodyAwake, MainNotForgotten, Full
<1>. QED
  BY <1>1, <1>2, <1>3 DEF IInv

LEMMA StepThreadInit == ASSUME IInv, NEW w \in Workers, thread_init(w) PROVE IInv'
<1>1. CASE Vacant
  <2>1. /\ UNCHANGED <<buf, in, out, accepted, serving, main>>
        /\ pc' = [pc EXCEPT ![w] = "empty"]
    BY <1>1 DEF thread_init
  <2>2. pc' \in [Workers -> {"take", "empty", "serve"}] /\ Handed' = Handed
    BY <2>1 DEF IInv, TypeOK, Handed
  <2>3. main' \in {"accept", "put", "full"}
    BY <2>1 DEF IInv, TypeOK
  <2>. QED
    BY <1>1, <2>1, <2>2, <2>3, StepPc
<1>2. CASE ~Vacant
  BY <1>2, StepTake DEF thread_init
<1>. QED
  BY <1>1, <1>2

LEMMA StepServed == ASSUME IInv, NEW w \in Workers, served(w) PROVE IInv'
<1>1. pc' \in [Workers -> {"take", "empty", "serve"}] /\ pc'[w] = "take"
  BY DEF IInv, TypeOK, served
<1>2. Handed' = Handed /\ main' \in {"accept", "put", "full"}
  BY DEF IInv, TypeOK, served, Handed
<1>. QED
  BY <1>1, <1>2, StepPc DEF served

LEMMA StepSpurious ==
    ASSUME IInv, SpuriousWakeup, UNCHANGED <<buf, in, out, accepted, serving>>
    PROVE  IInv'
<1>1. CASE main = "full" /\ main' = "put" /\ UNCHANGED pc
  <2>1. Handed' = Handed
    BY <1>1 DEF Handed
  <2>2. pc' \in [Workers -> {"take", "empty", "serve"}]
    BY <1>1 DEF IInv, TypeOK
  <2>3. Vacant \/ \E w \in Workers : pc'[w] # "empty"
    BY <1>1 DEF IInv, SomebodyAwake
  <2>. QED
    BY <1>1, <2>1, <2>2, <2>3, StepPc
<1>2. CASE UNCHANGED main /\ \E w \in Workers : pc[w] = "empty" /\ pc' = [pc EXCEPT ![w] = "take"]
  <2>1. PICK w \in Workers : pc' = [pc EXCEPT ![w] = "take"]
    BY <1>2
  <2>2. pc' \in [Workers -> {"take", "empty", "serve"}] /\ pc'[w] = "take"
    BY <2>1 DEF IInv, TypeOK
  <2>3. Handed' = Handed /\ main' \in {"accept", "put", "full"}
    BY <1>2 DEF Handed, IInv, TypeOK
  <2>. QED
    BY <1>2, <2>2, <2>3, StepPc
<1>. QED
  BY <1>1, <1>2 DEF SpuriousWakeup

LEMMA StepStutter == IInv /\ UNCHANGED vars => IInv'
<1>. SUFFICES ASSUME IInv, UNCHANGED vars PROVE IInv'
  OBVIOUS
<1>1. Handed' = Handed
  BY DEF vars, Handed
<1>2. pc' \in [Workers -> {"take", "empty", "serve"}] /\ main' \in {"accept", "put", "full"}
  BY DEF vars, IInv, TypeOK
<1>3. Vacant \/ \E w \in Workers : pc'[w] # "empty"
  BY DEF vars, IInv, SomebodyAwake
<1>. QED
  BY <1>1, <1>2, <1>3, StepPc DEF vars

LEMMA NextInv == IInv /\ [Next]_vars => IInv'
<1>. SUFFICES ASSUME IInv, [Next]_vars PROVE IInv'
  OBVIOUS
<1>1. CASE accept
  BY <1>1, StepAccept
<1>2. CASE server_request
  BY <1>2, StepServerRequest
<1>3. CASE \E w \in Workers : thread_init(w)
  BY <1>3, StepThreadInit
<1>4. CASE \E w \in Workers : served(w)
  BY <1>4, StepServed
<1>5. CASE SpuriousWakeup /\ UNCHANGED <<buf, in, out, accepted, serving>>
  BY <1>5, StepSpurious
<1>6. CASE UNCHANGED vars
  BY <1>6, StepStutter
<1>7. CASE Idle
  BY <1>7, StepStutter DEF Idle
<1>. QED
  BY <1>1, <1>2, <1>3, <1>4, <1>5, <1>6, <1>7 DEF Next

(* The invariant holds in every reachable state. *)
THEOREM Invariance == Spec => []IInv
BY InitIInv, NextInv, PTL DEF Spec

(* The indices of the ring, the wait sets of the condition variables and   *)
(* what each worker serves stay in range, for any max_requests and any     *)
(* number of workers.                                                      *)
THEOREM TypeCorrect == Spec => []TypeOK
<1>1. IInv => TypeOK
  BY DEF IInv
<1>. QED
  BY Invariance, <1>1, PTL

(* The ring of server_request and thread_init neither overwrites nor       *)
(* repeats a connection, for any max_requests.                             *)
THEOREM RingSafe == Spec => []RingHoldsPending
<1>1. IInv => RingHoldsPending
  BY DEF IInv
<1>. QED
  BY Invariance, <1>1, PTL

(* No connection is served by two of the workers of server_init. *)
THEOREM ServedAtMostOnce == Spec => []ServedOnce
<1>1. IInv => ServedOnce
  BY DEF IInv
<1>. QED
  BY Invariance, <1>1, PTL

(* The signal of sv->empty (server_thread.c:517) leaves no connection in   *)
(* the ring with all workers asleep, for any number of workers.            *)
THEOREM NoLostConnection == Spec => []SomebodyAwake
<1>1. IInv => SomebodyAwake
  BY DEF IInv
<1>. QED
  BY Invariance, <1>1, PTL

(* The signal of sv->full (server_thread.c:534) leaves the main thread not *)
(* asleep beside a free slot.                                              *)
THEOREM NoForgottenMain == Spec => []MainNotForgotten
<1>1. IInv => MainNotForgotten
  BY DEF IInv
<1>. QED
  BY Invariance, <1>1, PTL

-----------------------------------------------------------------------------
(* The buffer implements Channel.  By RingHoldsPending the ring, read from *)
(* out to in, is the sequence of the connections from Taken + 1 to Handed, *)
(* so a put appends the next number and a take removes the first.          *)

Ring == [i \in 1 .. Occupied |-> buf[(out + i - 1) % Size]]
Run(from, n) == [i \in 1 .. n |-> from + i]

LEMMA RunFacts ==
    ASSUME NEW from \in Nat, NEW n \in Nat
    PROVE  /\ Run(from, n) \in Seq(Nat)
           /\ Len(Run(from, n)) = n
           /\ Append(Run(from, n), from + n + 1) = Run(from, n + 1)
           /\ n > 0 => /\ Run(from, n) # <<>>
                       /\ Head(Run(from, n)) = from + 1
                       /\ Tail(Run(from, n)) = Run(from + 1, n - 1)
<1>1. Run(from, n) \in Seq(Nat) /\ Len(Run(from, n)) = n
  BY DEF Run
<1>2. Append(Run(from, n), from + n + 1) = Run(from, n + 1)
  BY <1>1 DEF Run
<1>3. ASSUME n > 0
      PROVE  /\ Run(from, n) # <<>>
             /\ Head(Run(from, n)) = from + 1
             /\ Tail(Run(from, n)) = Run(from + 1, n - 1)
  <2>. DEFINE s == Run(from, n)
              t == Run(from + 1, n - 1)
  <2>1. n - 1 \in Nat /\ from + 1 \in Nat
    BY <1>3
  <2>2. t \in Seq(Nat) /\ Len(t) = n - 1
    BY <2>1 DEF Run
  <2>3. s \in Seq(Nat) /\ s # <<>> /\ Len(s) = n
    BY <1>1, <1>3
  <2>4. /\ Tail(s) \in Seq(Nat) /\ Len(Tail(s)) = n - 1
        /\ \A i \in 1 .. Len(Tail(s)) : Tail(s)[i] = s[i + 1]
    BY <2>3, HeadTailProperties
  <2>5. \A i \in 1 .. (n - 1) : s[i + 1] = from + (i + 1) /\ t[i] = from + 1 + i
    BY <2>1 DEF Run
  <2>6. \A i \in 1 .. Len(Tail(s)) : Tail(s)[i] = t[i]
    BY <2>1, <2>4, <2>5
  <2>7. Tail(s) = t
    BY <2>2, <2>4, <2>6, SeqEqual
  <2>8. Head(s) = from + 1
    BY <1>3, <2>3 DEF Run
  <2>. QED
    BY <2>3, <2>7, <2>8
<1>. QED
  BY <1>1, <1>2, <1>3

LEMMA RingIsRun ==
    IInv => Ring = Run(Taken, Occupied) /\ Taken \in Nat /\ Occupied \in Nat
<1>. SUFFICES ASSUME IInv
              PROVE  Ring = Run(Taken, Occupied) /\ Taken \in Nat /\ Occupied \in Nat
  OBVIOUS
<1>1. Taken \in Nat /\ Occupied \in Nat /\ out \in Nat
  BY Counts, SizeFacts DEF IInv
<1>2. ASSUME NEW i \in 1 .. Occupied
      PROVE  buf[(out + i - 1) % Size] = Taken + i
  <2>1. i - 1 \in 0 .. (Occupied - 1) /\ i \in Nat
    BY <1>1
  <2>2. buf[(out + (i - 1)) % Size] = Taken + (i - 1) + 1
    BY <2>1 DEF IInv, RingHoldsPending
  <2>3. out + (i - 1) = out + i - 1 /\ Taken + (i - 1) + 1 = Taken + i
    BY <1>1, <2>1
  <2>. QED
    BY <2>2, <2>3
<1>. QED
  BY <1>1, <1>2 DEF Ring, Run

(* A step of the program that leaves the number of connections handed over *)
(* and taken alone, and what the workers serve, is none of the channel's.  *)
LEMMA NothingSent ==
    ASSUME IInv, IInv', Handed' = Handed, UNCHANGED <<in, out, serving>>
    PROVE  UNCHANGED <<Ring, Handed, serving>>
<1>1. Occupied' = Occupied /\ Taken' = Taken
  BY DEF Occupied, Taken, Size
<1>2. Ring = Run(Taken, Occupied)
  BY RingIsRun
<1>3. (Ring = Run(Taken, Occupied) /\ Taken \in Nat /\ Occupied \in Nat)'
  BY RingIsRun, PTL
<1>. QED
  BY <1>1, <1>2, <1>3 DEF Run

(* server_request puts the connection in hand behind the others.           *)
LEMMA PutSends ==
    ASSUME IInv, IInv', server_request, ~Full
    PROVE  Chan!Send
<1>1. /\ Size \in Nat /\ in \in Slots /\ out \in Slots /\ Occupied \in 0 .. (Size - 1)
      /\ Handed \in Nat /\ Handed = Taken + Occupied /\ accepted \in 0 .. Connections
  BY Counts DEF IInv, TypeOK, Connfds
<1>2. /\ in' = (in + 1) % Size /\ out' = out /\ serving' = serving
      /\ main = "put" /\ main' = "accept" /\ accepted' = accepted
  BY DEF server_request
<1>3. Occupied' = Occupied + 1
  BY <1>1, <1>2, PutFacts
<1>4. Handed' = Handed + 1 /\ Handed < Connections
  BY <1>1, <1>2, ConnectionsAssumption DEF Handed
<1>5. Taken' = Taken
  <2>1. Taken' = Handed' - Occupied' /\ Taken = Handed - Occupied
    BY DEF Taken
  <2>. QED
    BY <1>1, <1>3, <1>4, <2>1
<1>6. Ring = Run(Taken, Occupied) /\ Taken \in Nat /\ Occupied \in Nat
  BY RingIsRun
<1>7. (Ring = Run(Taken, Occupied) /\ Taken \in Nat /\ Occupied \in Nat)'
  BY RingIsRun, PTL
<1>8. Ring' = Run(Taken, Occupied + 1)
  BY <1>3, <1>5, <1>7 DEF Run
<1>9. Ring' = Append(Ring, Handed') /\ Len(Ring) < MaxRequests
  <2>1. Handed' = Taken + Occupied + 1
    BY <1>1, <1>4
  <2>2. Len(Ring) = Occupied /\ Append(Ring, Taken + Occupied + 1) = Run(Taken, Occupied + 1)
    BY <1>6, RunFacts
  <2>3. Occupied < MaxRequests
    BY <1>1, MaxRequestsAssumption DEF Full, Size
  <2>. QED
    BY <1>8, <2>1, <2>2, <2>3
<1>. QED
  BY <1>2, <1>4, <1>9 DEF Chan!Send, Ring

(* thread_init takes the first.                                            *)
LEMMA TakeReceives ==
    ASSUME IInv, IInv', NEW w \in Workers, thread_init(w), ~Vacant
    PROVE  Chan!Receive(w)
<1>1. /\ Size \in Nat /\ Size > 0 /\ in \in Slots /\ out \in Slots
      /\ Occupied \in 0 .. (Size - 1) /\ Handed = Taken + Occupied
  BY Counts DEF IInv
<1>2. /\ out' = (out + 1) % Size /\ in' = in /\ accepted' = accepted
      /\ serving' = [serving EXCEPT ![w] = buf[out]]
      /\ main' = IF Full /\ main = "full" THEN "put" ELSE main
  BY DEF thread_init
<1>3. Occupied' = Occupied - 1 /\ Occupied > 0
  BY <1>1, <1>2, TakeFacts, OccupiedFacts
<1>4. Handed' = Handed
  BY <1>2 DEF Handed
<1>5. Taken' = Taken + 1
  <2>1. Taken' = Handed' - Occupied'
    BY DEF Taken
  <2>2. Handed \in Nat /\ Taken \in Nat
    BY Counts DEF IInv
  <2>. QED
    BY <1>1, <1>3, <1>4, <2>1, <2>2
<1>6. Ring = Run(Taken, Occupied) /\ Taken \in Nat /\ Occupied \in Nat
  BY RingIsRun
<1>7. (Ring = Run(Taken, Occupied) /\ Taken \in Nat /\ Occupied \in Nat)'
  BY RingIsRun, PTL
<1>8. Ring' = Run(Taken + 1, Occupied - 1)
  BY <1>3, <1>5, <1>7 DEF Run
<1>9. Ring # <<>> /\ Head(Ring) = Taken + 1 /\ Ring' = Tail(Ring)
  BY <1>3, <1>6, <1>8, RunFacts
<1>10. buf[out] = Head(Ring)
  <2>1. 0 \in 0 .. (Occupied - 1) /\ (out + 0) % Size = out
    BY <1>1, <1>3, SizeFacts, ModFacts
  <2>2. buf[(out + 0) % Size] = Taken + 0 + 1
    BY <2>1 DEF IInv, RingHoldsPending
  <2>. QED
    BY <1>6, <1>9, <2>1, <2>2
<1>. QED
  BY <1>2, <1>4, <1>9, <1>10 DEF Chan!Receive, Ring

LEMMA StepsSimulated ==
    IInv /\ IInv' /\ [Next]_vars => [Chan!Next]_(Chan!vars)
<1>. SUFFICES ASSUME IInv, IInv', [Next]_vars
              PROVE  Chan!Next \/ UNCHANGED <<Ring, Handed, serving>>
  BY DEF Chan!vars, Ring
<1>0. accepted \in Nat
  BY Counts DEF IInv
<1>1. CASE accept
  <2>1. Handed' = Handed
    BY <1>0, <1>1 DEF accept, Handed
  <2>. QED
    BY <1>1, <2>1, NothingSent DEF accept
<1>2. CASE server_request
  <2>1. CASE Full
    BY <1>2, <2>1, NothingSent DEF server_request, Handed
  <2>2. CASE ~Full
    BY <1>2, <2>2, PutSends DEF Chan!Next
  <2>. QED
    BY <2>1, <2>2
<1>3. ASSUME NEW w \in Workers, thread_init(w)
      PROVE  Chan!Next \/ UNCHANGED <<Ring, Handed, serving>>
  <2>1. CASE Vacant
    BY <1>3, <2>1, NothingSent DEF thread_init, Handed
  <2>2. CASE ~Vacant
    BY <1>3, <2>2, TakeReceives DEF Chan!Next
  <2>. QED
    BY <2>1, <2>2
<1>4. CASE \E w \in Workers : served(w)
  BY <1>4, NothingSent DEF served, Handed
<1>5. CASE SpuriousWakeup /\ UNCHANGED <<buf, in, out, accepted, serving>>
  BY <1>5, NothingSent DEF SpuriousWakeup, Handed
<1>6. CASE UNCHANGED vars
  BY <1>6, NothingSent DEF vars, Handed
<1>. QED
  BY <1>1, <1>2, <1>3, <1>4, <1>5, <1>6 DEF Next, Idle

(* The ring between server_request and the workers is a bounded first-in   *)
(* first-out channel, for any max_requests and any number of workers: no   *)
(* connection is reordered, dropped or handed to two workers.  That each   *)
(* is taken in the end is left to TLC (ImplementsChannel).                 *)
THEOREM BufferIsChannel == Spec => Chan!Safety
<1>1. Init => Chan!Init
  <2>. SUFFICES ASSUME Init PROVE Chan!Init
    OBVIOUS
  <2>1. Occupied = 0 /\ Handed = 0
    BY SizeFacts, OccupiedFacts DEF Init, Handed, Vacant
  <2>2. Ring = <<>>
    BY <2>1 DEF Ring
  <2>. QED
    BY <2>1, <2>2 DEF Chan!Init, Ring, Init
<1>. QED
  BY <1>1, Invariance, StepsSimulated, PTL DEF Spec, Chan!Safety
=============================================================================
