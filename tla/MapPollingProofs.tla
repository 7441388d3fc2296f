-------------------------- MODULE MapPollingProofs --------------------------
(***************************************************************************)
(* Proofs about MapPolling for any number of CPUs, ring size, batch size   *)
(* and number of events: type correctness, no torn record, per-CPU order,  *)
(* exact loss accounting, loss only on overrun, that MapPolling implements *)
(* EventChannel, the order of a batch, and how long a shard may wait.      *)
(*                                                                         *)
(* The slots come first.  The argument turns on Lapped(c, e): from the     *)
(* moment emit_event has cleared both markers of the slot of event e for   *)
(* the next lap, the markers never show e again; until that moment the     *)
(* payload is e.  Then the reader: a copy made after event e was published *)
(* holds e, or the slot is lapped; a second copy that still shows e proves *)
(* that it was not.  Then the records and the theorems, and the channel:   *)
(* under the invariant every step of emit_event and pollBatch is a step of *)
(* the channel or leaves it unchanged.  Last, the rotation of the shards.  *)
(***************************************************************************)
EXTENDS MapPolling, TLAPS

-----------------------------------------------------------------------------
(* Arithmetic of slot indices *)

\* Division with remainder, by which a slot index is computed.
LEMMA ModRange ==
    ASSUME NEW d \in Nat \ {0}, NEW a \in Nat
    PROVE  /\ a % d \in 0 .. d - 1
           /\ a \div d \in Nat
           /\ a = d * (a \div d) + (a % d)
  OBVIOUS

\* A larger quotient is at least one whole divisor further.
LEMMA MulStep ==
    ASSUME NEW d \in Nat \ {0}, NEW p \in Nat, NEW q \in Nat, p < q
    PROVE  d * q >= d * p + d
  <1>1. PICK k \in Nat : q = p + 1 + k
    <2>1. q - p - 1 \in Nat /\ q = p + 1 + (q - p - 1)
      OBVIOUS
    <2> QED BY <2>1
  <1>2. d * (p + 1 + k) = d * p + d + d * k
    OBVIOUS
  <1>3. d * k >= 0 /\ d * k \in Int /\ d * p \in Int
    OBVIOUS
  <1> QED BY <1>1, <1>2, <1>3

\* Two numbers with the same remainder are at least a divisor apart: two
\* events that share a slot are a whole ring apart.
LEMMA ModSame ==
    ASSUME NEW d \in Nat \ {0}, NEW a \in Nat, NEW b \in Nat, a < b, a % d = b % d
    PROVE  b >= a + d
  <1> DEFINE p == a \div d  q == b \div d r == a % d
  <1>a. a = d * p + r /\ p \in Nat /\ r \in 0 .. d - 1
    BY Zenon, ModRange
  <1>b. b = d * q + (b % d) /\ q \in Nat
    BY Zenon, ModRange
  <1>1. /\ a = d * p + r /\ b = d * q + r /\ p \in Nat /\ q \in Nat /\ r \in Nat
    BY <1>a, <1>b
  <1> HIDE DEF p, q, r
  <1>2. d * p \in Int /\ d * q \in Int
    BY <1>1
  <1>3. d * p < d * q
    BY <1>1, <1>2
  <1>4. p < q
    <2>1. CASE q < p
      BY <2>1, <1>1, <1>2, <1>3, MulStep
    <2>2. CASE q = p
      BY <2>2, <1>3, <1>2
    <2> QED BY <2>1, <2>2, <1>1
  <1> QED BY <1>1, <1>2, <1>4, MulStep

\* A remainder is determined by its range.
LEMMA ModUnique ==
    ASSUME NEW d \in Nat \ {0}, NEW q \in Nat, NEW r \in 0 .. d - 1
    PROVE (d * q + r) % d = r
  OBVIOUS

\* Going once round the ring returns to the same slot.
LEMMA ModWrap ==
    ASSUME NEW d \in Nat \ {0}, NEW a \in Nat
    PROVE  (a + d) % d = a % d
  <1> DEFINE q == a \div d
             r == a % d
  <1>1. a = d * q + r /\ q \in Nat /\ r \in 0 .. d - 1
    BY Zenon, ModRange
  <1> HIDE DEF q, r
  <1>2. d * (q + 1) = d * q + d /\ d * q \in Int
    BY <1>1
  <1>3. a + d = d * (q + 1) + r
    BY <1>1, <1>2
  <1>4. q + 1 \in Nat
    BY <1>1
  <1>5. (d * (q + 1) + r) % d = r
    BY <1>1, <1>4, ModUnique
  <1> QED BY <1>3, <1>5 DEF r

\* Two events share a slot only if they are a whole ring apart.
LEMMA IndexFacts ==
    /\ \A n \in Nat \ {0} : Index(n) \in 0 .. Slots - 1
    /\ \A n \in Nat \ {0} : Index(n + Slots) = Index(n)
    /\ \A m, n \in Nat \ {0} : m < n /\ Index(m) = Index(n) => n >= m + Slots
  <1>1. ASSUME NEW n \in Nat \ {0}
        PROVE  Index(n) \in 0 .. Slots - 1 /\ Index(n + Slots) = Index(n)
    <2>1. n - 1 \in Nat /\ n + Slots - 1 = (n - 1) + Slots
      BY SizesAssumption
    <2>2. (n - 1) % Slots \in 0 .. Slots - 1
      BY <2>1, ModRange, SizesAssumption
    <2>3. ((n - 1) + Slots) % Slots = (n - 1) % Slots
      BY Zenon, <2>1, ModWrap, SizesAssumption
    <2> DEFINE x == n + Slots - 1
               y == (n - 1) + Slots
    <2>a. x = y
      BY <2>1
    <2>b. Index(n + Slots) = x % Slots
      BY SizesAssumption DEF Index
    <2>c. y % Slots = (n - 1) % Slots
      BY <2>3
    <2> HIDE DEF x, y
    <2>4. Index(n + Slots) = (n - 1) % Slots
      BY <2>a, <2>b, <2>c
    <2>5. Index(n) = (n - 1) % Slots
      BY DEF Index
    <2> QED BY <2>2, <2>4, <2>5
  <1>2. ASSUME NEW m \in Nat \ {0}, NEW n \in Nat \ {0}, m < n, Index(m) = Index(n)
        PROVE  n >= m + Slots
    <2>1. m - 1 \in Nat /\ n - 1 \in Nat /\ m - 1 < n - 1
      BY <1>2
    <2>2. n - 1 >= (m - 1) + Slots
      BY Zenon, <2>1, <1>2, ModSame, SizesAssumption DEF Index
    <2> QED BY <2>2, SizesAssumption
  <1> QED BY <1>1, <1>2

\* The shards a batch visits are distinct.
LEMMA ShardFacts ==
    /\ \A a \in Nat : a % NumCPU \in CPUs
    /\ \A a, i, j \in Nat :
        i < NumCPU /\ j < NumCPU /\ (a + i) % NumCPU = (a + j) % NumCPU => i = j
  <1>1. ASSUME NEW a \in Nat PROVE a % NumCPU \in CPUs
    BY ModRange, SizesAssumption DEF CPUs
  <1>2. ASSUME NEW a \in Nat, NEW i \in Nat, NEW j \in Nat, i < j, j < NumCPU
        PROVE  (a + i) % NumCPU # (a + j) % NumCPU
    <2>1. a + i \in Nat /\ a + j \in Nat /\ a + i < a + j
      BY <1>2
    <2>2. SUFFICES ASSUME (a + i) % NumCPU = (a + j) % NumCPU PROVE FALSE
      OBVIOUS
    <2>3. a + j >= (a + i) + NumCPU
      BY Zenon, <2>1, <2>2, ModSame, SizesAssumption
    <2> QED BY <2>3, <1>2, SizesAssumption
  <1>3. ASSUME NEW a \in Nat, NEW i \in Nat, NEW j \in Nat, i < NumCPU, j < NumCPU,
               (a + i) % NumCPU = (a + j) % NumCPU
        PROVE  i = j
    <2>1. CASE i < j
      BY <2>1, <1>2, <1>3
    <2>2. CASE j < i
      BY <2>2, <1>2, <1>3
    <2> QED BY <2>1, <2>2
  <1> QED BY <1>1, <1>3

-----------------------------------------------------------------------------
(* Type correctness *)

\* What a phase of emit_map_event stores are words of the slot.
LEMMA GroupType == \A phase \in 0 .. 5 : Group(phase) \in SUBSET Words
  BY DEF Group, Words, Markers, Payload

\* The zeroed maps and the fresh reader have their types.
LEMMA InitType == Init => TypeOK
  <1> SUFFICES ASSUME Init PROVE TypeOK
    OBVIOUS
  <1>1. EmptySlot \in [Words -> Nat]
    BY DEF EmptySlot
  <1>2. 0 \in CPUs
    BY SizesAssumption DEF CPUs
  <1> QED BY <1>1, <1>2, SizesAssumption DEF Init, TypeOK, WriterTypeOK, ReaderTypeOK, HistoryTypeOK

\* What one store changes: one word of the slot of the event being emitted,
\* and the group when it was the group's last word.
StoreOf(c, w) ==
    LET i == Index(head[c] + 1)
        v == IF wphase[c] = 1 THEN 0 ELSE head[c] + 1
    IN  /\ wphase[c] \in 1 .. 4
        /\ w \in wtodo[c]
        /\ i \in 0 .. Slots - 1
        /\ slot' \in [CPUs -> [0 .. Slots - 1 -> [Words -> Nat]]]
        /\ slot'[c][i][w] = v
        /\ \A d \in CPUs, j \in 0 .. Slots - 1, u \in Words :
            (d # c \/ j # i \/ u # w) => slot'[d][j][u] = slot[d][j][u]
        /\ \/ /\ wtodo[c] = {w}
              /\ wphase' = [wphase EXCEPT ![c] = wphase[c] + 1]
              /\ wtodo' = [wtodo EXCEPT ![c] = Group(wphase[c] + 1)]
           \/ /\ wtodo[c] # {w}
              /\ wphase' = wphase
              /\ wtodo' = [wtodo EXCEPT ![c] = wtodo[c] \ {w}]
        /\ head' = head
        /\ rvars' = rvars

\* A store writes one word of the slot of the CPU's next event.
LEMMA StoreEffect ==
    ASSUME WriterTypeOK, NEW c \in CPUs, Store(c)
    PROVE  \E w \in Words : StoreOf(c, w)
  <1> DEFINE i == Index(head[c] + 1)
             v == IF wphase[c] = 1 THEN 0 ELSE head[c] + 1
  <1>1. PICK w \in wtodo[c] :
          /\ slot' = [slot EXCEPT ![c][i][w] = v]
          /\ IF wtodo[c] = {w}
             THEN /\ wphase' = [wphase EXCEPT ![c] = @ + 1]
                  /\ wtodo' = [wtodo EXCEPT ![c] = Group(wphase[c] + 1)]
             ELSE /\ wtodo' = [wtodo EXCEPT ![c] = @ \ {w}]
                  /\ UNCHANGED wphase
    BY Zenon DEF Store
  <1>2. w \in Words /\ head[c] + 1 \in Nat \ {0}
    BY DEF WriterTypeOK
  <1>3. i \in 0 .. Slots - 1
    BY <1>2, IndexFacts
  <1>4. v \in Nat
    BY <1>2
  <1> HIDE DEF i, v
  <1> DEFINE cell == [slot[c][i] EXCEPT ![w] = v]
             ring == [slot[c] EXCEPT ![i] = cell]
  <1>5. slot \in [CPUs -> [0 .. Slots - 1 -> [Words -> Nat]]]
    BY DEF WriterTypeOK
  <1>6. cell \in [Words -> Nat] /\ cell[w] = v /\ \A u \in Words \ {w} : cell[u] = slot[c][i][u]
    BY Zenon, <1>2, <1>3, <1>4, <1>5
  <1>7. slot' = [slot EXCEPT ![c] = ring]
    BY <1>1
  <1> HIDE DEF cell
  <1>8. ring \in [0 .. Slots - 1 -> [Words -> Nat]] /\ ring[i] = cell
        /\ \A j \in (0 .. Slots - 1) \ {i} : ring[j] = slot[c][j]
    BY Zenon, <1>3, <1>5, <1>6
  <1> HIDE DEF ring
  <1>9. slot' \in [CPUs -> [0 .. Slots - 1 -> [Words -> Nat]]] /\ slot'[c] = ring
        /\ \A d \in CPUs \ {c} : slot'[d] = slot[d]
    BY <1>5, <1>7, <1>8
  <1>10. /\ slot'[c][i][w] = v
         /\ \A d \in CPUs, j \in 0 .. Slots - 1, u \in Words :
             (d # c \/ j # i \/ u # w) => slot'[d][j][u] = slot[d][j][u]
    BY Zenon, <1>6, <1>8, <1>9
  <1>11. StoreOf(c, w)
    BY <1>1, <1>2, <1>3, <1>9, <1>10 DEF Store, StoreOf, i, v
  <1> QED BY <1>2, <1>11

\* The steps of emit_map_event preserve the types of the maps.
LEMMA WriterType ==
    ASSUME WriterTypeOK, NEW c \in CPUs, Writer(c)
    PROVE  WriterTypeOK'
  <1>1. CASE BeginEmit(c)
    <2>1. 1 \in 0 .. 5 /\ Group(1) \in SUBSET Words
      BY GroupType
    <2> QED BY <1>1, <2>1 DEF BeginEmit, WriterTypeOK
  <1>2. CASE Store(c)
    <2>1. PICK w \in Words : StoreOf(c, w)
      BY <1>2, StoreEffect
    <2>2. wphase[c] + 1 \in 0 .. 5 /\ Group(wphase[c] + 1) \in SUBSET Words
      BY <2>1, GroupType DEF StoreOf
    <2>3. wphase' \in [CPUs -> 0 .. 5]
      BY Zenon, <2>1, <2>2 DEF StoreOf, WriterTypeOK
    <2>a. wtodo \in [CPUs -> SUBSET Words]
      BY Zenon DEF WriterTypeOK
    <2>4. wtodo' \in [CPUs -> SUBSET Words]
      BY Zenon, <2>1, <2>2, <2>a DEF StoreOf
    <2> QED BY <2>1, <2>3, <2>4 DEF StoreOf, WriterTypeOK
  <1>3. CASE Publish(c)
    BY <1>3 DEF Publish, WriterTypeOK
  <1> QED BY <1>1, <1>2, <1>3 DEF Writer
-----------------------------------------------------------------------------
(* The slots *)

\* emit_event has cleared both markers of event e's slot for a later event.
Lapped(c, e) ==
    \/ head[c] >= e + Slots
    \/ head[c] + 1 = e + Slots /\ wphase[c] >= 2

\* Where the writer of CPU c is inside emit_event.
WriterAt(c) ==
    LET cell == slot[c][Index(head[c] + 1)] IN
    /\ head[c] <= EventBound[c]
    /\ wphase[c] > 0 => head[c] < EventBound[c]
    /\ wphase[c] \in 1 .. 4 => wtodo[c] # {} /\ wtodo[c] \subseteq Group(wphase[c])
    /\ wphase[c] = 1 => \A w \in Markers \ wtodo[c] : cell[w] = 0
    /\ wphase[c] = 2 => \A w \in Payload \ wtodo[c] : cell[w] = head[c] + 1
    /\ wphase[c] >= 3 => \A w \in Payload : cell[w] = head[c] + 1

\* A value a marker of slot i of CPU c can show.
MarkerOK(c, i, v) ==
    v = 0 \/ (v \in 1 .. head[c] + 1 /\ Index(v) = i)

\* A marker shows no event that has been lapped.
MarkersAt(c) ==
    \A i \in 0 .. Slots - 1, w \in Markers :
        /\ MarkerOK(c, i, slot[c][i][w])
        /\ slot[c][i][w] # 0 => ~Lapped(c, slot[c][i][w])

\* The payload of a published event is intact until the event is lapped.
PayloadAt(c) ==
    \A e \in 1 .. head[c] : ~Lapped(c, e) =>
        \A w \in Payload : slot[c][Index(e)][w] = e

SlotInv == \A c \in CPUs : WriterAt(c) /\ MarkersAt(c) /\ PayloadAt(c)

\* SlotInv is about the writers' state alone.
LEMMA SlotInvSame ==
    ASSUME SlotInv, wvars' = wvars
    PROVE  SlotInv'
  <1>1. UNCHANGED <<head, wphase, wtodo, slot>>
    BY DEF wvars
  <1>2. \A c, e : Lapped(c, e)' <=> Lapped(c, e)
    BY <1>1 DEF Lapped
  <1>3. ASSUME NEW c \in CPUs PROVE WriterAt(c)'
    BY <1>1 DEF SlotInv, WriterAt
  <1>4. ASSUME NEW c \in CPUs PROVE MarkersAt(c)'
    BY <1>1, <1>2 DEF SlotInv, MarkersAt, MarkerOK
  <1>5. ASSUME NEW c \in CPUs PROVE PayloadAt(c)'
    BY <1>1, <1>2 DEF SlotInv, PayloadAt
  <1> QED BY <1>3, <1>4, <1>5 DEF SlotInv

\* SlotInv holds of the zeroed maps.
LEMMA InitSlotInv == Init => SlotInv
  <1> SUFFICES ASSUME Init, NEW c \in CPUs
               PROVE  WriterAt(c) /\ MarkersAt(c) /\ PayloadAt(c)
    BY DEF SlotInv
  <1>1. head[c] = 0 /\ wphase[c] = 0
    BY DEF Init
  <1>2. WriterAt(c)
    BY <1>1, SizesAssumption DEF WriterAt
  <1>3. MarkersAt(c)
    BY DEF Init, MarkersAt, MarkerOK, EmptySlot, Words
  <1>4. PayloadAt(c)
    BY <1>1 DEF PayloadAt
  <1> QED BY <1>2, <1>3, <1>4

\* A writer step of another CPU leaves the slots of CPU d alone.
LEMMA OtherCPU ==
    ASSUME WriterTypeOK, SlotInv, NEW c \in CPUs, Writer(c), NEW d \in CPUs, d # c
    PROVE  (WriterAt(d) /\ MarkersAt(d) /\ PayloadAt(d))'
  <1>1. head'[d] = head[d] /\ wphase'[d] = wphase[d] /\ wtodo'[d] = wtodo[d]
        /\ slot'[d] = slot[d]
    BY Zenon DEF Writer, BeginEmit, Store, Publish, WriterTypeOK
  <1> QED BY <1>1 DEF SlotInv, WriterAt, MarkersAt, PayloadAt, MarkerOK, Lapped

\* What is lapped stays lapped.
LEMMA LappedStable ==
    ASSUME WriterTypeOK, NEW c \in CPUs, Writer(c), NEW d \in CPUs, NEW e \in Nat,
           Lapped(d, e)
    PROVE  Lapped(d, e)'
  <1>1. head[d] \in Nat /\ wphase[d] \in 0 .. 5
    BY DEF WriterTypeOK
  <1>2. CASE BeginEmit(c)
    BY <1>1, <1>2 DEF BeginEmit, Lapped, WriterTypeOK
  <1>3. CASE Store(c)
    <2>1. PICK w \in Words : StoreOf(c, w)
      BY <1>3, StoreEffect
    <2>2. head' = head /\ wphase'[d] >= wphase[d]
      <3>1. CASE d = c
        BY <1>1, <2>1, <3>1 DEF StoreOf, WriterTypeOK
      <3>2. CASE d # c
        BY <1>1, <2>1, <3>2 DEF StoreOf, WriterTypeOK
      <3> QED BY <3>1, <3>2
    <2>3. wphase'[d] \in 0 .. 5
      BY WriterType DEF WriterTypeOK
    <2> QED BY <1>1, <2>2, <2>3 DEF Lapped
  <1>4. CASE Publish(c)
    BY <1>1, <1>4, SizesAssumption DEF Publish, Lapped, WriterTypeOK
  <1> QED BY <1>2, <1>3, <1>4 DEF Writer

\* Reserving the next sequence number preserves the CPU's part of SlotInv.
LEMMA BeginEmitSlotInv ==
    ASSUME WriterTypeOK, SlotInv, NEW c \in CPUs, BeginEmit(c)
    PROVE  (WriterAt(c) /\ MarkersAt(c) /\ PayloadAt(c))'
  <1>1. /\ wphase[c] = 0 /\ wphase'[c] = 1 /\ wtodo'[c] = Markers
        /\ head' = head /\ slot' = slot /\ head[c] < EventBound[c]
    BY DEF BeginEmit, WriterTypeOK, Group
  <1>2. \A e : Lapped(c, e)' <=> Lapped(c, e)
    BY <1>1 DEF Lapped
  <1>3. WriterAt(c)'
    BY <1>1 DEF SlotInv, WriterAt, Group, Markers
  <1>4. MarkersAt(c)'
    BY <1>1, <1>2 DEF SlotInv, MarkersAt, MarkerOK
  <1>5. PayloadAt(c)'
    BY <1>1, <1>2 DEF SlotInv, PayloadAt
  <1> QED BY <1>3, <1>4, <1>5

\* Publishing the head, once every word is stored, preserves the CPU's part
\* of SlotInv.
LEMMA PublishSlotInv ==
    ASSUME WriterTypeOK, SlotInv, NEW c \in CPUs, Publish(c)
    PROVE  (WriterAt(c) /\ MarkersAt(c) /\ PayloadAt(c))'
  <1>1. /\ wphase[c] = 5 /\ wphase'[c] = 0 /\ head'[c] = head[c] + 1 /\ slot' = slot
        /\ head[c] \in Nat /\ head[c] < EventBound[c] /\ EventBound[c] \in Nat
    <2>1. wphase[c] = 5 /\ wphase'[c] = 0 /\ head'[c] = head[c] + 1 /\ slot' = slot
      BY DEF Publish, WriterTypeOK
    <2>2. WriterAt(c)
      BY DEF SlotInv
    <2>3. head[c] < EventBound[c]
      BY <2>1, <2>2 DEF WriterAt
    <2> QED BY <2>1, <2>3, SizesAssumption DEF WriterTypeOK
  <1>2. \A e \in Int : Lapped(c, e)' <=> Lapped(c, e)
    BY <1>1, SizesAssumption DEF Lapped
  <1>3. WriterAt(c)'
    BY <1>1 DEF WriterAt
  <1>4. MarkersAt(c)'
    <2> SUFFICES ASSUME NEW i \in 0 .. Slots - 1, NEW w \in Markers
                 PROVE  /\ MarkerOK(c, i, slot[c][i][w])'
                        /\ slot[c][i][w] # 0 => ~Lapped(c, slot[c][i][w])'
      BY <1>1 DEF MarkersAt
    <2>1. MarkerOK(c, i, slot[c][i][w]) /\ (slot[c][i][w] # 0 => ~Lapped(c, slot[c][i][w]))
      BY DEF SlotInv, MarkersAt
    <2>2. slot[c][i][w] \in Int
      BY <1>1, <2>1 DEF MarkerOK
    <2>3. MarkerOK(c, i, slot[c][i][w])'
      BY <1>1, <2>1 DEF MarkerOK
    <2> QED BY <1>1, <2>1, <2>2, <2>3, SizesAssumption DEF Lapped
  <1>5. PayloadAt(c)'
    <2> SUFFICES ASSUME NEW e \in 1 .. head[c] + 1, ~Lapped(c, e), NEW w \in Payload
                 PROVE  slot[c][Index(e)][w] = e
      BY <1>1, <1>2 DEF PayloadAt
    <2>1. CASE e = head[c] + 1
      BY <1>1, <2>1 DEF SlotInv, WriterAt
    <2>2. CASE e \in 1 .. head[c]
      BY <2>2 DEF SlotInv, PayloadAt
    <2> QED BY <1>1, <2>1, <2>2
  <1> QED BY <1>3, <1>4, <1>5

\* A store preserves the CPU's part of SlotInv: markers go first and last, so
\* a slot whose markers name an event holds its payload.
LEMMA StoreSlotInv ==
    ASSUME WriterTypeOK, SlotInv, NEW c \in CPUs, Store(c)
    PROVE  (WriterAt(c) /\ MarkersAt(c) /\ PayloadAt(c))'
  <1> DEFINE n == head[c] + 1
             i == Index(n)
             v == IF wphase[c] = 1 THEN 0 ELSE n
  <1>1. PICK w \in Words : StoreOf(c, w)
    BY StoreEffect
  <1>2. WriterAt(c) /\ MarkersAt(c) /\ PayloadAt(c)
    BY DEF SlotInv
  <1>3. /\ head[c] \in Nat /\ n \in Nat \ {0} /\ n > head[c] /\ i \in 0 .. Slots - 1
        /\ wphase[c] \in 1 .. 4 /\ w \in wtodo[c] /\ w \in Group(wphase[c])
        /\ wtodo[c] \subseteq Group(wphase[c])
    <2>1. head[c] \in Nat /\ n \in Nat \ {0} /\ n > head[c]
      BY DEF WriterTypeOK
    <2>2. wphase[c] \in 1 .. 4 /\ w \in wtodo[c]
      BY Zenon, <1>1 DEF StoreOf
    <2>3. wtodo[c] \subseteq Group(wphase[c])
      BY <1>2, <2>2 DEF WriterAt
    <2> QED BY <2>1, <2>2, <2>3, IndexFacts
  <1>4. /\ slot'[c][i][w] = v /\ head' = head
        /\ \A j \in 0 .. Slots - 1, u \in Words :
            (j # i \/ u # w) => slot'[c][j][u] = slot[c][j][u]
    BY <1>1 DEF StoreOf
  <1>5. \/ /\ wtodo[c] = {w} /\ wphase'[c] = wphase[c] + 1
           /\ wtodo'[c] = Group(wphase[c] + 1)
        \/ /\ wtodo[c] # {w} /\ wphase'[c] = wphase[c]
           /\ wtodo'[c] = wtodo[c] \ {w}
    BY Zenon, <1>1 DEF StoreOf, WriterTypeOK
  <1> HIDE DEF i
  <1>6. WriterAt(c)'
    <2>1. head[c] < EventBound[c] /\ head[c] <= EventBound[c]
      BY <1>2, <1>3 DEF WriterAt
    <2>2. wphase'[c] \in 1 .. 4 => wtodo'[c] # {} /\ wtodo'[c] \subseteq Group(wphase'[c])
      <3>1. CASE wtodo[c] # {w}
        BY <1>3, <1>5, <3>1
      <3>2. CASE wtodo[c] = {w}
        <4>1. wphase'[c] = wphase[c] + 1 /\ wtodo'[c] = Group(wphase[c] + 1)
          BY <1>5, <3>2
        <4>2. wphase[c] + 1 \in 2 .. 4 => Group(wphase[c] + 1) # {}
          BY <1>3 DEF Group, Payload
        <4> QED BY <1>3, <4>1, <4>2
      <3> QED BY <3>1, <3>2
    <2>3. wphase'[c] = 1 => \A u \in Markers \ wtodo'[c] : slot'[c][i][u] = 0
      BY <1>2, <1>3, <1>4, <1>5 DEF WriterAt, i, Words
    <2>4. wphase'[c] = 2 => \A u \in Payload \ wtodo'[c] : slot'[c][i][u] = n
      BY <1>2, <1>3, <1>4, <1>5 DEF WriterAt, i, Words, Group
    <2>5. wphase'[c] >= 3 => \A u \in Payload : slot'[c][i][u] = n
      BY <1>2, <1>3, <1>4, <1>5 DEF WriterAt, i, Words, Group, Markers, Payload
    <2> QED BY Zenon, <1>4, <2>1, <2>2, <2>3, <2>4, <2>5 DEF WriterAt, i
  <1>7. MarkersAt(c)'
    <2> SUFFICES ASSUME NEW j \in 0 .. Slots - 1, NEW u \in Markers
                 PROVE  /\ MarkerOK(c, j, slot[c][j][u])'
                        /\ (slot[c][j][u] # 0 => ~Lapped(c, slot[c][j][u]))'
      BY DEF MarkersAt
    <2>1. CASE j = i /\ u = w
      <3>1. slot'[c][j][u] = v
        BY <1>4, <2>1
      <3>2. CASE v = 0
        BY Zenon, <3>1, <3>2 DEF MarkerOK
      <3>3. CASE v = n
        BY <1>3, <1>4, <3>1, <3>3, <2>1, SizesAssumption DEF MarkerOK, Lapped, i
      <3> QED BY <3>2, <3>3
    <2>2. CASE j # i \/ u # w
      <3> DEFINE x == slot[c][j][u]
      <3>1. slot'[c][j][u] = x
        BY <1>4, <2>2 DEF Words
      <3>2. MarkerOK(c, j, x) /\ (x # 0 => ~Lapped(c, x))
        BY Zenon, <1>2 DEF MarkersAt
      <3>3. MarkerOK(c, j, slot[c][j][u])'
        BY <1>4, <3>1, <3>2 DEF MarkerOK
      <3>4. ASSUME x # 0, head[c] + 1 = x + Slots, wphase'[c] >= 2
            PROVE  FALSE
        <4>1. x \in Nat \ {0} /\ Index(x) = j
          BY <1>3, <3>2, <3>4 DEF MarkerOK
        <4>2. j = i
          BY <4>1, <3>4, IndexFacts DEF i
        <4>3. wphase[c] = 1
          BY <1>3, <3>2, <3>4 DEF Lapped
        <4>4. wtodo[c] = {w} /\ u \in Markers \ wtodo[c]
          BY <1>3, <1>5, <3>4, <4>2, <4>3, <2>2
        <4>5. x = 0
          BY Zenon, <1>2, <4>2, <4>3, <4>4 DEF WriterAt, i
        <4> QED BY Zenon, <4>5, <3>4
      <3>5. x # 0 => ~(head[c] >= x + Slots)
        BY <3>2 DEF Lapped
      <3> QED BY <1>4, <3>1, <3>3, <3>4, <3>5 DEF Lapped
    <2> QED BY <2>1, <2>2
  <1>8. PayloadAt(c)'
    <2> SUFFICES ASSUME NEW e \in 1 .. head[c], ~Lapped(c, e)', NEW u \in Payload
                 PROVE  slot'[c][Index(e)][u] = e
      BY <1>4 DEF PayloadAt
    <2>1. ~Lapped(c, e)
      BY <1>3, LappedStable DEF Writer
    <2>2. slot[c][Index(e)][u] = e
      BY <1>2, <2>1 DEF PayloadAt
    <2>3. Index(e) \in 0 .. Slots - 1
      BY <1>3, IndexFacts
    <2>4. CASE Index(e) = i /\ u = w
      <3>1. wphase[c] = 2 /\ wphase'[c] >= 2
        BY <1>3, <1>5, <2>4 DEF Group, Payload, Markers
      <3>2. n >= e + Slots
        BY <1>3, <2>4, IndexFacts DEF i
      <3> QED BY <1>3, <1>4, <3>1, <3>2, SizesAssumption DEF Lapped
    <2>5. CASE Index(e) # i \/ u # w
      BY <1>4, <2>2, <2>3, <2>5 DEF Words
    <2> QED BY Zenon, <2>4, <2>5
  <1> QED BY <1>6, <1>7, <1>8

\* emit_map_event preserves SlotInv on every CPU.
LEMMA WriterSlotInv ==
    ASSUME WriterTypeOK, SlotInv, NEW c \in CPUs, Writer(c)
    PROVE  SlotInv'
  <1>1. (WriterAt(c) /\ MarkersAt(c) /\ PayloadAt(c))'
    BY BeginEmitSlotInv, StoreSlotInv, PublishSlotInv DEF Writer
  <1>2. ASSUME NEW d \in CPUs, d # c
        PROVE  (WriterAt(d) /\ MarkersAt(d) /\ PayloadAt(d))'
    BY <1>2, OtherCPU
  <1> QED BY <1>1, <1>2 DEF SlotInv

-----------------------------------------------------------------------------
(* The reader *)

InSlot == {"copy", "confirm", "judge1", "judge2"}

\* The shards of the batch: each at most once, each with an unread event, the
\* tail never past the cursor value, that value never past the cursor.
BatchInv ==
    /\ rpc # "error"
    /\ \A c \in CPUs : tail[c] <= snap[c] /\ snap[c] <= head[c]
    /\ rpc = "heads" => \A k \in DOMAIN active :
                            \E j \in 0 .. offset - 1 : active[k] = (nextCPU + j) % NumCPU
    /\ \A k, l \in DOMAIN active : active[k] = active[l] => k = l
    /\ \A k \in DOMAIN active : tail[active[k]] < snap[active[k]]
    /\ rpc \in InSlot => active # <<>>
    /\ rpc = "read" => active = <<>> /\ offset = 0

\* What a copy of event e's slot holds where it has been read: e's payload
\* unless the slot is lapped, and markers that belong to the slot.
RawOK(cpu, e, left) ==
    /\ \A w \in Payload \ left : raw[w] = e \/ Lapped(cpu, e)
    /\ \A w \in Markers \ left : MarkerOK(cpu, Index(e), raw[w])

\* A marker that still shows e after the first copy proves that copy whole.
ConfOK(cpu, e, left) ==
    \A w \in Markers \ left :
        /\ MarkerOK(cpu, Index(e), conf[w])
        /\ conf[w] = e => raw["lo"] = e /\ raw["hi"] = e

CopyInv ==
    LET cpu == active[1]
        e == tail[cpu] + 1
    IN  /\ rpc = "copy" => RawOK(cpu, e, rtodo)
        /\ rpc \in InSlot \ {"copy"} => RawOK(cpu, e, {})
        /\ rpc = "judge1" => CommittedSlotSequence(raw) # e
        /\ rpc = "confirm" => rtodo \subseteq Markers /\ ConfOK(cpu, e, rtodo)
        /\ rpc = "judge2" => ConfOK(cpu, e, {})

RecordsInv ==
    /\ NoTornRecord
    /\ PerCPUOrder
    /\ ExactAccounting
    /\ \A c \in CPUs : lastRead[c] <= tail[c]

\* The inductive invariant.
Inv == TypeOK /\ SlotInv /\ BatchInv /\ CopyInv /\ RecordsInv

-----------------------------------------------------------------------------

\* The overflow of a shard stays below the head seen, and is nonzero only
\* when the writer is a ring ahead.
LEMMA OverflowType ==
    ASSUME NEW seen \in Nat, NEW last \in Nat, last <= seen
    PROVE  /\ Overflow(seen, last) \in Nat
           /\ last + Overflow(seen, last) <= seen
           /\ Overflow(seen, last) # 0 => seen >= last + Slots
  BY SizesAssumption DEF Overflow

\* The first shard of the batch, and the ones after it.
LEMMA HeadOfActive ==
    ASSUME ReaderTypeOK, active # <<>>
    PROVE  /\ Head(active) = active[1] /\ active[1] \in CPUs /\ 1 \in DOMAIN active
           /\ Tail(active) \in Seq(CPUs)
           /\ Len(Tail(active)) = Len(active) - 1
           /\ \A k \in DOMAIN Tail(active) : k + 1 \in DOMAIN active /\ Tail(active)[k] = active[k + 1]
  BY DEF ReaderTypeOK

\* The reader's steps keep its types.
LEMMA ReaderType ==
    ASSUME Inv, Reader
    PROVE  ReaderTypeOK' /\ HistoryTypeOK'
  <1>a. WriterTypeOK /\ ReaderTypeOK /\ HistoryTypeOK /\ BatchInv
    BY DEF Inv, TypeOK
  <1>b. /\ tail \in [CPUs -> Nat] /\ snap \in [CPUs -> Nat] /\ lost \in [CPUs -> Nat]
        /\ head \in [CPUs -> Nat] /\ taken \in [CPUs -> Nat]
    BY <1>a DEF WriterTypeOK, ReaderTypeOK, HistoryTypeOK
  <1>1. CASE ReturnRecord
    <2>1. Head(pending) \in Records /\ Tail(pending) \in Seq(Records)
      BY <1>1, <1>a DEF ReturnRecord, ReaderTypeOK
    <2>2. Head(pending).cpu \in CPUs /\ Head(pending).seq \in Nat
      BY <2>1 DEF Records
    <2> QED BY Zenon, <1>1, <1>a, <2>1, <2>2 DEF ReturnRecord, ReaderTypeOK, HistoryTypeOK
  <1>2. CASE StartBatch
    BY <1>2, <1>a DEF StartBatch, ReaderTypeOK, HistoryTypeOK
  <1>3. CASE LookupHead
    <2> DEFINE cpu == (nextCPU + offset) % NumCPU
               o == Overflow(head[cpu], tail[cpu])
    <2>1. nextCPU + offset \in Nat
      BY <1>a, SizesAssumption DEF ReaderTypeOK, CPUs
    <2>2. cpu \in CPUs
      BY <2>1, ShardFacts
    <2> HIDE DEF cpu
    <2>3. head[cpu] \in Nat /\ tail[cpu] \in Nat /\ lost[cpu] \in Nat /\ tail[cpu] <= head[cpu]
      BY <2>2, <1>a, <1>b DEF BatchInv
    <2>4. o \in Nat
      BY <2>3, OverflowType
    <2> HIDE DEF o
    <2>5. /\ snap' = [snap EXCEPT ![cpu] = head[cpu]]
          /\ lost' = [lost EXCEPT ![cpu] = @ + o]
          /\ tail' = [tail EXCEPT ![cpu] = @ + o]
          /\ active' \in {active, Append(active, cpu)}
          /\ offset' = offset + 1
          /\ offset < NumCPU
      BY <1>3, <2>3 DEF LookupHead, RecordLoss, cpu, o
    <2>6. snap' \in [CPUs -> Nat] /\ lost' \in [CPUs -> Nat] /\ tail' \in [CPUs -> Nat]
      BY <2>2, <2>3, <2>4, <2>5, <1>b
    <2>7. active' \in Seq(CPUs) /\ offset' \in 0 .. NumCPU
      <3>1. active \in Seq(CPUs) /\ offset \in 0 .. NumCPU
        BY <1>a DEF ReaderTypeOK
      <3>2. Append(active, cpu) \in Seq(CPUs)
        BY <2>2, <3>1
      <3>3. active' \in Seq(CPUs)
        BY Zenon, <2>5, <3>1, <3>2
      <3>4. offset' \in 0 .. NumCPU
        BY <2>5, <3>1, SizesAssumption
      <3> QED BY <3>3, <3>4
    <2>8. UNCHANGED <<rpc, nextCPU, rtodo, raw, conf, pending, lastRead, taken, examined, waited>>
      BY <1>3, <2>3 DEF LookupHead, cpu
    <2> QED BY Zenon, <1>a, <2>6, <2>7, <2>8 DEF ReaderTypeOK, HistoryTypeOK
  <1>4. CASE SelectSlot
    <2>1. Head(active) \in CPUs
      BY <1>4, <1>a, HeadOfActive DEF SelectSlot
    <2> QED BY Zenon, <1>4, <1>a, <2>1 DEF SelectSlot, ReaderTypeOK, HistoryTypeOK
  <1>5. CASE CopyWord
    <2> DEFINE source == slot[Head(active)][Index(tail[Head(active)] + 1)]
    <2>1. active # <<>>
      BY <1>5, <1>a DEF CopyWord, BatchInv, InSlot
    <2>2. Head(active) \in CPUs
      BY <2>1, <1>a, HeadOfActive
    <2>3. tail[Head(active)] + 1 \in Nat \ {0}
      BY <2>2, <1>b
    <2>a. Index(tail[Head(active)] + 1) \in 0 .. Slots - 1
      BY Zenon, <2>3, IndexFacts
    <2>b. slot \in [CPUs -> [0 .. Slots - 1 -> [Words -> Nat]]]
      BY Zenon, <1>a DEF WriterTypeOK
    <2>4. source \in [Words -> Nat]
      BY Zenon, <2>2, <2>a, <2>b
    <2> HIDE DEF source
    <2>5. raw' \in [Words -> Nat] /\ conf' \in [Words -> Nat]
      BY Zenon, <1>5, <1>a, <2>4 DEF CopyWord, source, ReaderTypeOK
    <2>6. rtodo' \in SUBSET Words
          /\ rpc' \in {"read", "heads", "slots", "copy", "confirm", "judge1", "judge2", "error"}
      BY Zenon, <1>5, <1>a DEF CopyWord, ReaderTypeOK, Words, Markers
    <2> QED BY Zenon, <1>5, <1>a, <2>5, <2>6 DEF CopyWord, ReaderTypeOK, HistoryTypeOK
  <1>6. CASE Judge
    <2> DEFINE cpu == Head(active)
               seq == CommittedSlotSequence(IF rpc = "judge1" THEN raw ELSE conf)
               ll == LastLost(seq, snap[cpu])
    <2>1. active # <<>>
      BY <1>6, <1>a DEF Judge, BatchInv, InSlot
    <2>2. cpu \in CPUs /\ cpu \in Nat /\ Tail(active) \in Seq(CPUs)
      BY <2>1, <1>a, HeadOfActive DEF CPUs
    <2>3. seq \in Nat
      BY <1>a DEF CommittedSlotSequence, ReaderTypeOK, Words, Markers
    <2>4. tail[cpu] < snap[cpu]
      BY <2>1, <1>a, HeadOfActive DEF BatchInv
    <2> DEFINE record == [cpu |-> cpu, seq |-> tail[cpu] + 1, lo |-> raw["lo"], hi |-> raw["hi"]]
    <2>5. record \in Records
      <3>1. raw["lo"] \in Nat /\ raw["hi"] \in Nat
        BY <1>a DEF ReaderTypeOK, Words, Payload
      <3>2. tail[cpu] + 1 \in Nat
        BY <2>2, <1>b
      <3> HIDE DEF cpu
      <3> QED BY <2>2, <3>1, <3>2 DEF Records
    <2>6. ShardAfter(cpu) \in CPUs
      BY <2>2, ShardFacts DEF ShardAfter
    <2>7. tail[cpu] \in Nat /\ snap[cpu] \in Nat /\ lost[cpu] \in Nat /\ taken[cpu] \in Nat
      BY <2>2, <1>b
    <2>8. seq > tail[cpu] + 1 => ll \in Nat /\ ll >= tail[cpu]
      BY <2>3, <2>4, <2>7 DEF LastLost
    <2>9. /\ rpc' = "slots" /\ nextCPU' = ShardAfter(cpu)
          /\ raw' = EmptySlot /\ conf' = EmptySlot
          /\ UNCHANGED <<snap, offset, rtodo, lastRead, examined, waited>>
      BY <1>6 DEF Judge
    <2>10. \/ /\ tail' = [tail EXCEPT ![cpu] = tail[cpu] + 1]
              /\ pending' = Append(pending, record)
              /\ taken' = [taken EXCEPT ![cpu] = @ + 1]
              /\ active' \in {Tail(active), Append(Tail(active), cpu)}
              /\ lost' = lost
           \/ /\ seq > tail[cpu] + 1
              /\ lost' = [lost EXCEPT ![cpu] = @ + (ll - tail[cpu])]
              /\ tail' = [tail EXCEPT ![cpu] = ll]
              /\ active' = Tail(active)
              /\ pending' = pending /\ taken' = taken
           \/ /\ active' = Tail(active)
              /\ UNCHANGED <<tail, lost, pending, taken>>
      BY <1>6 DEF Judge, RecordLoss
    <2> HIDE DEF cpu, seq, ll, record
    <2>11. /\ tail' \in [CPUs -> Nat] /\ lost' \in [CPUs -> Nat] /\ taken' \in [CPUs -> Nat]
      <3>1. CASE tail' = [tail EXCEPT ![cpu] = tail[cpu] + 1] /\ lost' = lost
                 /\ taken' = [taken EXCEPT ![cpu] = @ + 1]
        <4>1. tail[cpu] + 1 \in Nat /\ taken[cpu] + 1 \in Nat
          BY <2>7
        <4> QED BY Zenon, <1>b, <2>2, <3>1, <4>1
      <3>2. CASE /\ seq > tail[cpu] + 1 /\ lost' = [lost EXCEPT ![cpu] = @ + (ll - tail[cpu])]
                 /\ tail' = [tail EXCEPT ![cpu] = ll] /\ taken' = taken
        <4>1. ll \in Nat /\ lost[cpu] + (ll - tail[cpu]) \in Nat
          BY <2>7, <2>8, <3>2
        <4> QED BY Zenon, <1>b, <2>2, <3>2, <4>1
      <3>3. CASE UNCHANGED <<tail, lost, taken>>
        BY <1>b, <3>3
      <3> QED BY <2>10, <3>1, <3>2, <3>3
    <2>12. active' \in Seq(CPUs)
      BY <2>2, <2>10
    <2>13. pending' \in Seq(Records)
      <3>1. pending \in Seq(Records)
        BY <1>a DEF ReaderTypeOK
      <3> QED BY <2>5, <2>10, <3>1
    <2>14. EmptySlot \in [Words -> Nat]
      BY DEF EmptySlot
    <2> QED BY Zenon, <1>a, <2>6, <2>9, <2>11, <2>12, <2>13, <2>14 DEF ReaderTypeOK, HistoryTypeOK
  <1>7. CASE FinishBatch
    <2>1. pending' \in Seq(Records)
      <3>1. PICK perm \in [DOMAIN pending -> DOMAIN pending] :
              pending' = [k \in DOMAIN pending |-> pending[perm[k]]]
        BY <1>7 DEF FinishBatch
      <3>2. pending \in Seq(Records)
        BY <1>a DEF ReaderTypeOK
      <3> QED BY <3>1, <3>2
    <2>2. waited' \in [CPUs -> Nat]
      BY <1>7, <1>a DEF FinishBatch, HistoryTypeOK
    <2>3. offset' \in 0 .. NumCPU /\ active' \in Seq(CPUs) /\ examined' \in SUBSET CPUs
          /\ rpc' = "read"
      BY <1>7, SizesAssumption DEF FinishBatch
    <2>4. UNCHANGED <<tail, snap, lost, nextCPU, rtodo, raw, conf, lastRead, taken>>
      BY <1>7 DEF FinishBatch
    <2> QED BY Zenon, <1>a, <2>1, <2>2, <2>3, <2>4 DEF ReaderTypeOK, HistoryTypeOK
  <1> QED BY <1>1, <1>2, <1>3, <1>4, <1>5, <1>6, <1>7 DEF Reader
-----------------------------------------------------------------------------
(* A writer step leaves the reader's part of the invariant true. *)

\* emit_map_event, at any point of the reader's scan, preserves the invariant.
LEMMA WriterKeeps ==
    ASSUME Inv, NEW c \in CPUs, Writer(c)
    PROVE  Inv'
  <1>1. WriterTypeOK /\ ReaderTypeOK /\ HistoryTypeOK /\ SlotInv /\ BatchInv /\ CopyInv /\ RecordsInv
    BY DEF Inv, TypeOK
  <1>2. rvars' = rvars
    BY DEF Writer, BeginEmit, Store, Publish
  <1>3. \A d \in CPUs : head[d] \in Nat /\ head'[d] \in Nat /\ head[d] <= head'[d]
    BY <1>1 DEF Writer, BeginEmit, Store, Publish, WriterTypeOK
  <1>4. TypeOK'
    BY Zenon, <1>1, <1>2, WriterType DEF TypeOK, ReaderTypeOK, HistoryTypeOK, rvars
  <1>5. SlotInv'
    BY <1>1, WriterSlotInv
  <1>6. BatchInv'
    <2>1. \A d \in CPUs : snap[d] \in Nat
      BY <1>1, Zenon DEF ReaderTypeOK
    <2> QED BY <1>1, <1>2, <1>3, <2>1 DEF BatchInv, rvars
  <1>7. RecordsInv'
    BY <1>1, <1>2 DEF RecordsInv, NoTornRecord, PerCPUOrder, ExactAccounting, rvars
  <1>8. CopyInv'
    <2>1. CASE rpc \notin InSlot
      BY Zenon, <1>2, <2>1 DEF CopyInv, InSlot, rvars
    <2>2. CASE rpc \in InSlot
      <3>1. active # <<>> /\ active[1] \in CPUs
        BY <1>1, <2>2, HeadOfActive DEF BatchInv
      <3>2. PICK cpu \in CPUs, e \in Nat : cpu = active[1] /\ e = tail[cpu] + 1
        BY <1>1, <3>1 DEF ReaderTypeOK
      <3>3. cpu = active'[1] /\ e = tail'[cpu] + 1
        BY <1>2, <3>2 DEF rvars
      <3>4. Lapped(cpu, e) => Lapped(cpu, e)'
        BY <1>1, LappedStable
      <3>5. \A v \in Nat : MarkerOK(cpu, Index(e), v) => MarkerOK(cpu, Index(e), v)'
        BY <1>3 DEF MarkerOK
      <3>6. \A w \in Markers : raw[w] \in Nat /\ conf[w] \in Nat
        BY <1>1 DEF ReaderTypeOK, Words
      <3>7. ASSUME NEW left, RawOK(cpu, e, left) PROVE RawOK(cpu, e, left)'
        BY <1>2, <3>4, <3>5, <3>6, <3>7 DEF RawOK, rvars
      <3>8. ASSUME NEW left, ConfOK(cpu, e, left) PROVE ConfOK(cpu, e, left)'
        BY <1>2, <3>5, <3>6, <3>8 DEF ConfOK, rvars
      <3>9. /\ rpc = "copy" => RawOK(cpu, e, rtodo)
            /\ rpc \in InSlot \ {"copy"} => RawOK(cpu, e, {})
            /\ rpc = "judge1" => CommittedSlotSequence(raw) # e
            /\ rpc = "confirm" => rtodo \subseteq Markers /\ ConfOK(cpu, e, rtodo)
            /\ rpc = "judge2" => ConfOK(cpu, e, {})
        BY <1>1, <3>2 DEF CopyInv
      <3> QED BY Zenon, <1>2, <3>3, <3>7, <3>8, <3>9 DEF CopyInv, rvars, RawOK, ConfOK, CommittedSlotSequence
    <2> QED BY <2>1, <2>2
  <1> QED BY <1>4, <1>5, <1>6, <1>7, <1>8 DEF Inv
-----------------------------------------------------------------------------
(* The reader's steps *)

\* LookupHead moves the tail of a shard that is not yet active, and never
\* reports a regressed cursor.
LEMMA LookupHeadBatch ==
    ASSUME Inv, LookupHead
    PROVE  BatchInv'
  <1> DEFINE cpu == (nextCPU + offset) % NumCPU
             o == Overflow(head[cpu], tail[cpu])
  <1>1. ReaderTypeOK /\ BatchInv /\ head \in [CPUs -> Nat] /\ tail \in [CPUs -> Nat]
        /\ snap \in [CPUs -> Nat]
    BY Zenon DEF Inv, TypeOK, ReaderTypeOK, WriterTypeOK
  <1>2. nextCPU \in Nat /\ offset \in Nat /\ offset < NumCPU /\ nextCPU + offset \in Nat
        /\ rpc = "heads"
    BY <1>1, SizesAssumption DEF LookupHead, ReaderTypeOK, CPUs
  <1>3. cpu \in CPUs
    BY <1>2, ShardFacts
  <1>4. tail[cpu] <= head[cpu] /\ head[cpu] \in Nat /\ tail[cpu] \in Nat
    BY <1>1, <1>3 DEF BatchInv
  <1>5. o \in Nat /\ tail[cpu] + o <= head[cpu]
    BY <1>4, OverflowType
  <1>6. ASSUME NEW k \in DOMAIN active PROVE active[k] # cpu
    <2>1. PICK j \in 0 .. offset - 1 : active[k] = (nextCPU + j) % NumCPU
      BY Zenon, <1>1, <1>2, <1>6 DEF BatchInv
    <2>2. j \in Nat /\ j < NumCPU /\ j # offset
      BY <1>2, SizesAssumption
    <2>3. (nextCPU + j) % NumCPU = (nextCPU + offset) % NumCPU => j = offset
      BY Zenon, <1>2, <2>2, ShardFacts
    <2> QED BY <2>1, <2>2, <2>3
  <1> HIDE DEF cpu, o
  <1>7. /\ snap' = [snap EXCEPT ![cpu] = head[cpu]]
        /\ tail' = [tail EXCEPT ![cpu] = tail[cpu] + o]
        /\ active' = IF tail[cpu] + o < head[cpu] THEN Append(active, cpu) ELSE active
        /\ offset' = offset + 1
        /\ UNCHANGED <<head, nextCPU, rpc>>
    BY <1>4 DEF LookupHead, cpu, o, wvars
  <1>8. active \in Seq(CPUs)
    BY <1>1 DEF ReaderTypeOK
  <1>9. \A c \in CPUs : tail'[c] <= snap'[c] /\ snap'[c] <= head'[c]
    BY <1>1, <1>3, <1>4, <1>5, <1>7 DEF BatchInv
  <1>10. \A k \in DOMAIN active : tail'[active[k]] < snap'[active[k]]
    BY <1>1, <1>6, <1>7, <1>8 DEF BatchInv
  <1>11. \A k \in DOMAIN active :
            \E j \in 0 .. offset' - 1 : active[k] = (nextCPU + j) % NumCPU
    <2> SUFFICES ASSUME NEW k \in DOMAIN active
                 PROVE  \E j \in 0 .. offset' - 1 : active[k] = (nextCPU + j) % NumCPU
      OBVIOUS
    <2>1. PICK j \in 0 .. offset - 1 : active[k] = (nextCPU + j) % NumCPU
      BY Zenon, <1>1, <1>2 DEF BatchInv
    <2>2. j \in 0 .. offset' - 1
      BY <1>2, <1>7
    <2> QED BY <2>1, <2>2
  <1>12. \A k, l \in DOMAIN active : active[k] = active[l] => k = l
    BY <1>1 DEF BatchInv
  <1>13. CASE active' = active
    BY <1>2, <1>7, <1>9, <1>10, <1>11, <1>12, <1>13 DEF BatchInv, InSlot
  <1>14. CASE active' = Append(active, cpu) /\ tail[cpu] + o < head[cpu]
    <2>1. DOMAIN active' = 1 .. Len(active) + 1 /\ active'[Len(active) + 1] = cpu
          /\ DOMAIN active = 1 .. Len(active) /\ Len(active) \in Nat
          /\ \A k \in DOMAIN active : active'[k] = active[k]
      BY <1>3, <1>8, <1>14
    <2>2. \A k \in DOMAIN active' : k \in DOMAIN active \/ k = Len(active) + 1
      BY <2>1
    <2>3. tail'[cpu] < snap'[cpu]
      BY <1>1, <1>3, <1>7, <1>14
    <2>4. \A k \in DOMAIN active' : tail'[active'[k]] < snap'[active'[k]]
      BY <1>10, <2>1, <2>2, <2>3
    <2>5. \A k, l \in DOMAIN active' : active'[k] = active'[l] => k = l
      BY <1>6, <1>12, <2>1, <2>2
    <2>6. \E j \in 0 .. offset' - 1 : cpu = (nextCPU + j) % NumCPU
      <3>1. offset \in 0 .. offset' - 1
        BY <1>2, <1>7
      <3> QED BY <3>1 DEF cpu
    <2>7. \A k \in DOMAIN active' :
            \E j \in 0 .. offset' - 1 : active'[k] = (nextCPU + j) % NumCPU
      BY <1>11, <2>1, <2>2, <2>6
    <2> QED BY Zenon, <1>2, <1>7, <1>9, <2>4, <2>5, <2>7 DEF BatchInv, InSlot
  <1> QED BY <1>7, <1>13, <1>14

\* Judge keeps the served shard's tail within its cursor value and queues it
\* again, behind the others, only while events are unread.
LEMMA JudgeBatch ==
    ASSUME Inv, Judge
    PROVE  BatchInv'
  <1> DEFINE cpu == active[1]
             seq == CommittedSlotSequence(IF rpc = "judge1" THEN raw ELSE conf)
             ll == LastLost(seq, snap[cpu])
             rest == Tail(active)
  <1>1. ReaderTypeOK /\ BatchInv /\ head \in [CPUs -> Nat] /\ tail \in [CPUs -> Nat]
        /\ snap \in [CPUs -> Nat]
    BY Zenon DEF Inv, TypeOK, ReaderTypeOK, WriterTypeOK
  <1>2. active # <<>>
    BY <1>1 DEF Judge, BatchInv, InSlot
  <1>3. /\ Head(active) = cpu /\ cpu \in CPUs /\ 1 \in DOMAIN active
        /\ rest \in Seq(CPUs)
        /\ \A k \in DOMAIN rest : k + 1 \in DOMAIN active /\ rest[k] = active[k + 1]
    BY <1>1, <1>2, HeadOfActive
  <1>4. DOMAIN rest \subseteq Nat \ {0}
    BY <1>3
  <1>5. /\ \A k \in DOMAIN rest : rest[k] # cpu /\ rest[k] \in CPUs
        /\ \A k, l \in DOMAIN rest : rest[k] = rest[l] => k = l
        /\ \A k \in DOMAIN rest : tail[rest[k]] < snap[rest[k]]
    BY <1>1, <1>3, <1>4 DEF BatchInv
  <1>6. seq \in Nat
    BY <1>1 DEF CommittedSlotSequence, ReaderTypeOK, Words, Markers
  <1>7. tail[cpu] < snap[cpu] /\ tail[cpu] \in Nat /\ snap[cpu] \in Nat
    BY <1>1, <1>3 DEF BatchInv
  <1>8. seq > tail[cpu] + 1 => ll \in Nat /\ ll <= snap[cpu]
    BY <1>6, <1>7 DEF LastLost
  <1>9. rpc' = "slots" /\ UNCHANGED <<head, snap>>
    BY DEF Judge, wvars
  <1>10. PICK t \in Nat :
            /\ tail' = [tail EXCEPT ![cpu] = t] /\ t <= snap[cpu]
            /\ \/ active' = rest
               \/ active' = Append(rest, cpu) /\ t < snap[cpu]
    <2>1. CASE seq = tail[cpu] + 1
      <3>1. /\ tail' = [tail EXCEPT ![cpu] = tail[cpu] + 1]
            /\ active' = IF tail[cpu] + 1 < snap[cpu] THEN Append(rest, cpu) ELSE rest
        BY <1>3, <1>6, <1>7, <2>1 DEF Judge
      <3>2. tail[cpu] + 1 \in Nat /\ tail[cpu] + 1 <= snap[cpu]
        BY <1>7
      <3> QED BY Zenon, <3>1, <3>2
    <2>2. CASE seq > tail[cpu] + 1
      <3>1. tail' = [tail EXCEPT ![cpu] = ll] /\ active' = rest
        BY <1>3, <1>6, <1>7, <2>2 DEF Judge
      <3>2. ll \in Nat /\ ll <= snap[cpu]
        BY <1>8, <2>2
      <3> HIDE DEF ll, cpu, rest
      <3> QED BY Zenon, <3>1, <3>2
    <2>3. CASE seq < tail[cpu] + 1
      <3>1. tail' = tail /\ active' = rest
        BY <1>3, <1>6, <1>7, <2>3 DEF Judge
      <3>2. tail' = [tail EXCEPT ![cpu] = tail[cpu]]
        BY <1>1, <3>1
      <3>3. tail[cpu] \in Nat /\ tail[cpu] <= snap[cpu]
        BY <1>7
      <3> HIDE DEF cpu, rest
      <3> QED BY Zenon, <3>1, <3>2, <3>3
    <2> QED BY <1>6, <1>7, <2>1, <2>2, <2>3
  <1> HIDE DEF cpu, rest, seq, ll
  <1>11. \A c \in CPUs : tail'[c] <= snap'[c] /\ snap'[c] <= head'[c]
    BY <1>1, <1>9, <1>10 DEF BatchInv
  <1>12. \A k \in DOMAIN rest : tail'[rest[k]] < snap'[rest[k]]
    BY <1>1, <1>5, <1>9, <1>10
  <1>13. CASE active' = rest
    BY <1>5, <1>9, <1>11, <1>12, <1>13 DEF BatchInv, InSlot
  <1>14. CASE active' = Append(rest, cpu) /\ t < snap[cpu]
    <2>1. DOMAIN active' = 1 .. Len(rest) + 1 /\ active'[Len(rest) + 1] = cpu
          /\ DOMAIN rest = 1 .. Len(rest) /\ Len(rest) \in Nat
          /\ \A k \in DOMAIN rest : active'[k] = rest[k]
      BY <1>3, <1>14
    <2>2. \A k \in DOMAIN active' : k \in DOMAIN rest \/ k = Len(rest) + 1
      BY <2>1
    <2>3. tail'[cpu] < snap'[cpu]
      BY <1>1, <1>3, <1>9, <1>10, <1>14
    <2>4. \A k \in DOMAIN active' : tail'[active'[k]] < snap'[active'[k]]
      BY <1>12, <2>1, <2>2, <2>3
    <2>5. \A k, l \in DOMAIN active' : active'[k] = active'[l] => k = l
      BY <1>5, <2>1, <2>2
    <2> QED BY <1>9, <1>11, <2>4, <2>5 DEF BatchInv, InSlot
  <1> QED BY Zenon, <1>10, <1>13, <1>14

\* Every step of the reader preserves BatchInv.
LEMMA ReaderBatch ==
    ASSUME Inv, Reader
    PROVE  BatchInv'
  <1>1. BatchInv
    BY DEF Inv
  <1>2. CASE ReturnRecord
    BY <1>1, <1>2 DEF ReturnRecord, BatchInv, InSlot, wvars
  <1>3. CASE StartBatch
    BY <1>1, <1>3 DEF StartBatch, BatchInv, InSlot, wvars
  <1>4. CASE LookupHead
    BY <1>4, LookupHeadBatch
  <1>5. CASE SelectSlot
    BY Zenon, <1>1, <1>5 DEF SelectSlot, BatchInv, InSlot, wvars
  <1>6. CASE CopyWord
    <2>1. rpc' \in InSlot /\ active # <<>>
      BY Zenon, <1>1, <1>6 DEF CopyWord, InSlot, BatchInv
    <2> QED BY Zenon, <1>1, <1>6, <2>1 DEF CopyWord, BatchInv, InSlot, wvars
  <1>7. CASE Judge
    BY Zenon, <1>7, JudgeBatch
  <1>8. CASE FinishBatch
    BY <1>1, <1>8 DEF FinishBatch, BatchInv, InSlot, wvars
  <1> QED BY <1>2, <1>3, <1>4, <1>5, <1>6, <1>7, <1>8 DEF Reader
\* What a word of event e's slot can be while the reader looks for e.
LEMMA SourceFacts ==
    ASSUME Inv, rpc \in InSlot
    PROVE  LET cpu == active[1]
               e == tail[cpu] + 1
               source == slot[cpu][Index(e)]
           IN  /\ cpu \in CPUs /\ e \in Nat \ {0} /\ e <= snap[cpu] /\ e <= head[cpu]
               /\ \A w \in Payload : source[w] = e \/ Lapped(cpu, e)
               /\ \A w \in Markers : MarkerOK(cpu, Index(e), source[w])
               /\ \A w \in Markers : source[w] = e => ~Lapped(cpu, e)
  <1> DEFINE cpu == active[1]
             e == tail[cpu] + 1
  <1>1. WriterTypeOK /\ ReaderTypeOK /\ SlotInv /\ BatchInv
    BY DEF Inv, TypeOK
  <1>2. active # <<>> /\ cpu \in CPUs /\ 1 \in DOMAIN active
    BY <1>1, HeadOfActive DEF BatchInv
  <1>3. tail[cpu] < snap[cpu] /\ snap[cpu] <= head[cpu]
    BY <1>1, <1>2 DEF BatchInv
  <1>4. tail[cpu] \in Nat /\ snap[cpu] \in Nat /\ head[cpu] \in Nat
    BY <1>1, <1>2 DEF ReaderTypeOK, WriterTypeOK
  <1>5. e \in Nat \ {0} /\ e <= snap[cpu] /\ e <= head[cpu] /\ e \in 1 .. head[cpu]
    BY <1>3, <1>4
  <1>6. Index(e) \in 0 .. Slots - 1
    BY <1>5, IndexFacts
  <1>7. MarkersAt(cpu) /\ PayloadAt(cpu)
    BY <1>1, <1>2 DEF SlotInv
  <1> HIDE DEF cpu, e
  <1>8. \A w \in Payload : slot[cpu][Index(e)][w] = e \/ Lapped(cpu, e)
    BY Zenon, <1>5, <1>7 DEF PayloadAt
  <1>9. \A w \in Markers :
            /\ MarkerOK(cpu, Index(e), slot[cpu][Index(e)][w])
            /\ slot[cpu][Index(e)][w] = e => ~Lapped(cpu, e)
    <2> SUFFICES ASSUME NEW w \in Markers
                 PROVE  /\ MarkerOK(cpu, Index(e), slot[cpu][Index(e)][w])
                        /\ slot[cpu][Index(e)][w] = e => ~Lapped(cpu, e)
      BY Zenon
    <2>1. /\ MarkerOK(cpu, Index(e), slot[cpu][Index(e)][w])
          /\ slot[cpu][Index(e)][w] # 0 => ~Lapped(cpu, slot[cpu][Index(e)][w])
      BY Zenon, <1>6, <1>7 DEF MarkersAt
    <2> QED BY <1>5, <2>1
  <1> QED BY <1>2, <1>5, <1>8, <1>9 DEF cpu, e

\* Copying one more word of a slot preserves CopyInv, whatever the writer has
\* done to the slot since the previous word.
LEMMA CopyWordCopy ==
    ASSUME Inv, CopyWord
    PROVE  CopyInv'
  <1>1. rpc \in InSlot /\ ReaderTypeOK /\ CopyInv /\ active # <<>>
    BY Zenon DEF Inv, TypeOK, CopyWord, InSlot, BatchInv
  <1>2. PICK cpu \in CPUs, e \in Nat \ {0} :
          /\ cpu = active[1] /\ e = tail[cpu] + 1
          /\ \A w \in Payload : slot[cpu][Index(e)][w] = e \/ Lapped(cpu, e)
          /\ \A w \in Markers : MarkerOK(cpu, Index(e), slot[cpu][Index(e)][w])
          /\ \A w \in Markers : slot[cpu][Index(e)][w] = e => ~Lapped(cpu, e)
    BY Zenon, <1>1, SourceFacts
  <1> DEFINE source == slot[cpu][Index(e)]
  <1>3. Head(active) = cpu
    BY Zenon, <1>1, <1>2, HeadOfActive
  <1>4. PICK w \in rtodo :
          /\ raw' = IF rpc = "copy" THEN [raw EXCEPT ![w] = source[w]] ELSE raw
          /\ conf' = IF rpc = "confirm" THEN [conf EXCEPT ![w] = source[w]] ELSE conf
          /\ IF rtodo # {w}
             THEN rtodo' = rtodo \ {w} /\ rpc' = rpc
             ELSE IF rpc = "copy" /\ NeedsConfirm(raw', e)
                  THEN rtodo' = Markers /\ rpc' = "confirm"
                  ELSE rtodo' = {} /\ rpc' = IF rpc = "copy" THEN "judge1" ELSE "judge2"
    BY Zenon, <1>2, <1>3 DEF CopyWord
  <1>5. UNCHANGED <<head, wphase, slot, tail, active>>
    BY Zenon DEF CopyWord, wvars
  <1>6. cpu = active'[1] /\ e = tail'[cpu] + 1
    BY <1>2, <1>5
  <1>7. w \in Words /\ raw \in [Words -> Nat] /\ conf \in [Words -> Nat]
        /\ Payload \subseteq Words /\ Markers \subseteq Words
    BY Zenon, <1>1, <1>4 DEF ReaderTypeOK, Words
  <1>8. Lapped(cpu, e)' <=> Lapped(cpu, e)
    BY <1>5 DEF Lapped
  <1>9. \A v : MarkerOK(cpu, Index(e), v)' <=> MarkerOK(cpu, Index(e), v)
    BY <1>5 DEF MarkerOK
  <1> HIDE DEF source
  <1>10. CASE rpc = "copy"
    <2>1. RawOK(cpu, e, rtodo)
      BY <1>1, <1>2, <1>10 DEF CopyInv
    <2>2. raw' = [raw EXCEPT ![w] = source[w]]
      BY Zenon, <1>4, <1>10
    <2>3. \A u \in Payload \ (rtodo \ {w}) : raw'[u] = e \/ Lapped(cpu, e)
      BY Zenon, <1>2, <1>7, <2>1, <2>2 DEF RawOK, source
    <2>4. \A u \in Markers \ (rtodo \ {w}) : MarkerOK(cpu, Index(e), raw'[u])
      BY Zenon, <1>2, <1>7, <2>1, <2>2 DEF RawOK, source
    <2>5. CASE rtodo # {w}
      <3>1. rpc' = "copy" /\ rtodo' = rtodo \ {w}
        BY Zenon, <1>4, <1>10, <2>5
      <3>2. RawOK(cpu, e, rtodo)'
        BY <1>8, <1>9, <2>3, <2>4, <3>1 DEF RawOK, MarkerOK
      <3> QED BY <1>6, <3>1, <3>2 DEF CopyInv, InSlot
    <2>6. CASE rtodo = {w}
      <3>1. RawOK(cpu, e, {})'
        BY Zenon, <1>8, <1>9, <2>3, <2>4, <2>6 DEF RawOK, MarkerOK
      <3>2. CASE NeedsConfirm(raw', e)
        <4>1. rpc' = "confirm" /\ rtodo' = Markers
          BY <1>4, <1>10, <2>6, <3>2
        <4>2. ConfOK(cpu, e, rtodo)'
          BY <4>1, Zenon DEF ConfOK
        <4> QED BY <1>6, <3>1, <4>1, <4>2 DEF CopyInv, InSlot
      <3>3. CASE ~NeedsConfirm(raw', e)
        <4>1. rpc' = "judge1"
          BY <1>4, <1>10, <2>6, <3>3
        <4>2. (CommittedSlotSequence(raw) # e)'
          BY Zenon, <3>3 DEF NeedsConfirm, CommittedSlotSequence
        <4> QED BY <1>6, <3>1, <4>1, <4>2 DEF CopyInv, InSlot
      <3> QED BY Zenon, <3>2, <3>3
    <2> QED BY Zenon, <2>5, <2>6
  <1>11. CASE rpc = "confirm"
    <2>1. RawOK(cpu, e, {}) /\ ConfOK(cpu, e, rtodo) /\ rtodo \subseteq Markers
      BY <1>1, <1>2, <1>11 DEF CopyInv, InSlot
    <2>2. raw' = raw /\ conf' = [conf EXCEPT ![w] = source[w]]
      BY Zenon, <1>4, <1>11
    <2>3. source[w] = e => raw["lo"] = e /\ raw["hi"] = e
      BY Zenon, <1>2, <1>4, <2>1 DEF RawOK, Payload, source
    <2>4. \A u \in Markers \ (rtodo \ {w}) :
            /\ MarkerOK(cpu, Index(e), conf'[u])
            /\ conf'[u] = e => raw["lo"] = e /\ raw["hi"] = e
      BY Zenon, <1>2, <1>7, <2>1, <2>2, <2>3 DEF ConfOK, source
    <2>5. RawOK(cpu, e, {})'
      BY Zenon, <1>8, <1>9, <2>1, <2>2 DEF RawOK, MarkerOK
    <2>6. CASE rtodo # {w}
      <3>1. rpc' = "confirm" /\ rtodo' = rtodo \ {w}
        BY Zenon, <1>4, <1>11, <2>6
      <3>2. ConfOK(cpu, e, rtodo)'
        BY Zenon, <1>9, <2>2, <2>4, <3>1 DEF ConfOK, MarkerOK
      <3> QED BY <1>6, <2>1, <2>5, <3>1, <3>2 DEF CopyInv, InSlot
    <2>7. CASE rtodo = {w}
      <3>1. rpc' = "judge2"
        BY Zenon, <1>4, <1>11, <2>7
      <3>2. ConfOK(cpu, e, {})'
        BY <1>9, <2>2, <2>4, <2>7 DEF ConfOK, MarkerOK
      <3> QED BY <1>6, <2>5, <3>1, <3>2 DEF CopyInv, InSlot
    <2> QED BY Zenon, <2>6, <2>7
  <1> QED BY Zenon, <1>10, <1>11 DEF CopyWord

\* Every step of the reader preserves CopyInv.
LEMMA ReaderCopy ==
    ASSUME Inv, Reader
    PROVE  CopyInv'
  <1>1. CASE CopyWord
    BY Zenon, <1>1, CopyWordCopy
  <1>2. CASE SelectSlot
    <2>1. rpc' = "copy" /\ rtodo' = Words
      BY <1>2, Zenon DEF SelectSlot
    <2> QED BY <2>1 DEF CopyInv, RawOK, InSlot, Words
  <1>3. CASE rpc' \notin InSlot
    BY <1>3 DEF CopyInv, InSlot
  <1>4. CASE ReturnRecord \/ StartBatch \/ LookupHead \/ Judge \/ FinishBatch
    <2>1. rpc' \notin InSlot
      BY <1>4, Zenon DEF ReturnRecord, StartBatch, LookupHead, Judge, FinishBatch, InSlot
    <2> QED BY Zenon, <1>3, <2>1
  <1> QED BY Zenon, <1>1, <1>2, <1>4 DEF Reader

-----------------------------------------------------------------------------
(* Records *)

\* What Judge may conclude: the expected event was copied whole, or a later
\* one shows that the ring went round.
LEMMA JudgeFacts ==
    ASSUME Inv, Judge
    PROVE  LET cpu == Head(active)
               e == tail[cpu] + 1
               seq == CommittedSlotSequence(IF rpc = "judge1" THEN raw ELSE conf)
           IN  /\ cpu \in CPUs /\ e \in Nat \ {0} /\ e <= snap[cpu] /\ e <= head[cpu]
               /\ seq \in Nat
               /\ seq = e => raw["lo"] = e /\ raw["hi"] = e
               /\ seq > e => head[cpu] >= tail[cpu] + Slots
  <1> DEFINE copy == IF rpc = "judge1" THEN raw ELSE conf
             seq == CommittedSlotSequence(copy)
  <1>1. /\ rpc \in InSlot \ {"copy"} /\ rpc \in {"judge1", "judge2"}
        /\ ReaderTypeOK /\ CopyInv /\ active # <<>> /\ WriterTypeOK
    BY Zenon DEF Inv, TypeOK, Judge, InSlot, BatchInv
  <1>2. PICK cpu \in CPUs, e \in Nat \ {0} :
          cpu = active[1] /\ e = tail[cpu] + 1 /\ e <= snap[cpu] /\ e <= head[cpu]
    BY <1>1, SourceFacts, Zenon
  <1>3. Head(active) = cpu /\ tail[cpu] \in Nat /\ head[cpu] \in Nat
    BY <1>1, <1>2, HeadOfActive DEF ReaderTypeOK, WriterTypeOK
  <1>4. /\ RawOK(cpu, e, {})
        /\ rpc = "judge1" => CommittedSlotSequence(raw) # e
        /\ rpc = "judge2" => ConfOK(cpu, e, {})
    BY <1>1, <1>2 DEF CopyInv
  <1>5. copy["seq"] \in Nat /\ MarkerOK(cpu, Index(e), copy["seq"])
    BY Zenon, <1>1, <1>4 DEF RawOK, ConfOK, Markers, Words, ReaderTypeOK
  <1>6. seq \in {0, copy["seq"]} /\ (seq # 0 => seq = copy["seq"])
    BY DEF CommittedSlotSequence
  <1>7. seq = e => raw["lo"] = e /\ raw["hi"] = e
    <2> SUFFICES ASSUME seq = e PROVE raw["lo"] = e /\ raw["hi"] = e
      OBVIOUS
    <2>1. rpc = "judge2" /\ copy = conf /\ conf["seq"] = e
      BY Zenon, <1>1, <1>2, <1>4, <1>6
    <2> QED BY <1>4, <2>1 DEF ConfOK, Markers
  <1>8. seq > e => head[cpu] >= tail[cpu] + Slots
    <2> SUFFICES ASSUME seq > e PROVE head[cpu] >= tail[cpu] + Slots
      BY Zenon
    <2> DEFINE q == copy["seq"]
    <2>1. seq = q /\ q \in Nat /\ q > e
      BY <1>2, <1>5, <1>6
    <2>2. MarkerOK(cpu, Index(e), q)
      BY <1>5
    <2> HIDE DEF q
    <2>3. q \in 1 .. head[cpu] + 1 /\ Index(q) = Index(e) /\ q \in Nat \ {0}
      BY <1>2, <1>3, <2>1, <2>2 DEF MarkerOK
    <2>4. q >= e + Slots
      BY <1>2, <2>1, <2>3, IndexFacts
    <2> QED BY <1>2, <1>3, <2>3, <2>4, SizesAssumption
  <1>9. seq \in Nat
    BY <1>5, <1>6
  <1> HIDE DEF seq
  <1> QED BY <1>2, <1>3, <1>7, <1>8, <1>9, Zenon DEF seq

\* The records of the batch are indexed and typed.
LEMMA PendingFacts ==
    ASSUME Inv
    PROVE  /\ pending \in Seq(Records)
           /\ DOMAIN pending = 1 .. Len(pending) /\ Len(pending) \in Nat
           /\ \A k \in DOMAIN pending : pending[k].cpu \in CPUs /\ pending[k].seq \in Nat
  <1>1. pending \in Seq(Records)
    BY DEF Inv, TypeOK, ReaderTypeOK
  <1>2. ASSUME NEW k \in DOMAIN pending
        PROVE  pending[k].cpu \in CPUs /\ pending[k].seq \in Nat
    <2>1. pending[k] \in Records
      BY <1>1
    <2> QED BY <2>1 DEF Records
  <1>3. DOMAIN pending = 1 .. Len(pending) /\ Len(pending) \in Nat
    BY <1>1
  <1> QED BY <1>1, <1>2, <1>3

\* Handing out a record of the batch preserves RecordsInv.
LEMMA ReturnRecordKeeps ==
    ASSUME Inv, ReturnRecord
    PROVE  RecordsInv'
  <1>1. RecordsInv /\ pending \in Seq(Records) /\ lastRead \in [CPUs -> Nat]
        /\ tail \in [CPUs -> Nat]
    BY DEF Inv, TypeOK, ReaderTypeOK, HistoryTypeOK
  <1>2. /\ pending # <<>> /\ pending' = Tail(pending)
        /\ lastRead' = [lastRead EXCEPT ![pending[1].cpu] = pending[1].seq]
        /\ UNCHANGED <<tail, taken, lost>>
    <2>1. pending # <<>>
      BY DEF ReturnRecord
    <2>2. Head(pending) = pending[1]
      BY <1>1, <2>1
    <2> QED BY Zenon, <2>1, <2>2 DEF ReturnRecord
  <1>3. /\ 1 \in DOMAIN pending /\ DOMAIN pending' \subseteq Nat \ {0}
        /\ \A k \in DOMAIN pending' : k + 1 \in DOMAIN pending /\ pending'[k] = pending[k + 1]
    BY <1>1, <1>2
  <1>4. \A k \in DOMAIN pending : pending[k].cpu \in CPUs /\ pending[k].seq \in Nat
    BY PendingFacts, Zenon
  <1>5. NoTornRecord'
    BY <1>1, <1>3 DEF RecordsInv, NoTornRecord
  <1>6. ExactAccounting'
    BY <1>1, <1>2 DEF RecordsInv, ExactAccounting
  <1>7. \A k, l \in DOMAIN pending' :
            k < l /\ pending'[k].cpu = pending'[l].cpu => pending'[k].seq < pending'[l].seq
    <2> SUFFICES ASSUME NEW k \in DOMAIN pending', NEW l \in DOMAIN pending', k < l,
                        pending[k + 1].cpu = pending[l + 1].cpu
                 PROVE  pending[k + 1].seq < pending[l + 1].seq
      BY <1>3
    <2>1. k + 1 \in DOMAIN pending /\ l + 1 \in DOMAIN pending /\ k + 1 < l + 1
      BY <1>3
    <2> QED BY <1>1, <2>1 DEF RecordsInv, PerCPUOrder
  <1>8. \A k \in DOMAIN pending' :
            /\ lastRead'[pending'[k].cpu] < pending'[k].seq
            /\ pending'[k].seq <= tail'[pending'[k].cpu]
    <2> SUFFICES ASSUME NEW k \in DOMAIN pending'
                 PROVE  /\ lastRead'[pending[k + 1].cpu] < pending[k + 1].seq
                        /\ pending[k + 1].seq <= tail[pending[k + 1].cpu]
      BY <1>2, <1>3
    <2>1. k + 1 \in DOMAIN pending /\ 1 < k + 1 /\ pending[k + 1].cpu \in CPUs
      BY <1>3, <1>4
    <2>2. pending[1].cpu = pending[k + 1].cpu => pending[1].seq < pending[k + 1].seq
      BY <1>1, <1>3, <2>1 DEF RecordsInv, PerCPUOrder
    <2>3. /\ lastRead[pending[k + 1].cpu] < pending[k + 1].seq
          /\ pending[k + 1].seq <= tail[pending[k + 1].cpu]
      BY <1>1, <2>1 DEF RecordsInv, PerCPUOrder
    <2> QED BY Zenon, <1>1, <1>2, <2>1, <2>2, <2>3
  <1>9. \A c \in CPUs : lastRead'[c] <= tail'[c]
    <2>1. pending[1].seq <= tail[pending[1].cpu]
      BY <1>1, <1>3 DEF RecordsInv, PerCPUOrder
    <2> QED BY <1>1, <1>2, <2>1 DEF RecordsInv
  <1> QED BY <1>5, <1>6, <1>7, <1>8, <1>9 DEF RecordsInv, PerCPUOrder

\* The tail moves by what is counted lost; nothing else changes.
LEMMA SkipKeeps ==
    ASSUME Inv, NEW cpu \in CPUs, NEW n \in Nat,
           tail' = [tail EXCEPT ![cpu] = tail[cpu] + n],
           lost' = [lost EXCEPT ![cpu] = lost[cpu] + n],
           UNCHANGED <<pending, lastRead, taken>>
    PROVE  RecordsInv'
  <1>1. /\ RecordsInv /\ pending \in Seq(Records) /\ lastRead \in [CPUs -> Nat]
        /\ tail \in [CPUs -> Nat] /\ lost \in [CPUs -> Nat] /\ taken \in [CPUs -> Nat]
    BY Zenon DEF Inv, TypeOK, ReaderTypeOK, HistoryTypeOK
  <1>2. \A c \in CPUs : tail[c] <= tail'[c]
    BY <1>1
  <1>3. \A k \in DOMAIN pending : pending[k].cpu \in CPUs /\ pending[k].seq \in Nat
    BY PendingFacts
  <1>4. NoTornRecord'
    BY <1>1, Zenon DEF RecordsInv, NoTornRecord
  <1>5. PerCPUOrder'
    <2>1. \A k \in DOMAIN pending : pending[k].seq <= tail'[pending[k].cpu]
      BY <1>1, <1>2, <1>3 DEF RecordsInv, PerCPUOrder
    <2> QED BY <1>1, <2>1 DEF RecordsInv, PerCPUOrder
  <1>6. ExactAccounting'
    BY <1>1 DEF RecordsInv, ExactAccounting
  <1>7. \A c \in CPUs : lastRead'[c] <= tail'[c]
    BY <1>1, <1>2 DEF RecordsInv
  <1> QED BY <1>4, <1>5, <1>6, <1>7 DEF RecordsInv

\* A pending record shows an event that was emitted, hence has a timestamp.
LEMMA PendingBounds ==
    ASSUME Inv
    PROVE  \A k \in DOMAIN pending : pending[k].seq \in 1 .. EventBound[pending[k].cpu]
                                     /\ pending[k].lo = pending[k].seq
  <1>1. RecordsInv /\ BatchInv /\ SlotInv
        /\ tail \in [CPUs -> Nat] /\ head \in [CPUs -> Nat] /\ snap \in [CPUs -> Nat]
        /\ lastRead \in [CPUs -> Nat]
    BY DEF Inv, TypeOK, ReaderTypeOK, WriterTypeOK, HistoryTypeOK
  <1> SUFFICES ASSUME NEW k \in DOMAIN pending
               PROVE  pending[k].seq \in 1 .. EventBound[pending[k].cpu]
                      /\ pending[k].lo = pending[k].seq
    OBVIOUS
  <1> DEFINE c == pending[k].cpu
  <1>2. c \in CPUs /\ pending[k].seq \in Nat
    BY PendingFacts
  <1>3. lastRead[c] < pending[k].seq /\ pending[k].seq <= tail[c] /\ pending[k].lo = pending[k].seq
    BY <1>1 DEF RecordsInv, PerCPUOrder, NoTornRecord
  <1>4. tail[c] <= snap[c] /\ snap[c] <= head[c]
    BY <1>1, <1>2, Zenon DEF BatchInv
  <1>5. head[c] <= EventBound[c]
    BY <1>1, <1>2 DEF SlotInv, WriterAt
  <1>6. /\ EventBound[c] \in Nat /\ lastRead[c] \in Nat /\ tail[c] \in Nat
        /\ snap[c] \in Nat /\ head[c] \in Nat
    BY <1>1, <1>2, SizesAssumption
  <1> HIDE DEF c
  <1>7. pending[k].seq \in 1 .. EventBound[c]
    BY <1>2, <1>3, <1>4, <1>5, <1>6
  <1> QED BY <1>3, <1>7 DEF c

\* Sorting the batch preserves RecordsInv: the sort is a permutation that keeps
\* each CPU's records in sequence order.
LEMMA FinishBatchKeeps ==
    ASSUME Inv, FinishBatch
    PROVE  RecordsInv'
  <1>1. RecordsInv /\ pending \in Seq(Records) /\ BatchInv /\ SlotInv
        /\ tail \in [CPUs -> Nat] /\ head \in [CPUs -> Nat] /\ snap \in [CPUs -> Nat]
        /\ lastRead \in [CPUs -> Nat]
    BY DEF Inv, TypeOK, ReaderTypeOK, WriterTypeOK, HistoryTypeOK
  <1>2. PICK perm \in [DOMAIN pending -> DOMAIN pending] :
          StableOrder(pending, perm) /\ pending' = [k \in DOMAIN pending |-> pending[perm[k]]]
    BY DEF FinishBatch
  <1>3. UNCHANGED <<tail, lost, taken, lastRead>>
    BY DEF FinishBatch
  <1>4. DOMAIN pending = 1 .. Len(pending) /\ Len(pending) \in Nat
        /\ \A k \in DOMAIN pending : pending[k].cpu \in CPUs /\ pending[k].seq \in Nat
    BY Zenon, PendingFacts
  <1>5. NoTornRecord'
    BY <1>1, <1>2 DEF RecordsInv, NoTornRecord
  <1>6. ExactAccounting'
    BY <1>1, <1>3 DEF RecordsInv, ExactAccounting
  <1>7. \A k \in DOMAIN pending : pending[k].seq \in 1 .. EventBound[pending[k].cpu]
                                  /\ pending[k].lo = pending[k].seq
    BY PendingBounds
  <1>8. ASSUME NEW k \in DOMAIN pending, NEW l \in DOMAIN pending, k < l,
               pending'[k].cpu = pending'[l].cpu
        PROVE  pending'[k].seq < pending'[l].seq
    <2> DEFINE r == pending[perm[k]]
               t == pending[perm[l]]
    <2>1. pending'[k] = r /\ pending'[l] = t /\ perm[k] \in DOMAIN pending /\ perm[l] \in DOMAIN pending
      BY <1>2
    <2>2. /\ r.cpu \in CPUs /\ r.cpu = t.cpu /\ r.lo = r.seq /\ t.lo = t.seq
          /\ r.seq \in 1 .. EventBound[r.cpu] /\ t.seq \in 1 .. EventBound[r.cpu]
      BY Zenon, <1>4, <1>7, <1>8, <2>1
    <2>3. \/ Timestamp(r.cpu, r.seq) < Timestamp(r.cpu, t.seq)
          \/ perm[k] < perm[l]
      BY <1>2, <1>8, <2>2, Zenon DEF StableOrder, Stamp
    <2>4. CASE perm[k] < perm[l]
      BY <1>1, <2>1, <2>2, <2>4, Zenon DEF RecordsInv, PerCPUOrder
    <2>5. CASE Timestamp(r.cpu, r.seq) < Timestamp(r.cpu, t.seq)
      <3>1. ~(t.seq <= r.seq)
        <4> SUFFICES ASSUME t.seq <= r.seq PROVE FALSE
          BY Zenon
        <4>1. /\ Timestamp(r.cpu, t.seq) <= Timestamp(r.cpu, r.seq)
              /\ Timestamp(r.cpu, t.seq) \in Nat /\ Timestamp(r.cpu, r.seq) \in Nat
          BY Zenon, <2>2, ClockAssumption
        <4> QED BY <2>5, <4>1
      <3>2. EventBound[r.cpu] \in Nat
        BY <2>2, SizesAssumption
      <3> QED BY <2>1, <2>2, <3>1, <3>2
    <2> QED BY <2>3, <2>4, <2>5
  <1>9. PerCPUOrder'
    <2>1. DOMAIN pending' = DOMAIN pending
      BY Zenon, <1>2
    <2>2. \A k \in DOMAIN pending :
            /\ lastRead[pending'[k].cpu] < pending'[k].seq
            /\ pending'[k].seq <= tail[pending'[k].cpu]
      BY <1>1, <1>2 DEF RecordsInv, PerCPUOrder
    <2> QED BY <1>3, <1>8, <2>1, <2>2 DEF PerCPUOrder
  <1> QED BY <1>1, <1>3, <1>5, <1>6, <1>9 DEF RecordsInv

\* Appending a record, skipping lost events or leaving the shard preserves
\* RecordsInv.
LEMMA JudgeKeeps ==
    ASSUME Inv, Judge
    PROVE  RecordsInv'
  <1> DEFINE cpu == Head(active)
             e == tail[cpu] + 1
             seq == CommittedSlotSequence(IF rpc = "judge1" THEN raw ELSE conf)
             ll == LastLost(seq, snap[cpu])
  <1>1. /\ RecordsInv /\ lastRead \in [CPUs -> Nat] /\ snap \in [CPUs -> Nat]
        /\ tail \in [CPUs -> Nat] /\ lost \in [CPUs -> Nat] /\ taken \in [CPUs -> Nat]
    BY DEF Inv, TypeOK, ReaderTypeOK, HistoryTypeOK
  <1>2. /\ cpu \in CPUs /\ e \in Nat \ {0} /\ e <= snap[cpu]
        /\ seq \in Nat
        /\ seq = e => raw["lo"] = e /\ raw["hi"] = e
    BY JudgeFacts
  <1>3. CASE seq = e
    <2> DEFINE record == [cpu |-> cpu, seq |-> e, lo |-> raw["lo"], hi |-> raw["hi"]]
    <2>1. /\ tail' = [tail EXCEPT ![cpu] = e]
          /\ pending' = Append(pending, record)
          /\ taken' = [taken EXCEPT ![cpu] = @ + 1]
          /\ UNCHANGED <<lost, lastRead>>
      BY <1>2, <1>3 DEF Judge
    <2>2. record.cpu = cpu /\ record.seq = e /\ record.lo = e /\ record.hi = e
      BY <1>2, <1>3
    <2>3. tail[cpu] \in Nat /\ e = tail[cpu] + 1
      BY <1>1, <1>2
    <2> HIDE DEF record, cpu, e
    <2>4. /\ DOMAIN pending' = 1 .. Len(pending) + 1 /\ pending'[Len(pending) + 1] = record
          /\ \A k \in DOMAIN pending : pending'[k] = pending[k]
      BY <2>1, PendingFacts
    <2>5. \A k \in DOMAIN pending' : k \in DOMAIN pending \/ k = Len(pending) + 1
      BY <2>4, PendingFacts
    <2>6. \A c \in CPUs : tail[c] <= tail'[c] /\ tail'[c] \in Nat
      BY <1>1, <1>2, <2>1, <2>3
    <2>7. NoTornRecord'
      BY Zenon, <1>1, <2>2, <2>4, <2>5 DEF RecordsInv, NoTornRecord
    <2>8. ExactAccounting'
      BY <1>1, <1>2, <2>1, <2>3 DEF RecordsInv, ExactAccounting
    <2>9. \A c \in CPUs : lastRead'[c] <= tail'[c]
      BY <1>1, <2>1, <2>6 DEF RecordsInv
    <2>10. lastRead[cpu] < e /\ e <= tail'[cpu]
      BY <1>1, <1>2, <2>1, <2>3 DEF RecordsInv
    <2>11. \A k \in DOMAIN pending :
             lastRead[pending[k].cpu] < pending[k].seq /\ pending[k].seq <= tail'[pending[k].cpu]
      BY <1>1, <2>6, PendingFacts DEF RecordsInv, PerCPUOrder
    <2>12. \A k \in DOMAIN pending' :
             lastRead'[pending'[k].cpu] < pending'[k].seq /\ pending'[k].seq <= tail'[pending'[k].cpu]
      BY <2>1, <2>2, <2>4, <2>5, <2>10, <2>11
    <2>13. \A k \in DOMAIN pending : pending[k].cpu = cpu => pending[k].seq < e
      BY <1>1, <2>3, PendingFacts DEF RecordsInv, PerCPUOrder
    <2>14. \A k, l \in DOMAIN pending' :
             k < l /\ pending'[k].cpu = pending'[l].cpu => pending'[k].seq < pending'[l].seq
      <3> SUFFICES ASSUME NEW k \in DOMAIN pending', NEW l \in DOMAIN pending', k < l,
                          pending'[k].cpu = pending'[l].cpu
                   PROVE  pending'[k].seq < pending'[l].seq
        OBVIOUS
      <3>1. k \in DOMAIN pending
        BY <2>4, PendingFacts
      <3>2. CASE l \in DOMAIN pending
        BY Zenon, <1>1, <2>4, <3>1, <3>2 DEF RecordsInv, PerCPUOrder
      <3>3. CASE l = Len(pending) + 1
        BY <2>2, <2>4, <2>13, <3>1, <3>3
      <3> QED BY <2>5, <3>2, <3>3
    <2> QED BY Zenon, <2>7, <2>8, <2>9, <2>12, <2>14 DEF RecordsInv, PerCPUOrder
  <1>4. CASE seq > e
    <2>1. /\ tail' = [tail EXCEPT ![cpu] = ll]
          /\ lost' = [lost EXCEPT ![cpu] = @ + (ll - tail[cpu])]
          /\ UNCHANGED <<pending, lastRead, taken>>
      BY <1>2, <1>4 DEF Judge, RecordLoss
    <2>2. tail[cpu] \in Nat /\ snap[cpu] \in Nat /\ lost[cpu] \in Nat
      BY <1>1, <1>2
    <2>3. ll \in Nat /\ ll >= tail[cpu]
      BY <1>2, <1>4, <2>2 DEF LastLost
    <2> HIDE DEF ll, cpu
    <2>4. PICK n \in Nat : ll = tail[cpu] + n
      <3>1. ll - tail[cpu] \in Nat /\ ll = tail[cpu] + (ll - tail[cpu])
        BY <2>2, <2>3
      <3> QED BY <3>1
    <2>5. lost[cpu] + (ll - tail[cpu]) = lost[cpu] + n
      BY <2>2, <2>4
    <2> QED BY Zenon, <1>2, <2>1, <2>4, <2>5, SkipKeeps
  <1>5. CASE seq < e
    <2>1. UNCHANGED <<tail, lost, pending, lastRead, taken>>
      BY <1>2, <1>5 DEF Judge
    <2> QED BY Zenon, <1>1, <2>1 DEF RecordsInv, NoTornRecord, PerCPUOrder, ExactAccounting
  <1> QED BY <1>2, <1>3, <1>4, <1>5

\* Reading a shard's head preserves RecordsInv, and counts a loss only when the
\* writer is a ring ahead.
LEMMA LookupHeadKeeps ==
    ASSUME Inv, LookupHead
    PROVE  /\ RecordsInv'
           /\ \A c \in CPUs : lost'[c] # lost[c] => head[c] >= tail[c] + Slots
  <1> DEFINE cpu == (nextCPU + offset) % NumCPU
             o == Overflow(head[cpu], tail[cpu])
  <1>1. ReaderTypeOK /\ BatchInv /\ head \in [CPUs -> Nat] /\ tail \in [CPUs -> Nat]
        /\ lost \in [CPUs -> Nat] /\ snap \in [CPUs -> Nat]
    BY Zenon DEF Inv, TypeOK, ReaderTypeOK, WriterTypeOK
  <1>2. nextCPU + offset \in Nat
    BY <1>1, SizesAssumption DEF ReaderTypeOK, CPUs
  <1>3. cpu \in CPUs
    BY <1>2, ShardFacts
  <1>4. tail[cpu] <= head[cpu] /\ head[cpu] \in Nat /\ tail[cpu] \in Nat
    BY <1>1, <1>3 DEF BatchInv
  <1>5. o \in Nat /\ (o # 0 => head[cpu] >= tail[cpu] + Slots)
    BY Zenon, <1>4, OverflowType
  <1> HIDE DEF cpu, o
  <1>6. /\ tail' = [tail EXCEPT ![cpu] = tail[cpu] + o]
        /\ lost' = [lost EXCEPT ![cpu] = lost[cpu] + o]
        /\ UNCHANGED <<pending, lastRead, taken>>
    BY <1>4 DEF LookupHead, RecordLoss, cpu, o
  <1>7. RecordsInv'
    BY Zenon, <1>3, <1>5, <1>6, SkipKeeps
  <1>8. \A c \in CPUs : lost'[c] # lost[c] => head[c] >= tail[c] + Slots
    BY <1>1, <1>3, <1>5, <1>6
  <1> QED BY <1>7, <1>8

\* Every step of the reader preserves RecordsInv.
LEMMA ReaderRecords ==
    ASSUME Inv, Reader
    PROVE  RecordsInv'
  <1>1. RecordsInv
    BY DEF Inv
  <1>2. CASE ReturnRecord
    BY <1>2, ReturnRecordKeeps
  <1>3. CASE StartBatch \/ SelectSlot \/ CopyWord
    <2>1. UNCHANGED <<tail, lost, pending, lastRead, taken>>
      BY <1>3 DEF StartBatch, SelectSlot, CopyWord
    <2> QED BY Zenon, <1>1, <2>1 DEF RecordsInv, NoTornRecord, PerCPUOrder, ExactAccounting
  <1>4. CASE LookupHead
    BY <1>4, LookupHeadKeeps, Zenon
  <1>5. CASE Judge
    BY <1>5, JudgeKeeps
  <1>6. CASE FinishBatch
    BY <1>6, FinishBatchKeeps
  <1> QED BY <1>2, <1>3, <1>4, <1>5, <1>6 DEF Reader

\* Reader steps do not touch what the writers own.
LEMMA ReaderSlots ==
    ASSUME Inv, Reader
    PROVE  WriterTypeOK' /\ SlotInv'
  <1>1. wvars' = wvars
    BY Zenon DEF Reader, ReturnRecord, StartBatch, LookupHead, SelectSlot, CopyWord, Judge, FinishBatch
  <1>2. WriterTypeOK /\ SlotInv
    BY DEF Inv, TypeOK
  <1>3. WriterTypeOK'
    BY Zenon, <1>1, <1>2 DEF WriterTypeOK, wvars
  <1>4. SlotInv'
    BY <1>1, <1>2, SlotInvSame
  <1> QED BY Zenon, <1>3, <1>4
-----------------------------------------------------------------------------
(* The theorems *)

\* The invariant holds initially.
LEMMA InitInv == Init => Inv
  <1> SUFFICES ASSUME Init PROVE Inv
    OBVIOUS
  <1>1. TypeOK /\ SlotInv
    BY InitType, InitSlotInv
  <1>2. BatchInv
    BY DEF Init, BatchInv, InSlot
  <1>3. CopyInv
    BY Zenon DEF Init, CopyInv, InSlot
  <1>4. RecordsInv
    BY DEF Init, RecordsInv, NoTornRecord, PerCPUOrder, ExactAccounting
  <1> QED BY <1>1, <1>2, <1>3, <1>4 DEF Inv

\* Every step preserves the invariant.
LEMMA NextInv == Inv /\ [Next]_vars => Inv'
  <1> SUFFICES ASSUME Inv, [Next]_vars PROVE Inv'
    OBVIOUS
  <1>1. CASE Reader
    BY <1>1, ReaderType, ReaderBatch, ReaderCopy, ReaderRecords, ReaderSlots DEF Inv, TypeOK
  <1>2. ASSUME NEW c \in CPUs, Writer(c) PROVE Inv'
    BY <1>2, WriterKeeps
  <1>3. CASE UNCHANGED vars
    <2>1. wvars' = wvars /\ rvars' = rvars
      BY <1>3 DEF vars
    <2>2. TypeOK'
      BY Zenon, <2>1 DEF Inv, TypeOK, WriterTypeOK, ReaderTypeOK, HistoryTypeOK, wvars, rvars
    <2>3. SlotInv'
      BY <2>1, SlotInvSame DEF Inv
    <2>4. BatchInv'
      BY Zenon, <2>1 DEF Inv, BatchInv, wvars, rvars
    <2>5. CopyInv'
      BY Zenon, <2>1 DEF Inv, CopyInv, RawOK, ConfOK, MarkerOK, Lapped, CommittedSlotSequence, wvars, rvars
    <2>6. RecordsInv'
      BY <2>1, Zenon DEF Inv, RecordsInv, NoTornRecord, PerCPUOrder, ExactAccounting, rvars
    <2> QED BY <2>2, <2>3, <2>4, <2>5, <2>6 DEF Inv
  <1> QED BY <1>1, <1>2, <1>3 DEF Next

\* The inductive invariant holds in every reachable state.
THEOREM Invariance == Safety => []Inv
  BY InitInv, NextInv, PTL DEF Safety

\* Type correctness of the slots, cursors and reader state, for every number
\* of CPUs, ring and batch size.
THEOREM TypeCorrect == Spec => []TypeOK
  <1>1. Inv => TypeOK
    BY DEF Inv
  <1> QED BY <1>1, Invariance, PTL DEF Spec

\* pollBatch never accepts a torn or stale slot, however its two lookups
\* interleave with the stores of emit_event.
THEOREM TornFree == Spec => []NoTornRecord
  <1>1. Inv => NoTornRecord
    BY DEF Inv, RecordsInv
  <1> QED BY <1>1, Invariance, PTL DEF Spec

\* Each CPU's events reach the caller of Read in order and without repetition.
THEOREM OrderedDelivery == Spec => []PerCPUOrder
  <1>1. Inv => PerCPUOrder
    BY DEF Inv, RecordsInv
  <1> QED BY <1>1, Invariance, PTL DEF Spec

\* Accepted and lost events add up to the tail of each shard.
THEOREM LossAccounting == Spec => []ExactAccounting
  <1>1. Inv => ExactAccounting
    BY DEF Inv, RecordsInv
  <1> QED BY <1>1, Invariance, PTL DEF Spec

\* The "event cursor regressed" error of pollBatch is unreachable.
THEOREM NoRegression == Spec => []NeverAheadOfCursor
  <1>1. Inv => NeverAheadOfCursor
    <2> SUFFICES ASSUME Inv PROVE NeverAheadOfCursor
      OBVIOUS
    <2>1. BatchInv /\ tail \in [CPUs -> Nat] /\ snap \in [CPUs -> Nat] /\ head \in [CPUs -> Nat]
      BY Zenon DEF Inv, TypeOK, ReaderTypeOK, WriterTypeOK
    <2> QED BY <2>1 DEF BatchInv, NeverAheadOfCursor
  <1> QED BY <1>1, Invariance, PTL DEF Spec

\* A step that counts a loss finds the writer a ring ahead.
LEMMA LossStep ==
    Inv /\ [Next]_vars =>
        [\A c \in CPUs : lost'[c] # lost[c] => head[c] >= tail[c] + Slots]_vars
  <1> SUFFICES ASSUME Inv, Next
               PROVE  \A c \in CPUs : lost'[c] # lost[c] => head[c] >= tail[c] + Slots
    OBVIOUS
  <1>1. CASE LookupHead
    BY <1>1, LookupHeadKeeps
  <1>2. CASE Judge
    <2> DEFINE cpu == Head(active)
               seq == CommittedSlotSequence(IF rpc = "judge1" THEN raw ELSE conf)
    <2>1. lost \in [CPUs -> Nat] /\ cpu \in CPUs
          /\ (seq > tail[cpu] + 1 => head[cpu] >= tail[cpu] + Slots)
      BY Zenon, <1>2, JudgeFacts DEF Inv, TypeOK, ReaderTypeOK
    <2>2. \/ lost' = lost
          \/ /\ seq > tail[cpu] + 1
             /\ lost' = [lost EXCEPT ![cpu] = @ + (LastLost(seq, snap[cpu]) - tail[cpu])]
      BY Zenon, <1>2 DEF Judge, RecordLoss
    <2> HIDE DEF cpu, seq
    <2> QED BY <2>1, <2>2
  <1>3. CASE ReturnRecord \/ StartBatch \/ SelectSlot \/ CopyWord \/ FinishBatch
    BY Zenon, <1>3 DEF ReturnRecord, StartBatch, SelectSlot, CopyWord, FinishBatch
  <1>4. ASSUME NEW c \in CPUs, Writer(c) PROVE lost' = lost
    BY <1>4 DEF Writer, BeginEmit, Store, Publish, rvars
  <1> QED BY <1>1, <1>2, <1>3, <1>4 DEF Next, Reader

\* Events are given up only when the CPU is a whole ring ahead of the reader.
THEOREM LossJustified == Spec => LossOnlyOnOverrun
  BY LossStep, Invariance, PTL DEF Spec, Safety, LossOnlyOnOverrun

-----------------------------------------------------------------------------
(* The channel *)

\* The payload of a record, as the channel's user sees it.
PayloadOf(r) == [cpu |-> r.cpu, lo |-> r.lo, hi |-> r.hi]

Payloads == [cpu : CPUs, lo : Nat, hi : Nat]

PayloadsOf(p) == [k \in DOMAIN p |-> PayloadOf(p[k])]

\* A function on 1 .. n is a sequence of length n.
LEMMA FunctionIsSeq ==
    ASSUME NEW S, NEW n \in Nat, NEW f \in [1 .. n -> S]
    PROVE  f \in Seq(S) /\ Len(f) = n
OBVIOUS

\* Sequences with the same length and the same elements are the same.
LEMMA SameSeq ==
    ASSUME NEW S, NEW p \in Seq(S), NEW q \in Seq(S), Len(p) = Len(q),
           \A k \in 1 .. Len(p) : p[k] = q[k]
    PROVE  p = q
OBVIOUS

\* The rest of a sequence.
LEMMA TailOfSeq ==
    ASSUME NEW S, NEW p \in Seq(S), p # <<>>
    PROVE  /\ Tail(p) \in Seq(S) /\ Len(Tail(p)) = Len(p) - 1
           /\ \A k \in 1 .. Len(Tail(p)) : Tail(p)[k] = p[k + 1]
OBVIOUS

\* The abstract batch has the length and the type of the reader's batch.
LEMMA PayloadsType ==
    ASSUME NEW p \in Seq(Records)
    PROVE  /\ PayloadsOf(p) \in Seq(Payloads)
           /\ Len(PayloadsOf(p)) = Len(p)
           /\ \A k \in 1 .. Len(p) : PayloadsOf(p)[k] = PayloadOf(p[k])
  <1>1. DOMAIN p = 1 .. Len(p) /\ Len(p) \in Nat /\ \A k \in 1 .. Len(p) : p[k] \in Records
    OBVIOUS
  <1>2. \A r \in Records : PayloadOf(r) \in Payloads
    BY DEF Records, Payloads, PayloadOf
  <1>3. PayloadsOf(p) = [k \in 1 .. Len(p) |-> PayloadOf(p[k])]
    BY <1>1 DEF PayloadsOf
  <1>4. \A k \in 1 .. Len(p) : PayloadOf(p[k]) \in Payloads
    BY <1>1, <1>2
  <1>5. PayloadsOf(p) \in [1 .. Len(p) -> Payloads]
    BY <1>3, <1>4
  <1>6. PayloadsOf(p) \in Seq(Payloads)
    BY <1>1, <1>5, FunctionIsSeq
  <1>7. Len(PayloadsOf(p)) = Len(p)
    BY <1>1, <1>5, FunctionIsSeq
  <1> QED BY <1>3, <1>6, <1>7

\* Handing out the first record hands out the first abstract payload.
LEMMA PayloadsTail ==
    ASSUME NEW p \in Seq(Records), p # <<>>
    PROVE  PayloadsOf(p) # <<>> /\ PayloadsOf(Tail(p)) = Tail(PayloadsOf(p))
  <1> DEFINE b == PayloadsOf(p)
             q == Tail(p)
  <1>1. /\ b \in Seq(Payloads) /\ Len(b) = Len(p)
        /\ \A k \in 1 .. Len(p) : b[k] = PayloadOf(p[k])
    BY PayloadsType
  <1>2. Len(p) \in Nat \ {0}
    OBVIOUS
  <1>3. b # <<>>
    BY <1>1, <1>2
  <1>4. q \in Seq(Records) /\ Len(q) = Len(p) - 1 /\ \A k \in 1 .. Len(q) : q[k] = p[k + 1]
    BY TailOfSeq
  <1>5. Tail(b) \in Seq(Payloads) /\ Len(Tail(b)) = Len(b) - 1
        /\ \A k \in 1 .. Len(Tail(b)) : Tail(b)[k] = b[k + 1]
    BY <1>1, <1>3, TailOfSeq, Zenon
  <1>6. PayloadsOf(q) \in Seq(Payloads) /\ Len(PayloadsOf(q)) = Len(q)
        /\ \A k \in 1 .. Len(q) : PayloadsOf(q)[k] = PayloadOf(q[k])
    BY Zenon, <1>4, PayloadsType
  <1> HIDE DEF b, q
  <1>7. Len(PayloadsOf(q)) = Len(Tail(b))
    BY Zenon, <1>1, <1>4, <1>5, <1>6
  <1>8. \A k \in 1 .. Len(PayloadsOf(q)) : PayloadsOf(q)[k] = Tail(b)[k]
    <2> SUFFICES ASSUME NEW k \in 1 .. Len(PayloadsOf(q)) PROVE PayloadsOf(q)[k] = Tail(b)[k]
      BY Zenon
    <2>1. k \in 1 .. Len(q) /\ k + 1 \in 1 .. Len(p) /\ k \in 1 .. Len(Tail(b))
      BY <1>1, <1>2, <1>4, <1>5, <1>6
    <2> QED BY Zenon, <1>1, <1>4, <1>5, <1>6, <2>1
  <1>9. PayloadsOf(q) = Tail(b)
    BY Zenon, <1>5, <1>6, <1>7, <1>8, SameSeq
  <1> QED BY <1>3, <1>9 DEF b, q

\* Appending a record appends its payload to the abstract batch.
LEMMA PayloadsAppend ==
    ASSUME NEW p \in Seq(Records), NEW r \in Records
    PROVE  PayloadsOf(Append(p, r)) = Append(PayloadsOf(p), PayloadOf(r))
  <1> DEFINE b == PayloadsOf(p)
             q == Append(p, r)
             d == Append(b, PayloadOf(r))
  <1>1. /\ b \in Seq(Payloads) /\ Len(b) = Len(p) /\ Len(p) \in Nat
        /\ \A k \in 1 .. Len(p) : b[k] = PayloadOf(p[k])
    BY PayloadsType
  <1>2. PayloadOf(r) \in Payloads
    BY DEF Records, Payloads, PayloadOf
  <1>3. q \in Seq(Records) /\ Len(q) = Len(p) + 1 /\ q[Len(p) + 1] = r
        /\ \A k \in 1 .. Len(p) : q[k] = p[k]
    OBVIOUS
  <1>4. d \in Seq(Payloads) /\ Len(d) = Len(b) + 1 /\ d[Len(b) + 1] = PayloadOf(r)
        /\ \A k \in 1 .. Len(b) : d[k] = b[k]
    BY <1>1, <1>2
  <1>5. PayloadsOf(q) \in Seq(Payloads) /\ Len(PayloadsOf(q)) = Len(q)
        /\ \A k \in 1 .. Len(q) : PayloadsOf(q)[k] = PayloadOf(q[k])
    BY Zenon, <1>3, PayloadsType
  <1> HIDE DEF b, q, d
  <1>6. \A k \in 1 .. Len(PayloadsOf(q)) : PayloadsOf(q)[k] = d[k]
    <2> SUFFICES ASSUME NEW k \in 1 .. Len(PayloadsOf(q)) PROVE PayloadsOf(q)[k] = d[k]
      OBVIOUS
    <2>1. k \in 1 .. Len(q) /\ (k \in 1 .. Len(p) \/ k = Len(p) + 1)
      BY <1>1, <1>3, <1>5
    <2> QED BY Zenon, <1>1, <1>3, <1>4, <1>5, <2>1
  <1>7. Len(PayloadsOf(q)) = Len(d)
    BY Zenon, <1>1, <1>3, <1>4, <1>5
  <1>8. PayloadsOf(q) = d
    BY Zenon, <1>4, <1>5, <1>6, <1>7, SameSeq
  <1> QED BY <1>8 DEF b, q, d

-----------------------------------------------------------------------------

\* The initial state is an empty channel.
LEMMA InitChannel == Init => Channel!Init
  <1> SUFFICES ASSUME Init PROVE Channel!Init
    OBVIOUS
  <1>1. pending = <<>>
    BY DEF Init
  <1>2. [k \in DOMAIN pending |->
            [cpu |-> pending[k].cpu, lo |-> pending[k].lo, hi |-> pending[k].hi]] = <<>>
    BY <1>1
  <1> QED BY <1>2 DEF Init, Channel!Init

\* Only Publish is visible among the writer's steps.
LEMMA WriterChannel ==
    ASSUME Inv, NEW c \in CPUs, Writer(c)
    PROVE  [Channel!Next]_(Channel!chan)
  <1>1. CASE Publish(c)
    <2>1. Channel!Send(c)
      BY Zenon, <1>1 DEF Publish, rvars, Channel!Send
    <2> QED BY <2>1 DEF Channel!Next
  <1>2. CASE BeginEmit(c) \/ Store(c)
    BY <1>2 DEF BeginEmit, Store, rvars, Channel!chan
  <1> QED BY <1>1, <1>2 DEF Writer

\* A loss is a Drop of the channel.
LEMMA SkipChannel ==
    ASSUME Inv, NEW cpu \in CPUs, NEW t \in Nat, tail[cpu] <= t, t <= head[cpu],
           tail' = [tail EXCEPT ![cpu] = t],
           lost' = [lost EXCEPT ![cpu] = @ + (t - tail[cpu])],
           t # tail[cpu] => head[cpu] >= tail[cpu] + Slots,
           UNCHANGED <<head, pending>>
    PROVE  [Channel!Next]_(Channel!chan)
  <1>1. tail \in [CPUs -> Nat] /\ lost \in [CPUs -> Nat] /\ head \in [CPUs -> Nat]
    BY Zenon DEF Inv, TypeOK, ReaderTypeOK, WriterTypeOK
  <1>2. tail[cpu] \in Nat /\ lost[cpu] \in Nat /\ head[cpu] \in Nat
    BY Zenon, <1>1
  <1>3. CASE t = tail[cpu]
    <2>1. tail' = tail
      BY <1>1, <1>3
    <2>2. lost[cpu] + (t - tail[cpu]) = lost[cpu]
      BY <1>2, <1>3
    <2>3. lost' = lost
      BY <1>1, <2>2
    <2> QED BY <2>1, <2>3 DEF Channel!chan
  <1>4. CASE t # tail[cpu]
    <2>1. tail'[cpu] = t
      BY <1>1
    <2>2. t \in tail[cpu] + 1 .. head[cpu]
      BY <1>2, <1>4
    <2>3. Channel!Drop(cpu)
      BY Zenon, <1>4, <2>1, <2>2 DEF Channel!Drop
    <2> QED BY <2>3 DEF Channel!Next
  <1> QED BY <1>3, <1>4

\* The sort at the end of a batch only interleaves the CPUs differently.
LEMMA FinishChannel ==
    ASSUME Inv, FinishBatch
    PROVE  Channel!Reorder
  <1> DEFINE b == PayloadsOf(pending)
  <1>1. /\ pending \in Seq(Records) /\ DOMAIN pending = 1 .. Len(pending) /\ Len(pending) \in Nat
        /\ \A k \in DOMAIN pending : pending[k].cpu \in CPUs
    BY PendingFacts, Zenon
  <1>2. PICK perm \in [DOMAIN pending -> DOMAIN pending] :
          StableOrder(pending, perm) /\ pending' = [k \in DOMAIN pending |-> pending[perm[k]]]
    BY DEF FinishBatch
  <1>3. \A k \in DOMAIN pending : Stamp(pending[k]) \in Nat
    BY <1>1, PendingBounds, ClockAssumption, Zenon DEF Stamp
  <1>4. ASSUME NEW k \in DOMAIN pending, NEW l \in DOMAIN pending, perm[k] = perm[l]
        PROVE  k = l
    <2>1. perm[k] \in DOMAIN pending /\ perm[k] \in Int /\ Stamp(pending[perm[k]]) \in Nat
      BY <1>1, <1>2, <1>3
    <2>2. ~(k < l) /\ ~(l < k)
      BY <1>2, <1>4, <2>1 DEF StableOrder
    <2> QED BY <1>1, <2>2
  <1>5. ASSUME NEW k \in DOMAIN pending, NEW l \in DOMAIN pending, k < l,
               pending[perm[k]].cpu = pending[perm[l]].cpu
        PROVE  perm[k] < perm[l]
    <2>1. perm[k] \in DOMAIN pending /\ perm[l] \in DOMAIN pending
      BY <1>2
    <2>2. pending'[k].seq < pending'[l].seq
      <3>1. PerCPUOrder' /\ DOMAIN pending' = DOMAIN pending
        BY <1>2, FinishBatchKeeps DEF RecordsInv
      <3>2. pending'[k] = pending[perm[k]] /\ pending'[l] = pending[perm[l]]
        BY <1>2
      <3> QED BY Zenon, <1>5, <3>1, <3>2 DEF PerCPUOrder
    <2>3. pending[perm[k]].seq < pending[perm[l]].seq
      BY <1>2, <2>2
    <2>4. pending[perm[k]].seq \in Nat /\ pending[perm[l]].seq \in Nat
      BY <2>1, PendingFacts
    <2>5. ~(perm[l] < perm[k])
      <3> SUFFICES ASSUME perm[l] < perm[k] PROVE FALSE
        BY Zenon
      <3>1. pending[perm[l]].seq < pending[perm[k]].seq
        BY <1>5, <2>1 DEF Inv, RecordsInv, PerCPUOrder
      <3> QED BY <2>3, <2>4, <3>1
    <2>6. perm[k] # perm[l]
      BY <2>3, <2>4
    <2> QED BY <1>1, <2>1, <2>5, <2>6
  <1>6. DOMAIN b = DOMAIN pending /\ \A k \in DOMAIN pending : b[k].cpu = pending[k].cpu
    BY Zenon DEF PayloadsOf, PayloadOf
  <1>7. PayloadsOf(pending') = [k \in DOMAIN b |-> b[perm[k]]]
    BY <1>2, <1>6 DEF PayloadsOf
  <1>8. UNCHANGED <<head, tail, lost>>
    BY DEF FinishBatch, wvars
  <1> QED BY <1>2, <1>4, <1>5, <1>6, <1>7, <1>8, Zenon DEF Channel!Reorder, PayloadsOf, PayloadOf

\* Judge is an Accept, a Drop, or invisible.
LEMMA JudgeChannel ==
    ASSUME Inv, Judge
    PROVE  [Channel!Next]_(Channel!chan)
  <1> DEFINE cpu == Head(active)
             e == tail[cpu] + 1
             seq == CommittedSlotSequence(IF rpc = "judge1" THEN raw ELSE conf)
             ll == LastLost(seq, snap[cpu])
             record == [cpu |-> cpu, seq |-> e, lo |-> raw["lo"], hi |-> raw["hi"]]
  <1>1. /\ tail \in [CPUs -> Nat] /\ snap \in [CPUs -> Nat] /\ head \in [CPUs -> Nat] /\ BatchInv
        /\ pending \in Seq(Records)
    BY Zenon DEF Inv, TypeOK, ReaderTypeOK, WriterTypeOK
  <1>2. /\ cpu \in CPUs /\ e \in Nat \ {0} /\ e <= snap[cpu] /\ e <= head[cpu] /\ seq \in Nat
        /\ seq = e => raw["lo"] = e /\ raw["hi"] = e
        /\ seq > e => head[cpu] >= tail[cpu] + Slots
    BY JudgeFacts
  <1>3. tail[cpu] \in Nat /\ snap[cpu] \in Nat /\ head[cpu] \in Nat /\ snap[cpu] <= head[cpu]
    BY Zenon, <1>1, <1>2 DEF BatchInv
  <1>4. UNCHANGED head
    BY DEF Judge, wvars
  <1>5. CASE seq = e
    <2>1. /\ tail' = [tail EXCEPT ![cpu] = e]
          /\ pending' = Append(pending, record)
          /\ UNCHANGED lost
      BY <1>2, <1>5 DEF Judge
    <2>2. record \in Records /\ PayloadOf(record) = [cpu |-> cpu, lo |-> e, hi |-> e]
      BY <1>2, <1>5, Zenon DEF Records, PayloadOf
    <2> HIDE DEF record, cpu
    <2>3. PayloadsOf(pending') = Append(PayloadsOf(pending), Channel!Event(cpu, tail[cpu] + 1))
      BY Zenon, <1>1, <2>1, <2>2, PayloadsAppend DEF Channel!Event
    <2>4. tail[cpu] < head[cpu]
      BY <1>2, <1>3
    <2>5. PICK c \in CPUs : c = cpu
      BY Zenon, <1>2
    <2>6. Channel!Accept(c)
      BY Zenon, <1>4, <2>1, <2>3, <2>4, <2>5 DEF Channel!Accept, PayloadsOf, PayloadOf
    <2> QED BY Zenon, <2>6 DEF Channel!Next
  <1>6. CASE seq > e
    <2>1. /\ tail' = [tail EXCEPT ![cpu] = ll]
          /\ lost' = [lost EXCEPT ![cpu] = @ + (ll - tail[cpu])]
          /\ UNCHANGED pending
      BY <1>2, <1>6 DEF Judge, RecordLoss
    <2>2. ll \in Nat /\ tail[cpu] <= ll /\ ll <= head[cpu]
      BY <1>2, <1>3, <1>6 DEF LastLost
    <2>3. head[cpu] >= tail[cpu] + Slots
      BY <1>2, <1>6
    <2>4. UNCHANGED <<head, pending>>
      BY <1>4, <2>1
    <2>5. cpu \in CPUs
      BY <1>2
    <2> HIDE DEF ll, cpu
    <2> QED BY Zenon, <2>1, <2>2, <2>3, <2>4, <2>5, SkipChannel
  <1>7. CASE seq < e
    <2>1. UNCHANGED <<head, tail, lost, pending>>
      BY <1>2, <1>4, <1>7 DEF Judge
    <2> QED BY Zenon, <2>1 DEF Channel!chan
  <1> QED BY <1>2, <1>5, <1>6, <1>7

\* Reading a head drops events of the channel or does nothing to it.
LEMMA LookupChannel ==
    ASSUME Inv, LookupHead
    PROVE  [Channel!Next]_(Channel!chan)
  <1> DEFINE cpu == (nextCPU + offset) % NumCPU
             o == Overflow(head[cpu], tail[cpu])
  <1>1. ReaderTypeOK /\ BatchInv /\ head \in [CPUs -> Nat] /\ tail \in [CPUs -> Nat]
        /\ lost \in [CPUs -> Nat] /\ snap \in [CPUs -> Nat]
    BY Zenon DEF Inv, TypeOK, ReaderTypeOK, WriterTypeOK
  <1>2. nextCPU + offset \in Nat
    BY <1>1, SizesAssumption DEF ReaderTypeOK, CPUs
  <1>3. cpu \in CPUs
    BY <1>2, ShardFacts
  <1>4. tail[cpu] <= head[cpu] /\ head[cpu] \in Nat /\ tail[cpu] \in Nat /\ lost[cpu] \in Nat
    BY <1>1, <1>3 DEF BatchInv
  <1>5. o \in Nat /\ tail[cpu] + o <= head[cpu] /\ (o # 0 => head[cpu] >= tail[cpu] + Slots)
    BY Zenon, <1>4, OverflowType
  <1> HIDE DEF cpu, o
  <1>6. /\ tail' = [tail EXCEPT ![cpu] = tail[cpu] + o]
        /\ lost' = [lost EXCEPT ![cpu] = lost[cpu] + o]
        /\ UNCHANGED <<head, pending>>
    BY <1>4 DEF LookupHead, RecordLoss, cpu, o, wvars
  <1> DEFINE t == tail[cpu] + o
  <1>7. t \in Nat /\ tail[cpu] <= t /\ t <= head[cpu]
        /\ (t # tail[cpu] => head[cpu] >= tail[cpu] + Slots)
        /\ lost[cpu] + o = lost[cpu] + (t - tail[cpu])
    BY <1>4, <1>5
  <1>8. tail' = [tail EXCEPT ![cpu] = t] /\ lost' = [lost EXCEPT ![cpu] = @ + (t - tail[cpu])]
    BY Zenon, <1>6, <1>7
  <1> HIDE DEF t
  <1> QED BY Zenon, <1>3, <1>6, <1>7, <1>8, SkipChannel

\* Every step of the reader is a step of the channel or does nothing to it.
LEMMA ReaderChannel ==
    ASSUME Inv, Reader
    PROVE  [Channel!Next]_(Channel!chan)
  <1>1. CASE ReturnRecord
    <2>1. pending \in Seq(Records) /\ pending # <<>> /\ pending' = Tail(pending)
          /\ UNCHANGED <<head, tail, lost>>
      BY <1>1, PendingFacts DEF ReturnRecord, wvars
    <2>2. PayloadsOf(pending) # <<>> /\ PayloadsOf(pending') = Tail(PayloadsOf(pending))
      BY Zenon, <2>1, PayloadsTail
    <2>3. Channel!HandOver
      BY Zenon, <2>1, <2>2 DEF Channel!HandOver, PayloadsOf, PayloadOf
    <2> QED BY <2>3, Zenon DEF Channel!Next
  <1>2. CASE StartBatch \/ SelectSlot \/ CopyWord
    <2>1. UNCHANGED <<head, tail, lost, pending>>
      BY <1>2 DEF StartBatch, SelectSlot, CopyWord, wvars
    <2> QED BY <2>1, Zenon DEF Channel!chan
  <1>3. CASE LookupHead
    BY <1>3, LookupChannel
  <1>4. CASE Judge
    BY <1>4, JudgeChannel
  <1>5. CASE FinishBatch
    BY <1>5, FinishChannel DEF Channel!Next
  <1> QED BY Zenon, <1>1, <1>2, <1>3, <1>4, <1>5 DEF Reader

\* Every step of MapPolling is a step of the channel or does nothing to it.
LEMMA NextChannel == Inv /\ [Next]_vars => [Channel!Next]_(Channel!chan)
  <1> SUFFICES ASSUME Inv, [Next]_vars PROVE [Channel!Next]_(Channel!chan)
    OBVIOUS
  <1>1. CASE Reader
    BY <1>1, ReaderChannel
  <1>2. ASSUME NEW c \in CPUs, Writer(c) PROVE [Channel!Next]_(Channel!chan)
    BY Zenon, <1>2, WriterChannel
  <1>3. CASE UNCHANGED vars
    BY <1>3 DEF vars, wvars, rvars, Channel!chan
  <1> QED BY <1>1, <1>2, <1>3 DEF Next

\* emit_event and the polling reader implement the lossy per-CPU channel of
\* whole events, for every number of CPUs, ring and batch size.
THEOREM Refinement == Spec => ImplementsChannel
  <1>1. Safety => Channel!Spec
    BY InitChannel, NextChannel, Invariance, PTL DEF Safety, Channel!Spec
  <1> QED BY <1>1 DEF Spec, ImplementsChannel

-----------------------------------------------------------------------------
(* The order of a batch *)

\* The records of a batch have timestamps, so that they can be compared.
LEMMA StampType ==
    ASSUME Inv
    PROVE  \A k \in DOMAIN pending : Stamp(pending[k]) \in Nat
  <1> SUFFICES ASSUME NEW k \in DOMAIN pending PROVE Stamp(pending[k]) \in Nat
    OBVIOUS
  <1>1. pending[k].cpu \in CPUs
    BY PendingFacts
  <1>2. pending[k].lo \in 1 .. EventBound[pending[k].cpu]
    BY PendingBounds
  <1> QED BY Zenon, <1>1, <1>2, ClockAssumption DEF Stamp

\* The sort at the end of pollBatch puts the batch in timestamp order, and Read
\* only takes records off its front.
LEMMA SortedStep == Inv /\ BatchSorted /\ [Next]_vars => BatchSorted'
  <1> SUFFICES ASSUME Inv, BatchSorted, [Next]_vars PROVE BatchSorted'
    OBVIOUS
  <1>1. CASE UNCHANGED <<rpc, pending>>
    BY Zenon, <1>1 DEF BatchSorted, Stamp
  <1>2. CASE ReturnRecord
    <2>1. rpc = "read" /\ pending # <<>> /\ pending' = Tail(pending)
      BY <1>2 DEF ReturnRecord
    <2>2. pending \in Seq(Records)
      BY PendingFacts
    <2>3. \A k \in DOMAIN pending' : k \in Nat /\ k + 1 \in DOMAIN pending /\ pending'[k] = pending[k + 1]
      BY <2>1, <2>2
    <2> SUFFICES ASSUME NEW k \in DOMAIN pending', NEW l \in DOMAIN pending', k < l
                 PROVE  Stamp(pending'[k]) <= Stamp(pending'[l])
      BY Zenon DEF BatchSorted, Stamp
    <2>4. k + 1 < l + 1
      BY <2>3
    <2> QED BY Zenon, <2>1, <2>3, <2>4 DEF BatchSorted
  <1>3. CASE FinishBatch
    <2>1. PICK perm \in [DOMAIN pending -> DOMAIN pending] :
            StableOrder(pending, perm) /\ pending' = [k \in DOMAIN pending |-> pending[perm[k]]]
      BY <1>3 DEF FinishBatch
    <2> SUFFICES ASSUME NEW k \in DOMAIN pending', NEW l \in DOMAIN pending', k < l
                 PROVE  Stamp(pending'[k]) <= Stamp(pending'[l])
      BY Zenon DEF BatchSorted, Stamp
    <2>2. /\ pending'[k] = pending[perm[k]] /\ pending'[l] = pending[perm[l]]
          /\ perm[k] \in DOMAIN pending /\ perm[l] \in DOMAIN pending
          /\ k \in DOMAIN pending /\ l \in DOMAIN pending
      BY <2>1
    <2>3. \/ Stamp(pending'[k]) < Stamp(pending'[l])
          \/ Stamp(pending'[k]) = Stamp(pending'[l])
      BY Zenon, <2>1, <2>2 DEF StableOrder
    <2>4. Stamp(pending'[k]) \in Nat /\ Stamp(pending'[l]) \in Nat
      BY Zenon, <2>2, StampType
    <2> QED BY <2>3, <2>4
  <1>4. CASE StartBatch \/ SelectSlot \/ CopyWord \/ Judge
    <2>1. rpc' # "read"
      BY Zenon, <1>4 DEF StartBatch, SelectSlot, CopyWord, Judge
    <2> QED BY <2>1 DEF BatchSorted
  <1>5. CASE LookupHead
    <2>1. rpc' # "read"
      BY <1>5, Zenon DEF LookupHead
    <2> QED BY <2>1, Zenon DEF BatchSorted
  <1>6. ASSUME NEW c \in CPUs, Writer(c) PROVE BatchSorted'
    BY <1>1, <1>6 DEF Writer, BeginEmit, Store, Publish, rvars
  <1>7. CASE UNCHANGED vars
    BY <1>1, <1>7 DEF vars, rvars
  <1> QED BY <1>2, <1>3, <1>4, <1>5, <1>6, <1>7 DEF Next, Reader

\* What Read returns between two polls is in the order of the timestamps,
\* whatever the clocks of the CPUs show.
THEOREM BatchIsSorted == Spec => []BatchSorted
  <1>1. Init => BatchSorted
    BY DEF Init, BatchSorted
  <1> QED BY <1>1, SortedStep, InitInv, NextInv, PTL DEF Spec, Safety

-----------------------------------------------------------------------------
(* How long a shard waits *)

\* How many shards lie between n and c, going round upwards.
Distance(n, c) == IF c >= n THEN c - n ELSE c - n + NumCPU

\* The places on the queue of shards this batch has not examined.
Unserved == {k \in DOMAIN active : active[k] \notin examined}

\* Between batches, and until a batch examines its first slot: the waiting of a
\* shard and its distance from the shard served first are less than a round.
RestInv ==
    /\ rpc \in {"read", "heads"} =>
        examined = {} /\ \A c \in CPUs : waited[c] + Distance(nextCPU, c) < NumCPU
    /\ rpc = "heads" => pending = <<>>
    /\ rpc \in InSlot => active[1] \in examined

\* The same for the shards a batch has still to examine; once it has examined
\* one, a shard that is passed over has come closer by one at least.
BudgetInv ==
    \A l \in Unserved :
        /\ waited[active[l]] + Distance(nextCPU, active[l]) < NumCPU
        /\ rpc = "slots" => waited[active[l]] + Distance(nextCPU, active[l]) + 1 < NumCPU

\* On the queue those shards come first, in the order of their distance; only
\* the one being examined stands before them.
QueueInv ==
    \A l \in Unserved : \A k \in DOMAIN active : k < l =>
        /\ Distance(nextCPU, active[k]) < Distance(nextCPU, active[l])
        /\ active[k] \in examined => k = 1 /\ rpc \in InSlot

WaitInv == BoundedWait /\ RestInv /\ BudgetInv /\ QueueInv

\* A remainder of a number below two rounds.
LEMMA ModTwoRounds ==
    ASSUME NEW a \in Nat, a < NumCPU + NumCPU
    PROVE  a % NumCPU = IF a < NumCPU THEN a ELSE a - NumCPU
  <1>1. CASE a < NumCPU
    <2>1. a = NumCPU * 0 + a /\ a \in 0 .. NumCPU - 1
      BY <1>1, SizesAssumption
    <2>2. (NumCPU * 0 + a) % NumCPU = a
      BY <2>1, ModUnique, SizesAssumption
    <2> QED BY <1>1, <2>1, <2>2
  <1>2. CASE a >= NumCPU
    <2> DEFINE r == a - NumCPU
    <2>1. a = NumCPU * 1 + r /\ r \in 0 .. NumCPU - 1
      BY <1>2, SizesAssumption
    <2>2. (NumCPU * 1 + r) % NumCPU = r
      BY Zenon, <2>1, ModUnique, SizesAssumption
    <2> QED BY <1>2, <2>1, <2>2, SizesAssumption
  <1> QED BY <1>1, <1>2, SizesAssumption

\* Distances are less than a round; the first loop of pollBatch visits the shards
\* in their order; serving a shard brings those behind it closer.
LEMMA DistanceFacts ==
    ASSUME NEW n \in CPUs
    PROVE  /\ \A c \in CPUs : Distance(n, c) \in Nat /\ Distance(n, c) < NumCPU
           /\ \A j \in 0 .. NumCPU - 1 : Distance(n, (n + j) % NumCPU) = j
           /\ \A c, x \in CPUs : Distance(n, c) < Distance(n, x) =>
                Distance(ShardAfter(c), x) = Distance(n, x) - Distance(n, c) - 1
  <1>1. \A c \in CPUs : Distance(n, c) \in Nat /\ Distance(n, c) < NumCPU
    BY SizesAssumption DEF Distance, CPUs
  <1>2. ASSUME NEW j \in 0 .. NumCPU - 1
        PROVE  Distance(n, (n + j) % NumCPU) = j
    <2>1. n + j \in Nat /\ n + j < NumCPU + NumCPU
      BY SizesAssumption DEF CPUs
    <2>2. (n + j) % NumCPU = IF n + j < NumCPU THEN n + j ELSE (n + j) - NumCPU
      BY <2>1, ModTwoRounds
    <2> DEFINE s == (n + j) % NumCPU
    <2> HIDE DEF s
    <2>3. s = IF n + j < NumCPU THEN n + j ELSE (n + j) - NumCPU
      BY <2>2 DEF s
    <2>4. Distance(n, s) = j
      BY <2>3, SizesAssumption DEF Distance, CPUs
    <2> QED BY <2>4 DEF s
  <1>3. ASSUME NEW c \in CPUs, NEW x \in CPUs, Distance(n, c) < Distance(n, x)
        PROVE  Distance(ShardAfter(c), x) = Distance(n, x) - Distance(n, c) - 1
    <2>1. c + 1 \in Nat /\ c + 1 < NumCPU + NumCPU
      BY SizesAssumption DEF CPUs
    <2>2. ShardAfter(c) = IF c + 1 < NumCPU THEN c + 1 ELSE (c + 1) - NumCPU
      BY <2>1, ModTwoRounds DEF ShardAfter
    <2> DEFINE s == ShardAfter(c)
    <2> HIDE DEF s
    <2>3. s = IF c + 1 < NumCPU THEN c + 1 ELSE (c + 1) - NumCPU
      BY <2>2 DEF s
    <2>4. Distance(s, x) = Distance(n, x) - Distance(n, c) - 1
      BY <2>3, <1>3, SizesAssumption DEF Distance, CPUs
    <2> QED BY <2>4 DEF s
  <1> QED BY <1>1, <1>2, <1>3

\* A shard that is queued while the heads are looked up is further away than
\* those queued before it.
LEMMA LookupHeadWait ==
    ASSUME Inv, WaitInv, LookupHead
    PROVE  WaitInv'
  <1> DEFINE cpu == (nextCPU + offset) % NumCPU
  <1>a. /\ rpc = "heads" /\ offset \in 0 .. NumCPU - 1 /\ nextCPU \in CPUs /\ active \in Seq(CPUs)
        /\ waited \in [CPUs -> Nat]
    <2>1. /\ rpc = "heads" /\ offset < NumCPU /\ offset \in 0 .. NumCPU /\ nextCPU \in CPUs
          /\ active \in Seq(CPUs) /\ waited \in [CPUs -> Nat]
      BY Zenon DEF LookupHead, Inv, TypeOK, ReaderTypeOK, HistoryTypeOK
    <2> QED BY <2>1, SizesAssumption
  <1>b. rpc' # "error"
    BY ReaderBatch DEF Reader, BatchInv
  <1>c. /\ UNCHANGED <<rpc, nextCPU, pending, examined, waited>>
        /\ active' = active \/ active' = Append(active, cpu)
    BY Zenon, <1>b DEF LookupHead
  <1>d. examined = {} /\ \A c \in CPUs : waited[c] + Distance(nextCPU, c) < NumCPU
    BY <1>a DEF WaitInv, RestInv
  <1>e. rpc \notin InSlot /\ rpc # "slots"
    BY <1>a DEF InSlot
  <1>f. cpu \in CPUs /\ Distance(nextCPU, cpu) = offset
    <2>1. nextCPU + offset \in Nat
      BY <1>a, SizesAssumption DEF CPUs
    <2> QED BY Zenon, <2>1, <1>a, DistanceFacts, ShardFacts
  <1> HIDE DEF cpu
  <1>g. active' \in Seq(CPUs)
    <2>1. Append(active, cpu) \in Seq(CPUs)
      BY <1>a, <1>f
    <2> QED BY Zenon, <2>1, <1>a, <1>c
  <1>1. BoundedWait' /\ RestInv'
    BY Zenon, <1>a, <1>c, <1>d, <1>e DEF WaitInv, RestInv, BoundedWait
  <1>2. BudgetInv'
    <2>1. \A l \in DOMAIN active' : active'[l] \in CPUs
      BY <1>g
    <2> QED BY Zenon, <2>1, <1>c, <1>d, <1>e DEF BudgetInv, Unserved
  <1>3. QueueInv'
    <2>1. CASE active' = active
      BY Zenon, <2>1, <1>c DEF WaitInv, QueueInv, Unserved
    <2>2. CASE active' = Append(active, cpu)
      <3> SUFFICES ASSUME NEW l \in DOMAIN active', NEW k \in DOMAIN active', k < l
                   PROVE  Distance(nextCPU, active'[k]) < Distance(nextCPU, active'[l])
        BY Zenon, <1>c, <1>d DEF QueueInv, Unserved
      <3>1. /\ k \in DOMAIN active /\ active'[k] = active[k]
            /\ \/ l \in DOMAIN active /\ active'[l] = active[l]
               \/ active'[l] = cpu
        BY <2>2, <1>a, <1>f
      <3>2. CASE l \in DOMAIN active /\ active'[l] = active[l]
        BY Zenon, <3>1, <3>2, <1>d DEF WaitInv, QueueInv, Unserved
      <3>3. CASE active'[l] = cpu
        <4>1. PICK j \in 0 .. offset - 1 : active[k] = (nextCPU + j) % NumCPU
          BY Zenon, <1>a, <3>1 DEF Inv, BatchInv
        <4>2. j \in 0 .. NumCPU - 1 /\ j < offset
          BY <1>a, SizesAssumption
        <4>3. Distance(nextCPU, active[k]) = j
          BY Zenon, <4>1, <4>2, <1>a, DistanceFacts
        <4> QED BY <4>2, <4>3, <3>1, <3>3, <1>f
      <3> QED BY <3>1, <3>2, <3>3
    <2> QED BY <1>c, <2>1, <2>2
  <1> QED BY <1>1, <1>2, <1>3 DEF WaitInv

\* Examining the first shard of the queue leaves the others in their order.
LEMMA SelectSlotWait ==
    ASSUME Inv, WaitInv, SelectSlot
    PROVE  WaitInv'
  <1>a. /\ rpc \in {"heads", "slots"} /\ rpc' = "copy" /\ active # <<>>
        /\ examined' = examined \cup {Head(active)}
        /\ UNCHANGED <<active, nextCPU, pending, waited>>
    BY DEF SelectSlot
  <1>b. rpc \notin InSlot /\ rpc' \in InSlot
    BY <1>a DEF InSlot
  <1>c. Head(active) = active[1] /\ 1 \in DOMAIN active
    BY Zenon, <1>a, HeadOfActive DEF Inv, TypeOK
  <1>d. Unserved' \subseteq Unserved
    BY Zenon, <1>a DEF Unserved
  <1>1. BoundedWait' /\ RestInv'
    BY <1>a, <1>b, <1>c DEF WaitInv, RestInv, BoundedWait
  <1>2. BudgetInv'
    BY <1>a, <1>d DEF WaitInv, BudgetInv
  <1>3. QueueInv'
    <2> SUFFICES ASSUME NEW l \in Unserved', NEW k \in DOMAIN active, k < l
                 PROVE  /\ Distance(nextCPU, active[k]) < Distance(nextCPU, active[l])
                        /\ active[k] \in examined' => k = 1
      BY Zenon, <1>a, <1>b DEF QueueInv
    <2>1. /\ Distance(nextCPU, active[k]) < Distance(nextCPU, active[l])
          /\ active[k] \notin examined
      BY Zenon, <1>b, <1>d DEF WaitInv, QueueInv
    <2>2. active[k] = active[1] => k = 1
      BY Zenon, <1>c DEF Inv, BatchInv
    <2> QED BY Zenon, <2>1, <2>2, <1>a, <1>c
  <1> QED BY <1>1, <1>2, <1>3 DEF WaitInv

\* Once a slot has been judged the next batch starts behind its shard: every
\* shard still to be examined comes closer by one at least.
LEMMA JudgeWait ==
    ASSUME Inv, WaitInv, Judge
    PROVE  WaitInv'
  <1> DEFINE cpu == Head(active)
  <1>a. /\ rpc \in InSlot /\ rpc' = "slots" /\ nextCPU' = ShardAfter(cpu)
        /\ active' = Tail(active) \/ active' = Append(Tail(active), cpu)
        /\ UNCHANGED <<examined, waited>>
    BY Zenon DEF Judge, InSlot
  <1>b. active # <<>> /\ ReaderTypeOK /\ nextCPU \in CPUs /\ waited \in [CPUs -> Nat] /\ active \in Seq(CPUs)
    BY Zenon, <1>a DEF Inv, BatchInv, TypeOK, ReaderTypeOK, HistoryTypeOK
  <1>c. /\ cpu = active[1] /\ cpu \in CPUs /\ 1 \in DOMAIN active
        /\ Tail(active) \in Seq(CPUs)
        /\ \A k \in DOMAIN Tail(active) : k + 1 \in DOMAIN active /\ Tail(active)[k] = active[k + 1]
    BY Zenon, <1>b, HeadOfActive
  <1>d. cpu \in examined
    BY Zenon, <1>a, <1>c DEF WaitInv, RestInv
  <1> HIDE DEF cpu
  <1>e. ASSUME NEW l \in Unserved'
        PROVE  /\ l \in Nat \ {0} /\ l + 1 \in Unserved /\ active'[l] = active[l + 1] /\ active[l + 1] \in CPUs
               /\ \A k \in DOMAIN active' : k < l =>
                    k \in Nat \ {0} /\ k + 1 \in DOMAIN active /\ active'[k] = active[k + 1]
    <2>1. l \in DOMAIN active' /\ active'[l] # cpu /\ active'[l] \notin examined
      BY Zenon, <1>a, <1>d DEF Unserved
    <2> DEFINE rest == Tail(active)
    <2>a. rest \in Seq(CPUs) /\ (active' = rest \/ active' = Append(rest, cpu))
      BY Zenon, <1>a, <1>c
    <2> HIDE DEF rest
    <2>b. \A k \in DOMAIN active' : k \in Nat \ {0} /\ (k \in DOMAIN rest \/ active'[k] = cpu)
      BY <2>a
    <2>c. \A k \in DOMAIN rest : active'[k] = rest[k]
      BY <2>a
    <2>d. \A k \in DOMAIN active' : k < l /\ l \in DOMAIN rest => k \in DOMAIN rest
      BY <2>a
    <2>2. l \in DOMAIN Tail(active) /\ active'[l] = Tail(active)[l] /\ l \in Nat \ {0}
      BY Zenon, <2>1, <2>b, <2>c DEF rest
    <2>3. \A k \in DOMAIN active' : k < l => k \in DOMAIN Tail(active) /\ active'[k] = Tail(active)[k] /\ k \in Nat \ {0}
      BY Zenon, <2>2, <2>b, <2>c, <2>d DEF rest
    <2>4. l + 1 \in DOMAIN active /\ active'[l] = active[l + 1]
      BY Zenon, <2>2, <1>c
    <2>5. active[l + 1] \in CPUs
      BY <2>4, <1>b
    <2> QED BY Zenon, <2>1, <2>2, <2>3, <2>4, <2>5, <1>c DEF Unserved
  <1>f. ASSUME NEW m \in Unserved, m \in Nat, m > 1
        PROVE  /\ Distance(nextCPU', active[m]) = Distance(nextCPU, active[m]) - Distance(nextCPU, cpu) - 1
               /\ Distance(nextCPU, cpu) \in Nat /\ Distance(nextCPU, active[m]) \in Nat
    <2>1. Distance(nextCPU, cpu) < Distance(nextCPU, active[m])
      BY <1>f, <1>c DEF WaitInv, QueueInv
    <2>2. active[m] \in CPUs
      BY <1>b DEF Unserved
    <2> QED BY Zenon, <2>1, <2>2, <1>a, <1>b, <1>c, DistanceFacts
  <1>1. BoundedWait' /\ RestInv'
    <2>1. rpc' \notin InSlot /\ rpc' \notin {"read", "heads"} /\ rpc' # "heads"
      BY <1>a, Zenon DEF InSlot
    <2> QED BY Zenon, <2>1, <1>a DEF WaitInv, RestInv, BoundedWait
  <1>2. BudgetInv'
    <2> SUFFICES ASSUME NEW l \in Unserved'
                 PROVE  /\ waited[active'[l]] + Distance(nextCPU', active'[l]) < NumCPU
                        /\ waited[active'[l]] + Distance(nextCPU', active'[l]) + 1 < NumCPU
      BY Zenon, <1>a DEF BudgetInv
    <2> DEFINE x == active[l + 1]
    <2>1. l + 1 \in Unserved /\ l + 1 \in Nat /\ l + 1 > 1 /\ active'[l] = x /\ x \in CPUs
      BY <1>e
    <2>2. waited[x] + Distance(nextCPU, x) < NumCPU /\ waited[x] \in Nat
      BY <2>1, <1>b DEF WaitInv, BudgetInv
    <2>3. /\ Distance(nextCPU', x) = Distance(nextCPU, x) - Distance(nextCPU, cpu) - 1
          /\ Distance(nextCPU, cpu) \in Nat /\ Distance(nextCPU, x) \in Nat
      BY Zenon, <2>1, <1>f
    <2> HIDE DEF x
    <2> QED BY <2>1, <2>2, <2>3, SizesAssumption
  <1>3. QueueInv'
    <2> SUFFICES ASSUME NEW l \in Unserved', NEW k \in DOMAIN active', k < l
                 PROVE  /\ Distance(nextCPU', active'[k]) < Distance(nextCPU', active'[l])
                        /\ active'[k] \notin examined'
      BY Zenon DEF QueueInv
    <2> DEFINE x == active[l + 1]
               y == active[k + 1]
    <2>1. /\ l + 1 \in Unserved /\ l + 1 \in Nat /\ l + 1 > 1 /\ active'[l] = x
          /\ k + 1 \in DOMAIN active /\ k + 1 \in Nat /\ k + 1 > 1 /\ k + 1 < l + 1 /\ active'[k] = y
      BY <1>e
    <2>2. Distance(nextCPU, y) < Distance(nextCPU, x) /\ (y \in examined => k + 1 = 1)
      BY Zenon, <2>1 DEF WaitInv, QueueInv
    <2>3. y \notin examined
      BY <2>1, <2>2
    <2>4. k + 1 \in Unserved
      BY Zenon, <2>1, <2>3 DEF Unserved
    <2>5. /\ Distance(nextCPU', x) = Distance(nextCPU, x) - Distance(nextCPU, cpu) - 1
          /\ Distance(nextCPU', y) = Distance(nextCPU, y) - Distance(nextCPU, cpu) - 1
          /\ Distance(nextCPU, cpu) \in Nat /\ Distance(nextCPU, x) \in Nat /\ Distance(nextCPU, y) \in Nat
      BY Zenon, <2>1, <2>4, <1>f
    <2> HIDE DEF x, y
    <2> QED BY <2>1, <2>2, <2>3, <2>5, <1>a
  <1> QED BY <1>1, <1>2, <1>3 DEF WaitInv

\* A batch that ends full has examined a shard, and those it passed over have
\* come closer; the others have not waited.
LEMMA FinishBatchWait ==
    ASSUME Inv, WaitInv, FinishBatch
    PROVE  WaitInv'
  <1>a. /\ nextCPU \in CPUs /\ waited \in [CPUs -> Nat] /\ active \in Seq(CPUs)
        /\ NumCPU \in Nat
    BY Zenon, SizesAssumption DEF Inv, TypeOK, ReaderTypeOK, HistoryTypeOK
  <1>b. /\ rpc \in {"heads", "slots"} /\ rpc' = "read"
        /\ active = <<>> \/ Len(pending) >= BatchSize
        /\ waited' = [c \in CPUs |-> IF c \in {active[k] : k \in DOMAIN active} \ examined
                                     THEN waited[c] + 1 ELSE 0]
        /\ active' = <<>> /\ examined' = {} /\ nextCPU' = nextCPU
    BY Zenon DEF FinishBatch
  <1>c. Unserved # {} => rpc = "slots"
    <2>1. rpc = "heads" => pending = <<>>
      BY Zenon DEF WaitInv, RestInv
    <2>2. Unserved # {} => active # <<>>
      BY DEF Unserved
    <2> QED BY <2>1, <2>2, <1>b, SizesAssumption
  <1>1. ASSUME NEW c \in CPUs
        PROVE  waited'[c] < NumCPU /\ waited'[c] + Distance(nextCPU, c) < NumCPU
    <2>1. Distance(nextCPU, c) \in Nat /\ Distance(nextCPU, c) < NumCPU
      BY Zenon, <1>a, DistanceFacts
    <2>2. CASE \E k \in Unserved : c = active[k]
      <3>1. PICK k \in Unserved : c = active[k]
        BY Zenon, <2>2
      <3>2. c \in {active[i] : i \in DOMAIN active} \ examined
        BY Zenon, <3>1 DEF Unserved
      <3>3. waited'[c] = waited[c] + 1
        BY <3>2, <1>b
      <3>4. waited[c] + Distance(nextCPU, c) + 1 < NumCPU
        BY Zenon, <3>1, <1>c DEF WaitInv, BudgetInv
      <3>5. waited[c] \in Nat
        BY <1>a
      <3> QED BY <3>3, <3>4, <3>5, <2>1, <1>a
    <2>3. CASE ~ \E k \in Unserved : c = active[k]
      <3>1. c \notin {active[i] : i \in DOMAIN active} \ examined
        BY Zenon, <2>3 DEF Unserved
      <3>2. waited'[c] = 0
        BY <3>1, <1>b
      <3> QED BY <3>2, <2>1, <1>a
    <2> QED BY <2>2, <2>3
  <1>2. BoundedWait'
    BY Zenon, <1>1 DEF BoundedWait
  <1>3. RestInv'
    <2>1. rpc' # "heads" /\ rpc' \notin InSlot
      BY <1>b DEF InSlot
    <2> QED BY Zenon, <2>1, <1>1, <1>b DEF RestInv
  <1>4. BudgetInv' /\ QueueInv'
    <2>1. Unserved' = {}
      BY <1>b DEF Unserved
    <2> QED BY Zenon, <2>1 DEF BudgetInv, QueueInv
  <1> QED BY <1>2, <1>3, <1>4 DEF WaitInv

\* Steps that leave the queue and the waiting alone.
LEMMA SameWait ==
    ASSUME WaitInv, UNCHANGED <<active, nextCPU, examined, waited>>,
           \/ rpc' = rpc /\ (pending' = pending \/ rpc = "read")
           \/ rpc \in InSlot /\ rpc' \in InSlot
           \/ rpc = "read" /\ rpc' = "heads" /\ pending' = <<>> /\ active = <<>>
    PROVE  WaitInv'
  <1>a. Unserved' = Unserved
    BY Zenon DEF Unserved
  <1>1. BoundedWait'
    BY Zenon DEF WaitInv, BoundedWait
  <1>2. RestInv'
    BY DEF WaitInv, RestInv, InSlot
  <1>3. CASE active = <<>>
    <2>1. Unserved' = {}
      BY <1>3, <1>a DEF Unserved
    <2> QED BY Zenon, <2>1, <1>1, <1>2 DEF WaitInv, BudgetInv, QueueInv
  <1>4. CASE rpc' = rpc \/ (rpc \in InSlot /\ rpc' \in InSlot)
    <2>1. (rpc' = "slots" => rpc = "slots") /\ (rpc \in InSlot => rpc' \in InSlot)
      BY <1>4 DEF InSlot
    <2>2. BudgetInv'
      BY Zenon, <2>1, <1>a DEF WaitInv, BudgetInv
    <2>3. QueueInv'
      BY Zenon, <2>1, <1>a DEF WaitInv, QueueInv
    <2> QED BY Zenon, <2>2, <2>3, <1>1, <1>2 DEF WaitInv
  <1> QED BY <1>3, <1>4

\* Every step keeps the bound on waiting.
LEMMA NextWait == Inv /\ WaitInv /\ [Next]_vars => WaitInv'
  <1> SUFFICES ASSUME Inv, WaitInv, [Next]_vars PROVE WaitInv'
    OBVIOUS
  <1>1. CASE ReturnRecord
    BY <1>1, SameWait DEF ReturnRecord
  <1>2. CASE StartBatch
    <2>1. active = <<>>
      BY <1>2 DEF StartBatch, Inv, BatchInv
    <2> QED BY <1>2, <2>1, SameWait, Zenon DEF StartBatch
  <1>3. CASE CopyWord
    <2>1. rpc \in InSlot /\ rpc' \in InSlot
      BY <1>3 DEF CopyWord, InSlot
    <2> QED BY Zenon, <1>3, <2>1, SameWait DEF CopyWord
  <1>4. ASSUME NEW c \in CPUs, Writer(c) PROVE WaitInv'
    <2>1. rvars' = rvars
      BY <1>4, Zenon DEF Writer, BeginEmit, Store, Publish, rvars
    <2> QED BY <2>1, SameWait, Zenon DEF rvars
  <1>5. CASE UNCHANGED vars
    BY <1>5, SameWait DEF vars, rvars
  <1> QED BY Zenon, <1>1, <1>2, <1>3, <1>4, <1>5, LookupHeadWait, SelectSlotWait, JudgeWait,
             FinishBatchWait DEF Next, Reader

\* However busy the other CPUs are, no shard with unread events is passed over by
\* NumCPU batches in a row: for every number of CPUs, slots and batch size.
THEOREM WaitIsBounded == Spec => []BoundedWait
  <1>1. Init => WaitInv
    <2> SUFFICES ASSUME Init PROVE WaitInv
      OBVIOUS
    <2>1. /\ rpc = "read" /\ active = <<>> /\ examined = {} /\ nextCPU = 0
          /\ waited = [c \in CPUs |-> 0]
      BY DEF Init
    <2>2. nextCPU \in CPUs
      BY <2>1, SizesAssumption DEF CPUs
    <2>3. \A c \in CPUs : waited[c] = 0 /\ Distance(nextCPU, c) \in Nat /\ Distance(nextCPU, c) < NumCPU
      BY Zenon, <2>1, <2>2, DistanceFacts
    <2>4. BoundedWait
      BY <2>3, SizesAssumption DEF BoundedWait
    <2>5. \A c \in CPUs : waited[c] + Distance(nextCPU, c) < NumCPU
      BY <2>3, SizesAssumption
    <2>6. RestInv
      BY <2>1, <2>5 DEF RestInv, InSlot
    <2>7. Unserved = {}
      BY <2>1 DEF Unserved
    <2> QED BY Zenon, <2>4, <2>6, <2>7 DEF WaitInv, BudgetInv, QueueInv
  <1>2. WaitInv => BoundedWait
    BY DEF WaitInv
  <1> QED BY <1>1, <1>2, NextWait, InitInv, NextInv, PTL DEF Spec, Safety
=============================================================================
