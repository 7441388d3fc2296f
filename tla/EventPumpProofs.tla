--------------------------- MODULE EventPumpProofs ---------------------------
(***************************************************************************)
(* EverythingAccounted, TimesKeepDistance and DeltasLogged for any buffer, *)
(* any channel and any samples.  The line of an event is the handled ones, *)
(* the channel, the pump's hand and the kernel buffer: numbers grow along  *)
(* it, and a step moves an event one place on, counts it out or puts a new *)
(* one at the end.  The time of an event depends on one base, taken once.  *)
(***************************************************************************)
EXTENDS EventPump, FiniteSetTheorems, TLAPS

Records == [lost : Nat] \cup [id : Nat, ts : Nat, raw : Samples]
Items == [id : Nat, ts : Nat, at : Int]

\* The places of the events in a buffer.
Places(q) == {i \in DOMAIN q : ~IsLost(q[i])}

\* Numbers grow along the events F under way and the ones in the buffer q, up to n.
Line(F, q, n) ==
    /\ \A i \in 1 .. Len(F) : F[i].id <= n
    /\ \A i, j \in 1 .. Len(F) : i < j => F[i].id < F[j].id
    /\ \A k \in Places(q) : q[k].id <= n
    /\ \A k, l \in Places(q) : k < l => q[k].id < q[l].id
    /\ \A i \in 1 .. Len(F), k \in Places(q) : F[i].id < q[k].id

\* The times of the events F come from the base c.
Stamped(F, c) == \A i \in 1 .. Len(F) : c # <<>> /\ F[i].at = c.wall + (F[i].ts - c.mono)

TypeInv ==
    /\ emitted \in Nat /\ now = emitted + 1 /\ emitted <= MaxEvents
    /\ missed \in Nat /\ drops \in Nat /\ bad \in Nat
    /\ ring \in Seq(Records) /\ events \in Seq(Items) /\ handled \in Seq(Items)
    /\ hand \in Seq(Items) /\ abandoned \in Seq(Items)

PumpInv ==
    /\ TypeInv
    /\ pump # "send" => hand = <<>>
    /\ pump \in {"read", "send", "report"} => abandoned = <<>>
    /\ abandoned # <<>> => cancelled
    /\ clock # <<>> => clock.wall \in Int /\ clock.mono \in 1 .. now
    /\ \A k \in Places(ring) : ring[k].ts \in 1 .. now
    /\ Line(InFlight, ring, emitted) /\ Stamped(InFlight, clock)
    /\ emitted = Len(InFlight) + Len(abandoned) + bad + drops + Cardinality(Places(ring))

-----------------------------------------------------------------------------
(* Buffers and their events *)

\* What a record is.
LEMMA RecordKinds ==
    /\ \A r \in Records : ~IsLost(r) => r.id \in Nat /\ r.ts \in Nat
    /\ \A n \in Nat : [lost |-> n] \in Records /\ IsLost([lost |-> n])
    /\ \A id, ts \in Nat, raw \in Samples :
         LET r == [id |-> id, ts |-> ts, raw |-> raw] IN r \in Records /\ ~IsLost(r)
BY DEF Records, IsLost

\* A buffer holds finitely many events.
LEMMA PlacesFinite ==
    ASSUME NEW q \in Seq(Records)
    PROVE  /\ Places(q) \in SUBSET (1 .. Len(q))
           /\ IsFiniteSet(Places(q)) /\ Cardinality(Places(q)) \in Nat
<1>1. Places(q) \in SUBSET (1 .. Len(q)) /\ Len(q) \in Nat
    BY DEF Places
<1>2. IsFiniteSet(1 .. Len(q))
    BY <1>1, FS_Interval
<1> QED
    BY <1>1, <1>2, FS_Subset, FS_CardinalityType

\* A record more.
LEMMA PlacesAppend ==
    ASSUME NEW q \in Seq(Records), NEW r \in Records
    PROVE  /\ IsLost(r) => Places(Append(q, r)) = Places(q)
           /\ ~IsLost(r) => /\ Places(Append(q, r)) = Places(q) \cup {Len(q) + 1}
                            /\ Cardinality(Places(Append(q, r))) = Cardinality(Places(q)) + 1
           /\ \A k \in Places(q) : Append(q, r)[k] = q[k]
           /\ Append(q, r)[Len(q) + 1] = r
<1>1. /\ Len(q) \in Nat /\ DOMAIN q = 1 .. Len(q) /\ DOMAIN Append(q, r) = 1 .. Len(q) + 1
      /\ \A k \in 1 .. Len(q) : Append(q, r)[k] = q[k]
      /\ Append(q, r)[Len(q) + 1] = r
    OBVIOUS
<1>2. IsLost(r) => Places(Append(q, r)) = Places(q)
    BY <1>1 DEF Places
<1>3. ~IsLost(r) => Places(Append(q, r)) = Places(q) \cup {Len(q) + 1}
    BY <1>1 DEF Places
<1>4. Len(q) + 1 \notin Places(q)
    BY <1>1 DEF Places
<1>5. Cardinality(Places(q) \cup {Len(q) + 1}) = Cardinality(Places(q)) + 1
    BY <1>4, PlacesFinite, FS_AddElement, Zenon
<1> QED
    BY <1>1, <1>2, <1>3, <1>5, Zenon DEF Places

\* A record less.
LEMMA PlacesTail ==
    ASSUME NEW q \in Seq(Records), q # <<>>
    PROVE  /\ \A k \in Places(Tail(q)) :
                k \in Nat \ {0} /\ k + 1 \in Places(q) /\ Tail(q)[k] = q[k + 1]
           /\ 1 \in Places(q) <=> ~IsLost(Head(q))
           /\ Cardinality(Places(q)) =
                Cardinality(Places(Tail(q))) + IF IsLost(Head(q)) THEN 0 ELSE 1
<1>1. /\ Len(q) \in Nat \ {0} /\ DOMAIN q = 1 .. Len(q) /\ DOMAIN Tail(q) = 1 .. Len(q) - 1
      /\ \A k \in 1 .. Len(q) - 1 : Tail(q)[k] = q[k + 1]
      /\ Head(q) = q[1] /\ Tail(q) \in Seq(Records)
    OBVIOUS
<1>2. \A k \in Places(Tail(q)) :
                k \in Nat \ {0} /\ k + 1 \in Places(q) /\ Tail(q)[k] = q[k + 1]
    BY <1>1 DEF Places
<1>3. 1 \in Places(q) <=> ~IsLost(Head(q))
    BY <1>1 DEF Places
<1>4. \A k \in Places(q) \ {1} : k - 1 \in Places(Tail(q))
    BY <1>1 DEF Places
<1>5. PICK f : f = [k \in Places(Tail(q)) |-> k + 1]
    BY Zenon
<1>6. f \in Bijection(Places(Tail(q)), Places(q) \ {1})
    <2>1. f \in [Places(Tail(q)) -> Places(q) \ {1}]
        BY <1>2, <1>5
    <2>2. \A a, b \in Places(Tail(q)) : f[a] = f[b] => a = b
        BY <1>2, <1>5
    <2>3. \A t \in Places(q) \ {1} : \E s \in Places(Tail(q)) : f[s] = t
        <3> SUFFICES ASSUME NEW t \in Places(q) \ {1} PROVE f[t - 1] = t /\ t - 1 \in Places(Tail(q))
            BY Zenon
        <3> QED
            BY <1>1, <1>4, <1>5 DEF Places
    <2> QED
        BY <2>1, <2>2, <2>3, Zenon DEF Bijection, Injection, Surjection, IsInjective
<1>7. IsFiniteSet(Places(Tail(q))) /\ IsFiniteSet(Places(q)) /\ Cardinality(Places(q)) \in Nat
    BY <1>1, PlacesFinite, Zenon
<1>8. Cardinality(Places(q) \ {1}) = Cardinality(Places(Tail(q)))
    BY <1>6, <1>7, FS_Bijection, Zenon DEF ExistsBijection
<1>9. Cardinality(Places(q) \ {1}) =
        IF 1 \in Places(q) THEN Cardinality(Places(q)) - 1 ELSE Cardinality(Places(q))
    BY <1>7, FS_RemoveElement, Zenon
<1>10. PICK a, b : a = Cardinality(Places(q)) /\ b = Cardinality(Places(Tail(q)))
    OBVIOUS
<1>11. a \in Nat /\ b = IF IsLost(Head(q)) THEN a ELSE a - 1
    BY <1>3, <1>7, <1>8, <1>9, <1>10, Zenon
<1>12. a = b + IF IsLost(Head(q)) THEN 0 ELSE 1
    BY <1>11
<1> QED
    BY <1>2, <1>3, <1>10, <1>12, Zenon

-----------------------------------------------------------------------------
(* The line of events *)

\* Numbers are numbers.
LEMMA NumbersOf ==
    ASSUME NEW F \in Seq(Items), NEW q \in Seq(Records)
    PROVE  /\ \A i \in 1 .. Len(F) : F[i].id \in Nat
           /\ \A k \in Places(q) : k \in 1 .. Len(q) /\ q[k].id \in Nat /\ q[k].ts \in Nat
<1>1. \A i \in 1 .. Len(F) : F[i] \in Items
    OBVIOUS
<1>2. DOMAIN q = 1 .. Len(q) /\ \A k \in 1 .. Len(q) : q[k] \in Records
    OBVIOUS
<1>3. \A e \in Items : e.id \in Nat
    BY DEF Items
<1>4. \A k \in Places(q) : k \in 1 .. Len(q) /\ q[k].id \in Nat /\ q[k].ts \in Nat
    BY <1>2, RecordKinds, Zenon DEF Places
<1> QED
    BY <1>1, <1>3, <1>4, Zenon

\* A record at the end of the buffer: a new event, or the count of lost ones.
LEMMA LineAppend ==
    ASSUME NEW F \in Seq(Items), NEW q \in Seq(Records), NEW n \in Nat, Line(F, q, n),
           NEW r \in Records
    PROVE  /\ IsLost(r) => Line(F, Append(q, r), n)
           /\ ~IsLost(r) /\ r.id = n + 1 => Line(F, Append(q, r), n + 1)
<1>0. /\ \A i \in 1 .. Len(F) : F[i].id \in Nat /\ F[i].id <= n
      /\ \A k \in Places(q) : q[k].id \in Nat /\ q[k].id <= n /\ k \in Nat /\ k <= Len(q)
      /\ Len(q) \in Nat /\ Places(q) \in SUBSET (1 .. Len(q))
    BY NumbersOf, PlacesFinite DEF Line
<1>1. PICK Q : Q = Append(q, r)
    BY Zenon
<1>2. /\ \A k \in Places(q) : Q[k] = q[k]
      /\ Q[Len(q) + 1] = r
      /\ IsLost(r) => Places(Q) = Places(q)
      /\ ~IsLost(r) => Places(Q) = Places(q) \cup {Len(q) + 1}
    <2>1. /\ \A k \in Places(q) : Append(q, r)[k] = q[k]
          /\ Append(q, r)[Len(q) + 1] = r
          /\ IsLost(r) => Places(Append(q, r)) = Places(q)
          /\ ~IsLost(r) => Places(Append(q, r)) = Places(q) \cup {Len(q) + 1}
        BY PlacesAppend, Zenon
    <2> QED
        BY <1>1, <2>1, Zenon
<1>3. ASSUME IsLost(r) PROVE Line(F, Q, n)
    BY <1>2, <1>3, Zenon DEF Line
<1>4. ASSUME ~IsLost(r), r.id = n + 1 PROVE Line(F, Q, n + 1)
    <2>1. \A i \in 1 .. Len(F) : F[i].id <= n + 1
        BY <1>0
    <2>2. \A k \in Places(Q) : Q[k].id <= n + 1
        BY <1>0, <1>2, <1>4
    <2>3. ASSUME NEW k \in Places(Q), NEW l \in Places(Q), k < l PROVE Q[k].id < Q[l].id
        <3>1. CASE k \in Places(q) /\ l \in Places(q)
            BY <1>2, <2>3, <3>1 DEF Line
        <3>2. CASE k \in Places(q) /\ l = Len(q) + 1
            BY <1>0, <1>2, <1>4, <3>2
        <3>3. k # Len(q) + 1
            BY <1>0, <1>2, <1>4, <2>3
        <3> QED
            BY <1>2, <1>4, <3>1, <3>2, <3>3, Zenon
    <2>4. \A i \in 1 .. Len(F), k \in Places(Q) : F[i].id < Q[k].id
        <3>1. \A i \in 1 .. Len(F), k \in Places(q) : F[i].id < Q[k].id
            BY <1>2, Zenon DEF Line
        <3>2. \A i \in 1 .. Len(F) : F[i].id < Q[Len(q) + 1].id
            BY <1>0, <1>2, <1>4
        <3> QED
            BY <1>2, <1>4, <3>1, <3>2, Zenon
    <2> QED
        BY <2>1, <2>2, <2>3, <2>4, Zenon DEF Line
<1> QED
    BY <1>1, <1>3, <1>4

\* An event that finds no room uses a number up.
LEMMA LineDrop ==
    ASSUME NEW F \in Seq(Items), NEW q \in Seq(Records), NEW n \in Nat, Line(F, q, n)
    PROVE  Line(F, q, n + 1)
<1>1. /\ \A i \in 1 .. Len(F) : F[i].id \in Nat
      /\ \A k \in Places(q) : q[k].id \in Nat
    BY NumbersOf, Zenon
<1>2. /\ \A i \in 1 .. Len(F) : F[i].id <= n + 1
      /\ \A k \in Places(q) : q[k].id <= n + 1
    BY <1>1 DEF Line
<1> QED
    BY <1>2, Zenon DEF Line

\* The first record leaves the buffer; its event may become the last one under way.
LEMMA LineTail ==
    ASSUME NEW F \in Seq(Items), NEW q \in Seq(Records), NEW n \in Nat, Line(F, q, n), q # <<>>
    PROVE  /\ Line(F, Tail(q), n)
           /\ \A e \in Items : ~IsLost(Head(q)) /\ e.id = Head(q).id => Line(Append(F, e), Tail(q), n)
<1>1. PICK t : t = Tail(q)
    BY Zenon
<1>2. \A k \in Places(t) : k \in Nat \ {0} /\ k + 1 \in Places(q) /\ t[k] = q[k + 1]
    BY <1>1, PlacesTail, Zenon
<1>3. /\ \A k \in Places(t) : t[k].id <= n
      /\ \A i \in 1 .. Len(F), k \in Places(t) : F[i].id < t[k].id
    BY <1>2, Zenon DEF Line
<1>4. ASSUME NEW k \in Places(t), NEW l \in Places(t), k < l PROVE t[k].id < t[l].id
    <2>1. k + 1 < l + 1
        BY <1>2, <1>4
    <2> QED
        BY <1>2, <2>1, Zenon DEF Line
<1>5. Line(F, t, n)
    BY <1>3, <1>4, Zenon DEF Line
<1>6. ASSUME NEW e \in Items, ~IsLost(Head(q)), e.id = Head(q).id
      PROVE  Line(Append(F, e), t, n)
    <2>1. PICK G : G = Append(F, e)
        BY Zenon
    <2>2. /\ Len(F) \in Nat /\ Len(G) = Len(F) + 1 /\ G[Len(F) + 1] = e
          /\ \A i \in 1 .. Len(F) : G[i] = F[i]
        BY <2>1
    <2>3. 1 \in Places(q) /\ e.id = q[1].id
        BY <1>6, PlacesTail
    <2>4. /\ e.id <= n
          /\ \A i \in 1 .. Len(F) : F[i].id < e.id
        BY <2>3, Zenon DEF Line
    <2>5. \A k \in Places(t) : e.id < t[k].id
        <3> SUFFICES ASSUME NEW k \in Places(t) PROVE e.id < t[k].id
            BY Zenon
        <3>1. 1 < k + 1
            BY <1>2
        <3> QED
            BY <1>2, <2>3, <3>1, Zenon DEF Line
    <2>6. \A i \in 1 .. Len(G) : i \in 1 .. Len(F) \/ i = Len(F) + 1
        BY <2>2
    <2>7. \A i \in 1 .. Len(G) : G[i].id <= n
        BY <2>2, <2>4, <2>6, Zenon DEF Line
    <2>8. ASSUME NEW i \in 1 .. Len(G), NEW j \in 1 .. Len(G), i < j PROVE G[i].id < G[j].id
        <3>1. i \in 1 .. Len(F)
            BY <2>2, <2>8
        <3> QED
            BY <2>2, <2>4, <2>6, <2>8, <3>1, Zenon DEF Line
    <2>9. \A i \in 1 .. Len(G), k \in Places(t) : G[i].id < t[k].id
        BY <1>3, <2>2, <2>5, <2>6, Zenon
    <2> QED
        BY <1>5, <2>1, <2>7, <2>8, <2>9, Zenon DEF Line
<1> QED
    BY <1>1, <1>5, <1>6

\* The last event under way is given up.
LEMMA LinePrefix ==
    ASSUME NEW F \in Seq(Items), NEW G \in Seq(Items), NEW q, NEW n, NEW c,
           Line(F \o G, q, n), Stamped(F \o G, c)
    PROVE  Line(F, q, n) /\ Stamped(F, c)
<1>1. PICK H : H = F \o G
    BY Zenon
<1>2. \A i \in 1 .. Len(F) : i \in 1 .. Len(H) /\ H[i] = F[i]
    BY <1>1
<1> QED
    BY <1>1, <1>2, Zenon DEF Line, Stamped

-----------------------------------------------------------------------------
(* One step *)

\* The events under way are a sequence; the pump's hand comes last.
LEMMA FlightIsSeq ==
    ASSUME TypeInv
    PROVE  /\ InFlight \in Seq(Items) /\ handled \o events \in Seq(Items)
           /\ Len(InFlight) = Len(handled \o events) + Len(hand)
           /\ hand = <<>> => InFlight = handled \o events
<1>1. handled \in Seq(Items) /\ events \in Seq(Items) /\ hand \in Seq(Items)
    BY Zenon DEF TypeInv
<1>2. PICK F : F = handled \o events
    BY Zenon
<1>3. F \in Seq(Items)
    BY <1>1, <1>2
<1>4. F \o hand \in Seq(Items) /\ Len(F \o hand) = Len(F) + Len(hand)
    BY <1>1, <1>3
<1>5. F \o <<>> = F
    BY <1>3
<1> QED
    BY <1>2, <1>3, <1>4, <1>5, Zenon DEF InFlight

\* A step that leaves the events where they are.
LEMMA QuietStep ==
    ASSUME PumpInv,
           UNCHANGED <<emitted, now, missed, drops, bad, ring, handled, events, hand, abandoned, clock>>,
           pump' = "send" => pump = "send",
           pump' \in {"read", "send", "report"} => pump \in {"read", "send", "report"},
           pump = "send" => pump' = "send",
           cancelled => cancelled'
    PROVE  PumpInv'
<1>1. InFlight' = InFlight
    BY Zenon DEF InFlight
<1>2. TypeInv'
    BY Zenon DEF PumpInv, TypeInv
<1>3. (\A k \in Places(ring) : ring[k].ts \in 1 .. now)'
    BY Zenon DEF PumpInv
<1>4. Line(InFlight, ring, emitted)' /\ Stamped(InFlight, clock)'
    BY <1>1, Zenon DEF PumpInv
<1>5. (emitted = Len(InFlight) + Len(abandoned) + bad + drops + Cardinality(Places(ring)))'
    BY <1>1, Zenon DEF PumpInv
<1>6. (clock # <<>> => clock.wall \in Int /\ clock.mono \in 1 .. now)'
    BY Zenon DEF PumpInv
<1>7. /\ (pump # "send" => hand = <<>>)' /\ (abandoned # <<>> => cancelled)'
      /\ (pump \in {"read", "send", "report"} => abandoned = <<>>)'
    BY Zenon DEF PumpInv
<1> QED
    BY <1>2, <1>3, <1>4, <1>5, <1>6, <1>7, Zenon DEF PumpInv

\* handle gets the first event of the channel.
LEMMA TakeStep ==
    ASSUME PumpInv, RunEvent, events # <<>>
    PROVE  PumpInv'
<1>1. /\ events' = Tail(events) /\ handled' = Append(handled, Head(events))
      /\ UNCHANGED <<emitted, now, missed, drops, bad, ring, hand, abandoned, clock, pump, cancelled>>
    BY DEF RunEvent, kernel, pumping, others
<1>2. handled \in Seq(Items) /\ events \in Seq(Items)
    BY Zenon DEF PumpInv, TypeInv
<1>3. Append(handled, Head(events)) \o Tail(events) = handled \o events
    BY <1>2
<1>4. InFlight' = InFlight
    BY <1>1, <1>3, Zenon DEF InFlight
<1>5. events' \in Seq(Items) /\ handled' \in Seq(Items)
    BY <1>1, <1>2
<1>6. TypeInv'
    BY <1>1, <1>5, Zenon DEF PumpInv, TypeInv
<1>7. (\A k \in Places(ring) : ring[k].ts \in 1 .. now)'
    BY <1>1, Zenon DEF PumpInv
<1>8. Line(InFlight, ring, emitted)' /\ Stamped(InFlight, clock)'
    BY <1>1, <1>4, Zenon DEF PumpInv
<1>9. (emitted = Len(InFlight) + Len(abandoned) + bad + drops + Cardinality(Places(ring)))'
    BY <1>1, <1>4, Zenon DEF PumpInv
<1> QED
    BY <1>1, <1>6, <1>7, <1>8, <1>9, Zenon DEF PumpInv

\* The pump's event goes into the channel, or is given up at the end.
LEMMA SendStep ==
    ASSUME PumpInv, Send
    PROVE  PumpInv'
<1>1. /\ pump = "send" /\ hand' = <<>>
      /\ UNCHANGED <<emitted, now, missed, drops, bad, ring, handled, clock, cancelled>>
    BY DEF Send, kernel, running, others
<1>2. TypeInv /\ abandoned = <<>>
    BY <1>1, Zenon DEF PumpInv
<1>3. handled \in Seq(Items) /\ events \in Seq(Items) /\ hand \in Seq(Items)
    BY <1>2, Zenon DEF TypeInv
<1>4. CASE pump' = "read" /\ abandoned' = abandoned /\ events' = events \o hand
    <2>1. (handled \o (events \o hand)) \o <<>> = (handled \o events) \o hand
        BY <1>3
    <2>2. InFlight' = InFlight
        BY <1>1, <1>4, <2>1, Zenon DEF InFlight
    <2>3. events' \in Seq(Items) /\ hand' \in Seq(Items)
        BY <1>1, <1>3, <1>4
    <2>4. TypeInv'
        BY <1>1, <1>2, <1>4, <2>3, Zenon DEF TypeInv
    <2>5. (\A k \in Places(ring) : ring[k].ts \in 1 .. now)'
        BY <1>1, Zenon DEF PumpInv
    <2>6. Line(InFlight, ring, emitted)' /\ Stamped(InFlight, clock)'
        BY <1>1, <2>2, Zenon DEF PumpInv
    <2>7. (emitted = Len(InFlight) + Len(abandoned) + bad + drops + Cardinality(Places(ring)))'
        BY <1>1, <1>4, <2>2, Zenon DEF PumpInv
    <2> QED
        BY <1>1, <1>2, <1>4, <2>4, <2>5, <2>6, <2>7, Zenon DEF PumpInv
<1>5. CASE cancelled /\ pump' = "end" /\ events' = events /\ abandoned' = hand
    <2>1. PICK F : F = handled \o events
        BY Zenon
    <2>2. F \in Seq(Items) /\ Len(InFlight) = Len(F) + Len(hand) /\ InFlight = F \o hand
        BY <1>2, <2>1, FlightIsSeq, Zenon DEF InFlight
    <2>3. InFlight' = F
        <3>1. F \o <<>> = F
            BY <2>2
        <3> QED
            BY <1>1, <1>5, <2>1, <3>1, Zenon DEF InFlight
    <2>4. hand' \in Seq(Items) /\ abandoned' \in Seq(Items)
        BY <1>1, <1>3, <1>5
    <2>5. TypeInv'
        BY <1>1, <1>2, <1>5, <2>4, Zenon DEF TypeInv
    <2>6. (\A k \in Places(ring) : ring[k].ts \in 1 .. now)'
        BY <1>1, Zenon DEF PumpInv
    <2>7. Line(F, ring, emitted) /\ Stamped(F, clock)
        <3>1. Line(F \o hand, ring, emitted) /\ Stamped(F \o hand, clock)
            BY <2>2, Zenon DEF PumpInv
        <3> QED
            BY <1>3, <2>2, <3>1, LinePrefix
    <2>8. Line(InFlight, ring, emitted)' /\ Stamped(InFlight, clock)'
        BY <1>1, <2>3, <2>7, Zenon
    <2>9. PICK c : c = Cardinality(Places(ring))
        OBVIOUS
    <2>10. emitted = Len(F) + Len(hand) + 0 + bad + drops + c
        <3>1. emitted = (Len(F) + Len(hand)) + Len(abandoned) + bad + drops + c
            BY <2>2, <2>9, Zenon DEF PumpInv
        <3>2. Len(abandoned) = 0
            BY <1>2
        <3> QED
            BY <1>3, <2>2, <3>1, <3>2
    <2>11. c \in Nat /\ bad \in Nat /\ drops \in Nat
        BY <1>2, <2>9, PlacesFinite DEF TypeInv
    <2>12. emitted = Len(F) + Len(hand) + bad + drops + c
        BY <1>3, <2>2, <2>10, <2>11
    <2>13. (emitted = Len(InFlight) + Len(abandoned) + bad + drops + Cardinality(Places(ring)))'
        BY <1>1, <1>5, <2>3, <2>9, <2>12, Zenon
    <2>14. /\ pump' \notin {"read", "send", "report"}
           /\ (clock # <<>> => clock.wall \in Int /\ clock.mono \in 1 .. now)'
        BY <1>1, <1>5, Zenon DEF PumpInv
    <2> QED
        BY <1>1, <1>5, <2>5, <2>6, <2>8, <2>13, <2>14, Zenon DEF PumpInv
<1> QED
    BY <1>4, <1>5 DEF Send

\* A hook emits: a record at the end of the buffer, or one drop more.
LEMMA EmitStep ==
    ASSUME PumpInv, NEW raw \in Samples, Emit(raw)
    PROVE  PumpInv'
<1>1. /\ emitted < MaxEvents /\ emitted' = emitted + 1 /\ now' = now + 1
      /\ UNCHANGED <<bad, handled, events, hand, abandoned, clock, pump, cancelled>>
    BY DEF Emit, pumping, running, others
<1>2. TypeInv
    BY DEF PumpInv
<1>3. /\ emitted \in Nat /\ now \in Nat /\ now = emitted + 1 /\ missed \in Nat /\ drops \in Nat
      /\ bad \in Nat /\ ring \in Seq(Records)
    BY <1>2 DEF TypeInv
<1>4. InFlight' = InFlight /\ InFlight \in Seq(Items)
    BY <1>1, <1>2, FlightIsSeq, Zenon DEF InFlight
<1>5. PICK e : e = [id |-> emitted + 1, ts |-> now, raw |-> raw]
    BY Zenon
<1>6. e \in Records /\ ~IsLost(e) /\ e.id = emitted + 1 /\ e.ts = now
    <2>1. emitted + 1 \in Nat
        BY <1>3
    <2>2. e \in Records /\ ~IsLost(e)
        BY <1>3, <1>5, <2>1, RecordKinds, Zenon
    <2> QED
        BY <1>5, <2>2
<1>7. PICK c, n : c = Cardinality(Places(ring)) /\ n = Len(InFlight) + Len(abandoned) + bad
    OBVIOUS
<1>8. c \in Nat /\ n \in Nat /\ emitted = n + drops + c
    <2>1. c \in Nat
        BY <1>3, <1>7, PlacesFinite
    <2>2. Len(InFlight) \in Nat /\ Len(abandoned) \in Nat
        BY <1>2, <1>4 DEF TypeInv
    <2>3. emitted = n + drops + c
        BY <1>7, Zenon DEF PumpInv
    <2> QED
        BY <1>3, <1>7, <2>1, <2>2, <2>3
<1>9. Line(InFlight, ring, emitted) /\ Stamped(InFlight, clock)
    BY DEF PumpInv
<1>10. missed' \in Nat
    BY <1>3 DEF Emit
<1>11. \A k \in Places(ring) : ring[k].ts \in 1 .. now'
    BY <1>1, <1>3 DEF PumpInv
<1>12. clock # <<>> => clock.wall \in Int /\ clock.mono \in 1 .. now'
    BY <1>1, <1>3 DEF PumpInv
<1>13. SUFFICES /\ drops' \in Nat /\ ring' \in Seq(Records)
                /\ Line(InFlight, ring', emitted + 1)
                /\ \A k \in Places(ring') : ring'[k].ts \in 1 .. now'
                /\ emitted + 1 = n + drops' + Cardinality(Places(ring'))
    <2>1. now' = emitted' + 1 /\ emitted' \in Nat /\ emitted' <= MaxEvents
        BY <1>1, <1>3, TimeAssumption
    <2>2. TypeInv'
        BY <1>1, <1>2, <1>10, <1>13, <2>1, Zenon DEF TypeInv
    <2>3. Line(InFlight, ring, emitted)' /\ Stamped(InFlight, clock)'
        BY <1>1, <1>4, <1>9, <1>13, Zenon
    <2>4. (\A k \in Places(ring) : ring[k].ts \in 1 .. now)'
        BY <1>13, Zenon
    <2>5. (emitted = Len(InFlight) + Len(abandoned) + bad + drops + Cardinality(Places(ring)))'
        BY <1>1, <1>4, <1>7, <1>13, Zenon
    <2> QED
        BY <1>1, <1>12, <2>2, <2>3, <2>4, <2>5, Zenon DEF PumpInv
<1>14. CASE ~(Waiting < RingSize)
    <2>1. ring' = ring /\ drops' = drops + 1
        BY <1>14 DEF Emit
    <2>2. Line(InFlight, ring, emitted + 1)
        BY <1>3, <1>4, <1>9, LineDrop
    <2>3. emitted + 1 = n + (drops + 1) + c
        BY <1>3, <1>8
    <2>4. drops + 1 \in Nat
        BY <1>3
    <2> QED
        BY <1>3, <1>7, <1>11, <2>1, <2>2, <2>3, <2>4, Zenon
<1>15. CASE Waiting < RingSize
    <2>1. PICK q : q = IF missed > 0 THEN Append(ring, [lost |-> missed]) ELSE ring
        BY Zenon
    <2>2. drops' = drops /\ ring' = Append(q, e)
        <3>1. /\ drops' = drops
              /\ ring' = ring \o ((IF missed > 0 THEN <<[lost |-> missed]>> ELSE <<>>)
                                  \o <<[id |-> emitted + 1, ts |-> now, raw |-> raw]>>)
            BY <1>15 DEF Emit
        <3>2. PICK l : l = [lost |-> missed]
            BY Zenon
        <3>3. l \in Records
            BY <1>3, <3>2, RecordKinds, Zenon
        <3>4. ring \o (<<l>> \o <<e>>) = Append(Append(ring, l), e)
            BY <1>3, <1>6, <3>3
        <3>5. ring \o (<<>> \o <<e>>) = Append(ring, e)
            BY <1>3, <1>6
        <3> QED
            BY <1>5, <2>1, <3>1, <3>2, <3>4, <3>5, Zenon
    <2>3. /\ q \in Seq(Records) /\ Line(InFlight, q, emitted)
          /\ Cardinality(Places(q)) = c
          /\ \A k \in Places(q) : q[k].ts \in 1 .. now'
        <3>1. CASE missed > 0
            <4>1. PICK l : l = [lost |-> missed]
                BY Zenon
            <4>2. l \in Records /\ IsLost(l)
                BY <1>3, <4>1, RecordKinds, Zenon
            <4>3. q = Append(ring, l)
                BY <2>1, <3>1, <4>1, Zenon
            <4>4. q \in Seq(Records)
                BY <1>3, <4>2, <4>3
            <4>5. Places(q) = Places(ring) /\ \A k \in Places(ring) : q[k] = ring[k]
                BY <1>3, <4>2, <4>3, PlacesAppend, Zenon
            <4>6. Line(InFlight, q, emitted)
                BY <1>3, <1>4, <1>9, <4>2, <4>3, LineAppend
            <4> QED
                BY <1>7, <1>11, <4>4, <4>5, <4>6, Zenon
        <3>2. CASE ~(missed > 0)
            BY <1>3, <1>7, <1>9, <1>11, <2>1, <3>2, Zenon
        <3> QED
            BY <3>1, <3>2
    <2>4. /\ Places(ring') = Places(q) \cup {Len(q) + 1}
          /\ Cardinality(Places(ring')) = c + 1
          /\ \A k \in Places(q) : ring'[k] = q[k]
          /\ ring'[Len(q) + 1] = e
        BY <1>6, <2>2, <2>3, PlacesAppend, Zenon
    <2>5. Line(InFlight, ring', emitted + 1)
        BY <1>3, <1>4, <1>6, <2>2, <2>3, LineAppend
    <2>6. now \in 1 .. now'
        BY <1>1, <1>3
    <2>7. \A k \in Places(ring') : ring'[k].ts \in 1 .. now'
        BY <1>6, <2>3, <2>4, <2>6, Zenon
    <2>8. emitted + 1 = n + drops' + Cardinality(Places(ring'))
        BY <1>3, <1>8, <2>2, <2>4
    <2>9. ring' \in Seq(Records) /\ drops' \in Nat
        BY <1>3, <1>6, <2>2, <2>3
    <2> QED
        BY <2>5, <2>7, <2>8, <2>9, Zenon
<1> QED
    BY <1>14, <1>15

\* The base of the clock, and the time it gives an event.
LEMMA ClockGivesTime ==
    ASSUME PumpInv, NEW ts \in 1 .. now, NEW c \in Clocks(ts)
    PROVE  /\ c # <<>> /\ c.wall \in Int /\ c.mono \in 1 .. now
           /\ clock # <<>> => c = clock
           /\ EventTimestamp(ts, c, now) = c.wall + (ts - c.mono)
           /\ EventTimestamp(ts, c, now) \in Int
<1>1. emitted \in Nat /\ now = emitted + 1 /\ emitted <= MaxEvents
    BY DEF PumpInv, TypeInv
<1>2. c # <<>> /\ c.wall \in Int /\ c.mono \in 1 .. now /\ (clock # <<>> => c = clock)
    <2>1. CASE clock # <<>>
        BY <2>1, Zenon DEF Clocks, PumpInv
    <2>2. CASE clock = <<>>
        <3>1. PICK up \in {now, -1} : c = EventClock(now, up, ts)
            BY <2>2 DEF Clocks
        <3>2. /\ c.wall = now /\ c.mono = IF up >= 0 THEN up ELSE ts
              /\ DOMAIN c = {"wall", "mono"}
            BY <3>1 DEF EventClock
        <3>3. DOMAIN <<>> = {}
            OBVIOUS
        <3>4. c # <<>>
            BY <3>2, <3>3
        <3> QED
            BY <1>1, <2>2, <3>1, <3>2, <3>4
    <2> QED
        BY <2>1, <2>2
<1>3. PICK w, m : w = c.wall /\ m = c.mono
    OBVIOUS
<1>4. w \in Int /\ m \in 1 .. now
    BY <1>2, <1>3
<1>5. ts # 0 /\ ~(ts - m > MaxInt64) /\ ~(-(ts - m) > MaxInt64)
    BY <1>1, <1>4, TimeAssumption, DecodeAssumption
<1>6. EventTimestamp(ts, c, now) = w + (ts - m)
    BY <1>3, <1>5, Zenon DEF EventTimestamp
<1>7. w + (ts - m) \in Int
    BY <1>1, <1>4
<1> QED
    BY <1>2, <1>3, <1>6, <1>7, Zenon

\* The pump reads a record: a count of lost samples, an event or junk.
LEMMA ReadStep ==
    ASSUME PumpInv, ReadRecord
    PROVE  PumpInv'
<1>1. /\ pump = "read" /\ ring # <<>> /\ ring' = Tail(ring)
      /\ UNCHANGED <<emitted, now, missed, drops, handled, events, abandoned, cancelled>>
    BY DEF ReadRecord, running, others
<1>2. TypeInv /\ hand = <<>> /\ abandoned = <<>>
    BY <1>1, Zenon DEF PumpInv
<1>3. /\ emitted \in Nat /\ now = emitted + 1 /\ drops \in Nat /\ bad \in Nat
      /\ ring \in Seq(Records)
    BY <1>2 DEF TypeInv
<1>4. InFlight \in Seq(Items) /\ InFlight = handled \o events
    BY <1>2, FlightIsSeq, Zenon
<1>5. Line(InFlight, ring, emitted) /\ Stamped(InFlight, clock)
    BY DEF PumpInv
<1>6. ring' \in Seq(Records) /\ Head(ring) \in Records /\ Head(ring) = ring[1]
    BY <1>1, <1>3
<1>7. PICK F : F = InFlight
    OBVIOUS
<1>8. /\ F \in Seq(Items) /\ Line(F, ring', emitted)
      /\ \A e \in Items : ~IsLost(Head(ring)) /\ e.id = Head(ring).id
                              => Line(Append(F, e), ring', emitted)
    <2>1. F \in Seq(Items) /\ Line(F, ring, emitted)
        BY <1>4, <1>5, <1>7
    <2> QED
        BY <1>1, <1>3, <2>1, LineTail
<1>9. /\ \A k \in Places(ring') : k + 1 \in Places(ring) /\ ring'[k] = ring[k + 1]
      /\ 1 \in Places(ring) <=> ~IsLost(Head(ring))
      /\ Cardinality(Places(ring)) =
            Cardinality(Places(ring')) + IF IsLost(Head(ring)) THEN 0 ELSE 1
    BY <1>1, <1>3, PlacesTail, Zenon
<1>10. (\A k \in Places(ring) : ring[k].ts \in 1 .. now)'
    BY <1>1, <1>9, Zenon DEF PumpInv
<1>11. PICK c, d : c = Cardinality(Places(ring)) /\ d = Cardinality(Places(ring'))
    OBVIOUS
<1>12. d \in Nat /\ c = d + IF IsLost(Head(ring)) THEN 0 ELSE 1
    BY <1>6, <1>9, <1>11, PlacesFinite
<1>13. Len(F) \in Nat /\ emitted = Len(F) + 0 + bad + drops + c
    <2>1. Len(abandoned) = 0
        BY <1>2
    <2>2. emitted = Len(F) + Len(abandoned) + bad + drops + c
        BY <1>7, <1>11, Zenon DEF PumpInv
    <2> QED
        BY <1>8, <2>1, <2>2
<1>14. Len(abandoned') = 0
    BY <1>1, <1>2
<1>15. CASE UNCHANGED <<pump, hand, clock>> /\ bad' \in Nat
            /\ emitted = Len(F) + 0 + bad' + drops + d
    <2>1. InFlight' = F
        BY <1>1, <1>7, <1>15, Zenon DEF InFlight
    <2>2. TypeInv'
        BY <1>1, <1>2, <1>6, <1>15, Zenon DEF TypeInv
    <2>3. Line(InFlight, ring, emitted)' /\ Stamped(InFlight, clock)'
        BY <1>1, <1>5, <1>7, <1>8, <1>15, <2>1, Zenon
    <2>4. (emitted = Len(InFlight) + Len(abandoned) + bad + drops + Cardinality(Places(ring)))'
        BY <1>1, <1>11, <1>14, <1>15, <2>1, Zenon
    <2>5. (clock # <<>> => clock.wall \in Int /\ clock.mono \in 1 .. now)'
        BY <1>1, <1>15, Zenon DEF PumpInv
    <2> QED
        BY <1>1, <1>2, <1>10, <1>15, <2>2, <2>3, <2>4, <2>5, Zenon DEF PumpInv
<1>16. CASE IsLost(Head(ring)) /\ UNCHANGED <<pump, hand, clock, bad>>
    BY <1>3, <1>12, <1>13, <1>15, <1>16
<1>17. CASE ~IsLost(Head(ring)) /\ bad' = bad + 1 /\ UNCHANGED <<pump, hand, clock>>
    BY <1>3, <1>12, <1>13, <1>15, <1>17
<1>18. ASSUME ~IsLost(Head(ring)), bad' = bad, pump' = "send",
              NEW b \in Clocks(Head(ring).ts), clock' = b,
              hand' = <<[id |-> Head(ring).id, ts |-> Head(ring).ts,
                         at |-> EventTimestamp(Head(ring).ts, b, now)]>>
       PROVE  PumpInv'
    <2>1. Head(ring).id \in Nat /\ Head(ring).ts \in Nat /\ Head(ring).ts \in 1 .. now
        BY <1>6, <1>9, <1>18, RecordKinds, Zenon DEF PumpInv
    <2>2. PICK id, ts, at : id = Head(ring).id /\ ts = Head(ring).ts /\ at = EventTimestamp(ts, b, now)
        OBVIOUS
    <2>3. /\ b # <<>> /\ b.wall \in Int /\ b.mono \in 1 .. now /\ (clock # <<>> => b = clock)
          /\ at = b.wall + (ts - b.mono) /\ at \in Int
        BY <1>18, <2>1, <2>2, ClockGivesTime
    <2>4. PICK e : e = [id |-> id, ts |-> ts, at |-> at]
        BY Zenon
    <2>5. e \in Items /\ e.id = id /\ e.at = at /\ e.ts = ts
        BY <2>1, <2>2, <2>3, <2>4 DEF Items
    <2>6. hand' = <<e>>
        BY <1>18, <2>2, <2>4, Zenon
    <2>7. InFlight' = Append(F, e)
        <3>1. F \o <<e>> = Append(F, e)
            BY <1>8, <2>5
        <3> QED
            BY <1>1, <1>4, <1>7, <2>6, <3>1, Zenon DEF InFlight
    <2>8. Line(Append(F, e), ring', emitted)
        BY <1>8, <1>18, <2>2, <2>5, Zenon
    <2>9. PICK G : G = Append(F, e)
        BY Zenon
    <2>10. Len(G) = Len(F) + 1 /\ G[Len(F) + 1] = e /\ \A i \in 1 .. Len(F) : G[i] = F[i]
        BY <1>8, <2>5, <2>9
    <2>11. Stamped(G, b)
        <3>1. \A i \in 1 .. Len(G) : i \in 1 .. Len(F) \/ i = Len(F) + 1
            BY <1>13, <2>10
        <3>2. \A i \in 1 .. Len(F) : b # <<>> /\ F[i].at = b.wall + (F[i].ts - b.mono)
            BY <1>5, <1>7, <2>3, Zenon DEF Stamped
        <3> QED
            BY <2>3, <2>5, <2>10, <3>1, <3>2, Zenon DEF Stamped
    <2>12. Line(InFlight, ring, emitted)' /\ Stamped(InFlight, clock)'
        BY <1>1, <1>18, <2>7, <2>8, <2>9, <2>11, Zenon
    <2>13. hand' \in Seq(Items)
        BY <2>5, <2>6
    <2>14. TypeInv'
        BY <1>1, <1>2, <1>6, <1>18, <2>13, Zenon DEF TypeInv
    <2>15. emitted = Len(G) + 0 + bad + drops + d
        <3>1. c = d + 1
            BY <1>12, <1>18, Zenon
        <3>2. Len(G) = Len(F) + 1
            BY <2>10, Zenon
        <3> QED
            BY <1>3, <1>12, <1>13, <3>1, <3>2
    <2>16. (emitted = Len(InFlight) + Len(abandoned) + bad + drops + Cardinality(Places(ring)))'
        BY <1>1, <1>11, <1>14, <1>18, <2>7, <2>9, <2>15, Zenon
    <2>17. (clock # <<>> => clock.wall \in Int /\ clock.mono \in 1 .. now)'
        BY <1>1, <1>18, <2>3, Zenon
    <2> QED
        BY <1>1, <1>2, <1>10, <1>18, <2>12, <2>14, <2>16, <2>17, Zenon DEF PumpInv
<1> QED
    BY <1>16, <1>17, <1>18, Zenon DEF ReadRecord

-----------------------------------------------------------------------------
(* The theorems *)

\* No record, no event, no base yet.
LEMMA InitPump == Init => PumpInv
<1> SUFFICES ASSUME Init PROVE PumpInv
    OBVIOUS
<1>1. InFlight = <<>> /\ Len(InFlight) = 0 /\ Len(abandoned) = 0
    BY DEF Init, InFlight
<1>2. TypeInv
    BY TimeAssumption DEF Init, TypeInv
<1>3. Places(ring) = {}
    BY DEF Init, Places
<1>4. Cardinality(Places(ring)) = 0
    BY <1>3, FS_EmptySet
<1>5. Line(InFlight, ring, emitted) /\ Stamped(InFlight, clock)
    BY <1>1, <1>3 DEF Line, Stamped
<1>6. emitted = Len(InFlight) + Len(abandoned) + bad + drops + Cardinality(Places(ring))
    BY <1>1, <1>4 DEF Init
<1>7. hand = <<>> /\ abandoned = <<>> /\ clock = <<>>
    BY DEF Init
<1> QED
    BY <1>2, <1>3, <1>5, <1>6, <1>7, Zenon DEF PumpInv

\* Every step.
LEMMA NextPump ==
    ASSUME PumpInv, [Next]_vars
    PROVE  PumpInv'
<1>1. ASSUME NEW raw \in Samples, Emit(raw) PROVE PumpInv'
    BY <1>1, EmitStep
<1>2. CASE ReadRecord
    BY <1>2, ReadStep
<1>3. CASE Send
    BY <1>3, SendStep
<1>4. CASE RunEvent
    <2>1. CASE events # <<>>
        BY <1>4, <2>1, TakeStep
    <2>2. CASE events = <<>>
        BY <1>4, <2>2, QuietStep DEF RunEvent, kernel, pumping, others
    <2> QED
        BY <2>1, <2>2
<1>5. CASE ReadFails \/ Report
    BY <1>5, QuietStep DEF ReadFails, Report, kernel, running, others
<1>6. CASE PumpEnds
    <2>1. pump \in {"end", "close_errs", "close_events"} /\ pump' \in {"close_errs", "close_events", "done"}
        BY <1>6 DEF PumpEnds, Closes
    <2> QED
        BY <1>6, <2>1, QuietStep DEF PumpEnds, kernel, running, others
<1>7. CASE Closer
    BY <1>7, QuietStep DEF Closer, kernel, pumping, running
<1>8. CASE RunDone \/ RunErr
    BY <1>8, QuietStep DEF RunDone, RunErr, kernel, pumping, others
<1>9. CASE RunDropTick \/ RunDropTickFails
    <2>1. ASSUME NEW n, LogRingbufDrops(n)
          PROVE  UNCHANGED <<handled, kernel, pumping, others, events>>
        BY <2>1, Zenon DEF LogRingbufDrops
    <2>2. UNCHANGED <<handled, kernel, pumping, others, events>>
        BY <1>9, <2>1, Zenon DEF RunDropTick, RunDropTickFails
    <2> QED
        BY <2>2, QuietStep DEF kernel, pumping, others
<1>10. CASE Signal
    BY <1>10, QuietStep DEF Signal, kernel, pumping, running
<1>11. CASE MonitorReturns
    BY <1>11, QuietStep DEF MonitorReturns, StopContext, kernel, pumping, running
<1>12. ASSUME NEW w \in Workers, WorkerStep(w) \/ WorkerEnds(w) PROVE PumpInv'
    BY <1>12, QuietStep DEF WorkerStep, WorkerEnds, kernel, pumping, running
<1>13. CASE UNCHANGED vars
    BY <1>13, QuietStep DEF vars, kernel, pumping, running, others
<1> QED
    BY <1>1, <1>2, <1>3, <1>4, <1>5, <1>6, <1>7, <1>8, <1>9, <1>10, <1>11, <1>12, <1>13, Zenon
    DEF Next, Pump

\* The line of events and its times, in every reachable state.
THEOREM PumpInvariance == Spec => []PumpInv
BY InitPump, NextPump, PTL DEF Spec

\* Every event emitted is handled, under way in order, counted as dropped or
\* undecodable, or given up at the end, whatever the sizes of the kernel's
\* buffer and of the channel between Sensor.Events and Run.
THEOREM NothingIsLost == Spec => []EverythingAccounted
<1>1. PumpInv => EverythingAccounted
    <2> SUFFICES ASSUME PumpInv PROVE EverythingAccounted
        OBVIOUS
    <2>1. InFlight \in Seq(Items)
        BY FlightIsSeq DEF PumpInv
    <2>2. DOMAIN InFlight = 1 .. Len(InFlight)
        BY <2>1
    <2>3. \A i, j \in DOMAIN InFlight : i < j => InFlight[i].id < InFlight[j].id
        BY <2>2, Zenon DEF PumpInv, Line
    <2>4. Waiting = Cardinality(Places(ring))
        BY Zenon DEF Waiting, Places
    <2> QED
        BY <2>3, <2>4, Zenon DEF PumpInv, EverythingAccounted
<1> QED
    BY <1>1, PumpInvariance, PTL

\* The times eventTimestamp gives the detector are as far apart as the
\* kernel's, because the base of the conversion is taken once.
THEOREM TimesAreKept == Spec => []TimesKeepDistance
<1>1. PumpInv => TimesKeepDistance
    <2> SUFFICES ASSUME PumpInv, NEW i \in DOMAIN handled, NEW j \in DOMAIN handled
                 PROVE  handled[i].at - handled[j].at = handled[i].ts - handled[j].ts
        BY Zenon DEF TimesKeepDistance
    <2>1. /\ handled \in Seq(Items) /\ events \in Seq(Items) /\ hand \in Seq(Items)
        BY Zenon DEF PumpInv, TypeInv
    <2>2. PICK F : F = handled \o (events \o hand)
        BY Zenon
    <2>3. InFlight = F
        BY <2>1, <2>2 DEF InFlight
    <2>4. /\ i \in 1 .. Len(F) /\ j \in 1 .. Len(F)
          /\ F[i] = handled[i] /\ F[j] = handled[j]
          /\ handled[i] \in Items /\ handled[j] \in Items
        BY <2>1, <2>2
    <2>5. Stamped(F, clock)
        BY <2>3, Zenon DEF PumpInv
    <2>6. /\ clock # <<>>
          /\ handled[i].at = clock.wall + (handled[i].ts - clock.mono)
          /\ handled[j].at = clock.wall + (handled[j].ts - clock.mono)
        BY <2>4, <2>5, Zenon DEF Stamped
    <2>7. PICK w, m, a, b : w = clock.wall /\ m = clock.mono /\ a = handled[i].ts /\ b = handled[j].ts
        OBVIOUS
    <2>8. w \in Int /\ m \in Int /\ a \in Int /\ b \in Int
        <3>1. clock.wall \in Int /\ clock.mono \in 1 .. now /\ now \in Nat
            BY <2>6 DEF PumpInv, TypeInv
        <3>2. a \in Nat /\ b \in Nat
            BY <2>4, <2>7 DEF Items
        <3> QED
            BY <2>7, <3>1, <3>2
    <2>9. (w + (a - m)) - (w + (b - m)) = a - b
        BY <2>8
    <2> QED
        BY <2>6, <2>7, <2>9, Zenon
<1> QED
    BY <1>1, PumpInvariance, PTL

\* Two events are as far apart in wall-clock time as they were in the kernel,
\* whatever the base: what the detector's windows need of eventTimestamp.
THEOREM TimestampKeepsDistance ==
    ASSUME NEW a \in Nat \ {0}, NEW b \in Nat \ {0}, NEW instant \in Int,
           NEW wall \in Int, NEW mono \in Nat,
           a - mono <= MaxInt64, mono - a <= MaxInt64,
           b - mono <= MaxInt64, mono - b <= MaxInt64
    PROVE  LET base == [wall |-> wall, mono |-> mono]
           IN  EventTimestamp(b, base, instant) - EventTimestamp(a, base, instant) = b - a
BY DecodeAssumption DEF EventTimestamp


-----------------------------------------------------------------------------
(* The drop counters *)

Totals == [drops : Nat, gaps : Nat]

CountersInv == lost \in Nat /\ last \in Totals /\ DeltasLogged

\* A round of logRingbufDrops, complete or ended early by a counter that cannot
\* be read, logs what the totals have grown by since the last reading.
LEMMA RoundLogs ==
    ASSUME PumpInv, CountersInv, NEW n \in 0 .. 2, LogRingbufDrops(n)
    PROVE  CountersInv'
<1>1. drops \in Nat /\ lost \in Nat /\ drops' = drops /\ lost' = lost
    BY Zenon DEF PumpInv, TypeInv, CountersInv, LogRingbufDrops, kernel, pumping
<1>2. /\ last.drops \in Nat /\ last.gaps \in Nat /\ last.drops <= drops /\ last.gaps <= lost
      /\ logged = last
    BY DEF CountersInv, DeltasLogged, Totals
<1>3. /\ last' = [drops |-> IF n >= 1 THEN drops ELSE last.drops, gaps |-> IF n = 2 THEN lost ELSE last.gaps]
      /\ logged' = [f \in {"drops", "gaps"} |->
                      logged[f] + IF n >= (IF f = "drops" THEN 1 ELSE 2) THEN Delta(last'[f], last[f]) ELSE 0]
    BY Zenon DEF LogRingbufDrops, Gaps
<1>4. /\ last'.drops \in Nat /\ last'.gaps \in Nat /\ last'.drops <= drops /\ last'.gaps <= lost
      /\ last' \in Totals
    BY <1>1, <1>2, <1>3 DEF Totals
<1>5. logged'["drops"] = last'["drops"]
    BY <1>1, <1>2, <1>3 DEF Delta
<1>6. logged'["gaps"] = last'["gaps"]
    BY <1>1, <1>2, <1>3 DEF Delta
<1>7. logged' = last'
    BY <1>3, <1>5, <1>6
<1> QED
    BY <1>1, <1>4, <1>7, Zenon DEF CountersInv, DeltasLogged

\* Counters only grow, and nothing else touches what was logged.
LEMMA CountersGrow ==
    ASSUME CountersInv, UNCHANGED <<last, logged>>, drops' \in Nat, drops \in Nat, drops' >= drops,
           lost' \in Nat, lost' >= lost
    PROVE  CountersInv'
BY DEF CountersInv, DeltasLogged, Totals

\* Every step keeps what was logged equal to the totals last seen.
LEMMA NextCounters == PumpInv /\ CountersInv /\ [Next]_vars => CountersInv'
<1> SUFFICES ASSUME PumpInv, CountersInv, [Next]_vars PROVE CountersInv'
    OBVIOUS
<1>a. drops \in Nat /\ lost \in Nat /\ ring \in Seq(Records)
    BY Zenon DEF PumpInv, TypeInv, CountersInv
<1>1. CASE UNCHANGED <<last, logged, drops, lost>>
    BY <1>1, <1>a, CountersGrow
<1>2. ASSUME NEW raw \in Samples, Emit(raw) PROVE CountersInv'
    <2>1. UNCHANGED <<last, logged, lost>> /\ (drops' = drops \/ drops' = drops + 1)
        BY <1>2, Zenon DEF Emit, running, pumping
    <2> QED
        BY <2>1, <1>a, CountersGrow
<1>3. CASE ReadRecord
    <2>1. /\ UNCHANGED <<last, logged, drops>> /\ ring # <<>>
          /\ lost' = lost \/ (IsLost(Head(ring)) /\ lost' = lost + Head(ring).lost)
        BY <1>3, Zenon DEF ReadRecord, running
    <2>2. Head(ring) \in Records
        BY <2>1, <1>a
    <2>3. IsLost(Head(ring)) => Head(ring).lost \in Nat
        BY <2>2 DEF Records, IsLost
    <2> QED
        BY <2>1, <2>3, <1>a, CountersGrow
<1>4. CASE ReadFails \/ Report \/ Send \/ PumpEnds \/ Closer
    BY <1>4, <1>1, Zenon DEF ReadFails, Report, Send, PumpEnds, Closer, kernel, running, pumping
<1>5. CASE RunDone \/ RunErr \/ RunEvent
    BY <1>5, <1>1, Zenon DEF RunDone, RunErr, RunEvent, kernel, pumping
<1>6. CASE RunDropTick \/ RunDropTickFails
    <2>1. \E n \in 0 .. 2 : LogRingbufDrops(n)
        BY <1>6 DEF RunDropTick, RunDropTickFails
    <2> QED
        BY <2>1, RoundLogs, Zenon
<1>7. CASE Signal \/ MonitorReturns
    BY <1>7, <1>1, Zenon DEF Signal, MonitorReturns, kernel, pumping, running
<1>8. ASSUME NEW w \in Workers, WorkerStep(w) \/ WorkerEnds(w) PROVE CountersInv'
    BY <1>8, <1>1, Zenon DEF WorkerStep, WorkerEnds, kernel, pumping, running
<1>9. CASE UNCHANGED vars
    BY <1>9, <1>1, Zenon DEF vars, kernel, pumping, running
<1> QED
    BY <1>2, <1>3, <1>4, <1>5, <1>6, <1>7, <1>8, <1>9, Zenon DEF Next, Pump

\* What logRingbufDrops reports adds up to the totals it has seen, and these are
\* never ahead of the counters: no loss is reported twice.
THEOREM LossesAreLoggedOnce == Spec => []DeltasLogged
<1>1. Init => CountersInv
    BY DEF Init, CountersInv, DeltasLogged, Totals
<1>2. CountersInv => DeltasLogged
    BY DEF CountersInv
<1> QED
    BY <1>1, <1>2, NextCounters, PumpInvariance, PTL DEF Spec
==============================================================================
