----------------------------- MODULE RunProofs -----------------------------
(***************************************************************************)
(* Theorems about Run, for every ring size, channel capacity, bound on the *)
(* number of events, and any sets of publishers and subscribers.           *)
(***************************************************************************)
EXTENDS Run, FiniteSetTheorems, TLAPS

(* What the ring holds, without division: before it has wrapped, slot i    *)
(* holds event i + 1; afterwards the slots from ringHead on hold the older *)
(* part of the window and the slots below ringHead the newer part.         *)
RingInv ==
  /\ ~ringFull => /\ ringHead = nextSeq - 1
                  /\ \A i \in Slots: i < ringHead => ring[i] = i + 1
  /\ ringFull => /\ nextSeq - 1 >= RingSize
                 /\ \A i \in Slots:
                      ring[i] = IF i < ringHead THEN nextSeq - ringHead + i
                                ELSE nextSeq - RingSize + i - ringHead

(* The window a snapshot returns is a sequence of the right length.        *)
LEMMA SnapshotType ==
  ASSUME TypeOK
  PROVE  /\ SnapshotLen \in Nat
         /\ SnapshotLen <= RingSize
         /\ \A k \in 1 .. SnapshotLen: SnapshotAt(k) \in Nat
         /\ snapshotLocked \in Seq(Nat)
<1>1. /\ RingSize \in Nat /\ RingSize > 0
      /\ ringHead \in Nat /\ ringHead < RingSize
      /\ ring \in [Slots -> Nat]
      /\ ringFull \in BOOLEAN
  BY RingSizeAssumption DEF TypeOK, Slots
<1>2. SnapshotLen \in Nat /\ SnapshotLen <= RingSize
  BY <1>1 DEF SnapshotLen
<1>3. ASSUME NEW k \in 1 .. SnapshotLen PROVE SnapshotAt(k) \in Nat
  <2>1. CASE ~ringFull
    <3>1. k - 1 \in Slots BY <1>1, <2>1 DEF SnapshotLen, Slots
    <3>2. QED BY <1>1, <2>1, <3>1 DEF SnapshotAt
  <2>2. CASE ringFull /\ ringHead + k - 1 < RingSize
    <3>1. ringHead + k - 1 \in Slots BY <1>1, <1>2, <2>2 DEF Slots
    <3>2. QED BY <1>1, <2>2, <3>1 DEF SnapshotAt
  <2>3. CASE ringFull /\ ~(ringHead + k - 1 < RingSize)
    <3>1. ringHead + k - 1 - RingSize \in Slots
      BY <1>1, <1>2, <2>3 DEF Slots, SnapshotLen
    <3>2. QED BY <1>1, <2>3, <3>1 DEF SnapshotAt
  <2>4. QED BY <1>1, <2>1, <2>2, <2>3
<1>4. snapshotLocked \in Seq(Nat)
  BY <1>2, <1>3 DEF snapshotLocked
<1>5. QED BY <1>2, <1>3, <1>4

(* What SnapshotSince keeps of a snapshot is a sequence of its events.     *)
LEMMA SinceType ==
  ASSUME NEW snap \in Seq(Nat), NEW seq \in Nat
  PROVE  /\ SinceOf(snap, seq) \in Seq(Nat)
         /\ Elems(SinceOf(snap, seq)) \subseteq Elems(snap)
<1> DEFINE older == {i \in DOMAIN snap: snap[i] <= seq}
<1>1. Cardinality(older) \in Nat
  <2>1. IsFiniteSet(1 .. Len(snap)) BY FS_Interval
  <2>2. older \subseteq 1 .. Len(snap) OBVIOUS
  <2>3. QED BY <2>1, <2>2, FS_Subset, FS_CardinalityType
<1> DEFINE n == Cardinality(older)
<1> HIDE DEF older, n
<1>2. n \in Nat BY <1>1 DEF n
<1>3. SinceOf(snap, seq) = SubSeq(snap, 1 + n, Len(snap))
  BY DEF SinceOf, n, older
<1>4. SubSeq(snap, 1 + n, Len(snap)) \in Seq(Nat)
  BY <1>2
<1>5. Elems(SubSeq(snap, 1 + n, Len(snap))) \subseteq Elems(snap)
  BY <1>2 DEF Elems
<1>6. QED BY <1>3, <1>4, <1>5

(* The ring invariant is inductive: Publish is the only writer.            *)
LEMMA RingStep ==
  ASSUME TypeOK, RingInv, [Next]_vars
  PROVE  RingInv'
<1>0. /\ RingSize \in Nat /\ RingSize > 0 /\ nextSeq \in Nat /\ nextSeq > 0
      /\ ringHead \in Nat /\ ringHead < RingSize
      /\ ring \in [Slots -> Nat] /\ ringFull \in BOOLEAN
  BY RingSizeAssumption DEF TypeOK, Slots
<1>1. ASSUME NEW p \in Publishers, Publish(p) PROVE RingInv'
  <2>1. /\ nextSeq' = nextSeq + 1
        /\ \A i \in Slots: ring'[i] = IF i = ringHead THEN nextSeq ELSE ring[i]
    BY <1>0, <1>1 DEF Publish, RingWrite
  <2>2. CASE ringHead + 1 < RingSize /\ ~ringFull
    <3>1. ringHead' = ringHead + 1 /\ ~ringFull'
      BY <1>0, <1>1, <2>2 DEF Publish, RingWrite
    <3>2. QED BY <1>0, <2>1, <2>2, <3>1 DEF RingInv, Slots
  <2>3. CASE ringHead + 1 < RingSize /\ ringFull
    <3>1. ringHead' = ringHead + 1 /\ ringFull' = TRUE
      BY <1>0, <1>1, <2>3 DEF Publish, RingWrite
    <3>2. ASSUME NEW i \in Slots
          PROVE  ring'[i] = IF i < ringHead' THEN nextSeq' - ringHead' + i
                            ELSE nextSeq' - RingSize + i - ringHead'
      BY <1>0, <2>1, <2>3, <3>1 DEF RingInv, Slots
    <3>3. nextSeq' - 1 >= RingSize
      BY <1>0, <2>1, <2>3, <3>1 DEF RingInv, Slots
    <3>4. QED BY <3>1, <3>2, <3>3 DEF RingInv, Slots
  <2>4. CASE ~(ringHead + 1 < RingSize) /\ ~ringFull
    <3>1. ringHead' = 0 /\ ringFull' = TRUE
      BY <1>0, <1>1, <2>4 DEF Publish, RingWrite
    <3>2. ASSUME NEW i \in Slots
          PROVE  ring'[i] = IF i < ringHead' THEN nextSeq' - ringHead' + i
                            ELSE nextSeq' - RingSize + i - ringHead'
      BY <1>0, <2>1, <2>4, <3>1 DEF RingInv, Slots
    <3>3. nextSeq' - 1 >= RingSize
      BY <1>0, <2>1, <2>4, <3>1 DEF RingInv, Slots
    <3>4. QED BY <3>1, <3>2, <3>3 DEF RingInv, Slots
  <2>5. CASE ~(ringHead + 1 < RingSize) /\ ringFull
    <3>1. ringHead' = 0 /\ ringFull' = TRUE
      BY <1>0, <1>1, <2>5 DEF Publish, RingWrite
    <3>2. ASSUME NEW i \in Slots
          PROVE  ring'[i] = IF i < ringHead' THEN nextSeq' - ringHead' + i
                            ELSE nextSeq' - RingSize + i - ringHead'
      BY <1>0, <2>1, <2>5, <3>1 DEF RingInv, Slots
    <3>3. nextSeq' - 1 >= RingSize
      BY <1>0, <2>1, <2>5, <3>1 DEF RingInv, Slots
    <3>4. QED BY <3>1, <3>2, <3>3 DEF RingInv, Slots
  <2>6. QED BY <1>0, <2>2, <2>3, <2>4, <2>5
<1>2. ASSUME UNCHANGED logVars PROVE RingInv'
  BY <1>2 DEF RingInv, logVars
<1>3. QED
  BY <1>1, <1>2 DEF Next, PublisherStep, SubscriberStep, HubStep, FanoutSend,
     FanoutPanic, Subscribe, SubscribeSinceSnapshot, SubscribeSinceRegister, Receive,
     ReceiveClosed, Unsub, closeAllSubscribers, evictIdleSubscribers, closeChan,
     IdleTimeout, vars

(* The ring invariant is what a snapshot needs.                            *)
LEMMA RingWindow ==
  ASSUME TypeOK, RingInv
  PROVE  ReplayWindow
<1> USE RingSizeAssumption DEF TypeOK, RingInv, Slots
<1>1. SnapshotLen = IF nextSeq - 1 < RingSize THEN nextSeq - 1 ELSE RingSize
  <2>1. CASE ringFull BY <2>1 DEF SnapshotLen
  <2>2. CASE ~ringFull BY <2>2 DEF SnapshotLen
  <2>3. QED BY <2>1, <2>2
<1>2. ASSUME NEW k \in 1 .. SnapshotLen
      PROVE  SnapshotAt(k) = nextSeq - 1 - SnapshotLen + k
  <2>1. CASE ~ringFull
    BY <2>1 DEF SnapshotLen, SnapshotAt
  <2>2. CASE ringFull /\ ringHead + k - 1 < RingSize
    BY <2>2 DEF SnapshotLen, SnapshotAt
  <2>3. CASE ringFull /\ ~(ringHead + k - 1 < RingSize)
    BY <2>3 DEF SnapshotLen, SnapshotAt
  <2>4. QED BY <2>1, <2>2, <2>3
<1>3. QED BY <1>1, <1>2 DEF ReplayWindow

(* The run's fields keep their types along every step.                     *)
LEMMA TypeStep ==
  ASSUME TypeOK, RingInv, [Next]_vars
  PROVE  TypeOK'
<1> USE DEF TypeOK
<1>1. ASSUME NEW p \in Publishers, Publish(p) PROVE TypeOK'
  <2>1. ring' \in [Slots -> Nat] /\ ringHead' \in Slots
    BY <1>1, RingSizeAssumption DEF Publish, RingWrite, Slots
  <2>4. ringFull' \in BOOLEAN
    BY <1>1 DEF Publish, RingWrite
  <2>2. author' \in Seq(Publishers) /\ nextSeq' \in Nat \ {0}
    BY <1>1 DEF Publish
  <2>3. QED BY <1>1, <2>1, <2>2, <2>4 DEF Publish, readerVars
<1>2. ASSUME NEW p \in Publishers, NEW s \in Subs, FanoutSend(p, s) PROVE TypeOK'
  <2>1. evt[p] \in Nat /\ Append(chan[s], evt[p]) \in Seq(Nat)
    OBVIOUS
  <2>2. /\ chan' = chan \/ chan' = [chan EXCEPT ![s] = Append(chan[s], evt[p])]
        /\ dropped' = dropped \/ dropped' = [dropped EXCEPT ![s] = dropped[s] \cup {evt[p]}]
        /\ idle' = idle \/ idle' = idle \ {s}
    BY <1>2 DEF FanoutSend
  <2>3. chan' \in [Subs -> Seq(Nat)] BY <2>1, <2>2
  <2>4. dropped' \in [Subs -> SUBSET Nat]
    <3>1. dropped[s] \cup {evt[p]} \in SUBSET Nat BY <2>1
    <3>2. QED BY <2>2, <3>1
  <2>5. targets' \in [Publishers -> SUBSET Subs]
    <3>1. targets[p] \ {s} \in SUBSET Subs OBVIOUS
    <3>2. QED BY <1>2, <3>1 DEF FanoutSend
  <2>6. QED BY <1>2, <2>2, <2>3, <2>4, <2>5 DEF FanoutSend, logVars, readerVars
<1>3. ASSUME NEW p \in Publishers, NEW s \in Subs, FanoutPanic(p, s) PROVE TypeOK'
  BY <1>3 DEF FanoutPanic, logVars, pubVars, readerVars
<1>4. ASSUME NEW s \in Subs, Subscribe(s) PROVE TypeOK'
  <2>1. nextSeq - 1 - SnapshotLen \in Nat
    BY RingWindow, RingSizeAssumption DEF ReplayWindow
  <2>2. snapshotLocked \in Seq(Nat) BY SnapshotType
  <2>3. QED BY <1>4, <2>1, <2>2 DEF Subscribe, Register, logVars, pubVars
<1>5. ASSUME NEW s \in Subs, NEW seq \in 0 .. nextSeq - 1, SubscribeSinceSnapshot(s, seq)
      PROVE  TypeOK'
  <2>1. snapshotLocked \in Seq(Nat) /\ seq \in Nat BY SnapshotType
  <2>2. SinceOf(snapshotLocked, seq) \in Seq(Nat) BY <2>1, SinceType
  <2>3. /\ st' = [st EXCEPT ![s] = "joining"] \/ st' = [st EXCEPT ![s] = "done"]
        /\ mode' = mode \/ mode' = [mode EXCEPT ![s] = "since"]
        /\ since' = since \/ since' = [since EXCEPT ![s] = seq]
        /\ got' = got \/ got' = [got EXCEPT ![s] = SinceOf(snapshotLocked, seq)]
    BY <1>5 DEF SubscribeSinceSnapshot
  <2>4. /\ st' \in [Subs -> {"new", "joining", "reading", "done"}]
        /\ mode' \in [Subs -> {"none", "all", "since"}]
    BY <2>3
  <2>5. since' \in [Subs -> Nat] /\ got' \in [Subs -> Seq(Nat)]
    <3>1. since' \in [Subs -> Nat] BY <2>1, <2>3
    <3>2. got \in [Subs -> Seq(Nat)] OBVIOUS
    <3> HIDE DEF TypeOK
    <3>3. got' \in [Subs -> Seq(Nat)] BY <2>2, <2>3, <3>2
    <3>4. QED BY <3>1, <3>3
  <2>6. QED BY <1>5, <2>4, <2>5 DEF SubscribeSinceSnapshot, logVars, pubVars
<1>6. ASSUME NEW s \in Subs, SubscribeSinceRegister(s) PROVE TypeOK'
  BY <1>6 DEF SubscribeSinceRegister, Register, logVars, pubVars
<1>7. ASSUME NEW s \in Subs, Receive(s) PROVE TypeOK'
  <2>1. Head(chan[s]) \in Nat /\ Tail(chan[s]) \in Seq(Nat) BY <1>7 DEF Receive
  <2>2. QED BY <1>7, <2>1 DEF Receive, logVars, pubVars
<1>8. ASSUME NEW s \in Subs, ReceiveClosed(s) PROVE TypeOK'
  BY <1>8 DEF ReceiveClosed, logVars, pubVars
<1>9. ASSUME NEW s \in Subs, Unsub(s) PROVE TypeOK'
  BY <1>9 DEF Unsub, logVars, pubVars
<1>10. CASE closeAllSubscribers
  BY <1>10 DEF closeAllSubscribers, logVars, pubVars, readerVars
<1>11. CASE evictIdleSubscribers
  BY <1>11 DEF evictIdleSubscribers, logVars, pubVars, readerVars
<1>12. ASSUME NEW s \in Subs, closeChan(s) PROVE TypeOK'
  BY <1>12 DEF closeChan, logVars, pubVars, readerVars
<1>13. ASSUME NEW s \in Subs, IdleTimeout(s) PROVE TypeOK'
  BY <1>13 DEF IdleTimeout, logVars, pubVars, readerVars
<1>14. CASE UNCHANGED vars
  BY <1>14 DEF vars, logVars, pubVars, readerVars
<1>15. QED
  BY <1>1, <1>2, <1>3, <1>4, <1>5, <1>6, <1>7, <1>8, <1>9, <1>10, <1>11, <1>12,
     <1>13, <1>14 DEF Next, PublisherStep, SubscriberStep, HubStep

(* Elements of sequences that grow by Append and shrink by Tail.           *)
LEMMA ElemsAppend ==
  ASSUME NEW q \in Seq(Nat), NEW e \in Nat
  PROVE  Elems(Append(q, e)) = Elems(q) \cup {e}
<1>1. ASSUME NEW x \in Elems(Append(q, e)) PROVE x \in Elems(q) \cup {e}
  BY DEF Elems
<1>2. ASSUME NEW x \in Elems(q) PROVE x \in Elems(Append(q, e))
  <2>1. PICK i \in 1 .. Len(q): x = q[i] BY DEF Elems
  <2>2. i \in DOMAIN Append(q, e) /\ Append(q, e)[i] = x BY <2>1
  <2>3. QED BY <2>2 DEF Elems
<1>3. e \in Elems(Append(q, e))
  <2>1. Len(q) + 1 \in DOMAIN Append(q, e) /\ Append(q, e)[Len(q) + 1] = e OBVIOUS
  <2>2. QED BY <2>1 DEF Elems
<1>4. QED BY <1>1, <1>2, <1>3

LEMMA ElemsHeadTail ==
  ASSUME NEW q \in Seq(Nat), q # << >>
  PROVE  /\ Head(q) \in Nat
         /\ Tail(q) \in Seq(Nat)
         /\ Elems(q) = {Head(q)} \cup Elems(Tail(q))
<1>0. Len(q) \in Nat /\ Len(q) > 0 /\ Head(q) = q[1] /\ Head(q) \in Nat /\ Tail(q) \in Seq(Nat)
  OBVIOUS
<1>1. ASSUME NEW x \in Elems(q) PROVE x \in {Head(q)} \cup Elems(Tail(q))
  <2>1. PICK i \in 1 .. Len(q): x = q[i] BY DEF Elems
  <2>2. CASE i = 1 BY <1>0, <2>1, <2>2
  <2>3. CASE i # 1
    <3>1. i - 1 \in DOMAIN Tail(q) /\ Tail(q)[i - 1] = x BY <1>0, <2>1, <2>3
    <3>2. QED BY <3>1 DEF Elems
  <2>4. QED BY <2>2, <2>3
<1>2. ASSUME NEW x \in Elems(Tail(q)) PROVE x \in Elems(q)
  <2>1. PICK i \in DOMAIN Tail(q): x = Tail(q)[i] BY DEF Elems
  <2>2. i + 1 \in DOMAIN q /\ q[i + 1] = x BY <1>0, <2>1
  <2>3. QED BY <2>2 DEF Elems
<1>3. Head(q) \in Elems(q)
  <2>1. 1 \in DOMAIN q BY <1>0
  <2>2. QED BY <1>0, <2>1 DEF Elems
<1>4. QED BY <1>0, <1>1, <1>2, <1>3

(* The events of a snapshot are exactly the last SnapshotLen ones.         *)
LEMMA SnapshotElems ==
  ASSUME TypeOK, RingInv
  PROVE  Elems(snapshotLocked) = nextSeq - SnapshotLen .. nextSeq - 1
<1>1. /\ SnapshotLen \in Nat
      /\ nextSeq \in Nat
      /\ \A k \in 1 .. SnapshotLen: SnapshotAt(k) = nextSeq - 1 - SnapshotLen + k
  BY RingWindow, SnapshotType DEF ReplayWindow, TypeOK
<1>2. Elems(snapshotLocked) = {SnapshotAt(k): k \in 1 .. SnapshotLen}
  BY DEF Elems, snapshotLocked
<1>3. ASSUME NEW x \in nextSeq - SnapshotLen .. nextSeq - 1
      PROVE  x \in {SnapshotAt(k): k \in 1 .. SnapshotLen}
  <2>1. x - nextSeq + SnapshotLen + 1 \in 1 .. SnapshotLen BY <1>1
  <2>2. SnapshotAt(x - nextSeq + SnapshotLen + 1) = x BY <1>1, <2>1
  <2>3. QED BY <2>1, <2>2
<1>4. ASSUME NEW k \in 1 .. SnapshotLen
      PROVE  SnapshotAt(k) \in nextSeq - SnapshotLen .. nextSeq - 1
  BY <1>1
<1>5. QED BY <1>2, <1>3, <1>4

(* A subscriber that has not registered yet has no trace in the fan-out.   *)
FreshInv ==
  \A s \in Subs: st[s] \in {"new", "joining"} =>
    /\ chan[s] = << >>
    /\ dropped[s] = {}
    /\ s \notin subscribers
    /\ s \notin toClose
    /\ ~chanOpen[s]
    /\ \A p \in Publishers: s \notin targets[p]

LEMMA FreshStep ==
  ASSUME TypeOK, FreshInv, [Next]_vars
  PROVE  FreshInv'
<1> USE DEF TypeOK, FreshInv
<1>1. ASSUME NEW p \in Publishers, Publish(p) PROVE FreshInv'
  BY <1>1 DEF Publish, readerVars
<1>2. ASSUME NEW p \in Publishers, NEW s \in Subs, FanoutSend(p, s) PROVE FreshInv'
  BY <1>2 DEF FanoutSend, readerVars
<1>3. ASSUME NEW p \in Publishers, NEW s \in Subs, FanoutPanic(p, s) PROVE FreshInv'
  BY <1>3 DEF FanoutPanic, pubVars, readerVars
<1>4. ASSUME NEW s \in Subs, Subscribe(s) PROVE FreshInv'
  BY <1>4 DEF Subscribe, Register, pubVars
<1>5. ASSUME NEW s \in Subs, NEW seq \in 0 .. nextSeq - 1, SubscribeSinceSnapshot(s, seq)
      PROVE  FreshInv'
  BY <1>5 DEF SubscribeSinceSnapshot, pubVars
<1>6. ASSUME NEW s \in Subs, SubscribeSinceRegister(s) PROVE FreshInv'
  BY <1>6 DEF SubscribeSinceRegister, Register, pubVars
<1>7. ASSUME NEW s \in Subs, Receive(s) PROVE FreshInv'
  BY <1>7 DEF Receive, pubVars
<1>8. ASSUME NEW s \in Subs, ReceiveClosed(s) PROVE FreshInv'
  BY <1>8 DEF ReceiveClosed, pubVars
<1>9. ASSUME NEW s \in Subs, Unsub(s) PROVE FreshInv'
  BY <1>9 DEF Unsub, pubVars
<1>10. CASE closeAllSubscribers
  BY <1>10 DEF closeAllSubscribers, pubVars, readerVars
<1>11. CASE evictIdleSubscribers
  BY <1>11 DEF evictIdleSubscribers, pubVars, readerVars
<1>12. ASSUME NEW s \in Subs, closeChan(s) PROVE FreshInv'
  BY <1>12 DEF closeChan, pubVars, readerVars
<1>13. ASSUME NEW s \in Subs, IdleTimeout(s) PROVE FreshInv'
  BY <1>13 DEF IdleTimeout, pubVars, readerVars
<1>14. CASE UNCHANGED vars
  BY <1>14 DEF vars, pubVars, readerVars
<1>15. QED
  BY <1>1, <1>2, <1>3, <1>4, <1>5, <1>6, <1>7, <1>8, <1>9, <1>10, <1>11, <1>12,
     <1>13, <1>14 DEF Next, PublisherStep, SubscriberStep, HubStep

(* Registration and teardown: the list of subscribers, the open channels   *)
(* and the pending closes stay consistent.                                 *)
OpenInv == NoLeakedChannel /\ RegisteredAreOpen

LEMMA OpenStep ==
  ASSUME TypeOK, FreshInv, OpenInv, [Next]_vars
  PROVE  OpenInv'
<1> USE DEF TypeOK, OpenInv, NoLeakedChannel, RegisteredAreOpen
<1>1. ASSUME UNCHANGED <<closed, subscribers, chanOpen, toClose>> PROVE OpenInv'
  BY <1>1
<1>2. ASSUME NEW s \in Subs, st[s] \in {"new", "joining"}, Register(s),
             UNCHANGED <<closed, toClose>>
      PROVE  OpenInv'
  <2>1. s \notin toClose BY <1>2 DEF FreshInv
  <2>2. CASE closed BY <1>2, <2>2 DEF Register
  <2>3. CASE ~closed BY <1>2, <2>1, <2>3 DEF Register
  <2>4. QED BY <2>2, <2>3
<1>3. ASSUME NEW s \in Subs, Unsub(s) PROVE OpenInv'
  BY <1>3 DEF Unsub
<1>4. CASE closeAllSubscribers
  BY <1>4 DEF closeAllSubscribers
<1>5. CASE evictIdleSubscribers
  BY <1>5 DEF evictIdleSubscribers
<1>6. ASSUME NEW s \in Subs, closeChan(s) PROVE OpenInv'
  BY <1>6 DEF closeChan
<1>7. QED
  BY <1>1, <1>2, <1>3, <1>4, <1>5, <1>6 DEF Next, PublisherStep, SubscriberStep,
     HubStep, Publish, FanoutSend, FanoutPanic, Subscribe, SubscribeSinceSnapshot,
     SubscribeSinceRegister, Receive, ReceiveClosed, IdleTimeout, vars

(* The accounting of SubscribeHasNoGap, and what it needs: a stream starts *)
(* at or before the next event, and a SubscribeSince between its two       *)
(* halves is marked as one.                                                *)
GapInv ==
  /\ \A s \in Subs: since[s] < nextSeq
  /\ \A s \in Subs: st[s] = "joining" => mode[s] = "since"
  /\ SubscribeHasNoGap

LEMMA GapStep ==
  ASSUME TypeOK, RingInv, FreshInv, GapInv, [Next]_vars
  PROVE  GapInv'
<1> DEFINE Seen(t) == Streamed(t) \cup InFlight(t) \cup dropped[t]
           Ok(t) == mode[t] = "all" => Seen(t) = since[t] + 1 .. nextSeq - 1
<1>1. ASSUME NEW p \in Publishers, Publish(p) PROVE GapInv'
  <2>1. \A t \in Subs: since'[t] < nextSeq'
    BY <1>1 DEF Publish, TypeOK, GapInv, readerVars
  <2>2. ASSUME NEW t \in subscribers PROVE Ok(t)'
    <3>1. /\ Streamed(t)' = Streamed(t) /\ dropped'[t] = dropped[t]
          /\ mode'[t] = mode[t] /\ since'[t] = since[t] /\ since[t] \in Nat
      BY <1>1 DEF Publish, Streamed, readerVars, TypeOK
    <3>2. InFlight(t)' = InFlight(t) \cup {nextSeq}
      <4>1. /\ \A q \in Publishers \ {p}: evt'[q] = evt[q] /\ targets'[q] = targets[q]
            /\ evt'[p] = nextSeq /\ t \in targets'[p] /\ targets[p] = {}
        BY <1>1 DEF Publish, TypeOK
      <4>2. QED BY <4>1 DEF InFlight
    <3>3. CASE mode[t] = "all"
      <4>1. Seen(t)' = Seen(t) \cup {nextSeq} BY <3>1, <3>2
      <4>2. Seen(t) = since[t] + 1 .. nextSeq - 1 BY <3>3 DEF GapInv, SubscribeHasNoGap
      <4>3. since[t] < nextSeq BY DEF GapInv, TypeOK
      <4>4. nextSeq \in Nat /\ nextSeq' = nextSeq + 1 BY <1>1 DEF Publish, TypeOK
      <4>5. (since[t] + 1 .. nextSeq - 1) \cup {nextSeq} = since[t] + 1 .. nextSeq' - 1
        BY <3>1, <4>3, <4>4
      <4>6. QED BY <3>1, <4>1, <4>2, <4>5
    <3>4. QED BY <3>1, <3>3
  <2>3. subscribers' = subscribers BY <1>1 DEF Publish
  <2>4. QED BY <1>1, <2>1, <2>2, <2>3 DEF GapInv, SubscribeHasNoGap, Publish, readerVars
<1>2. ASSUME NEW p \in Publishers, NEW s \in Subs, FanoutSend(p, s) PROVE GapInv'
  <2>1. /\ subscribers' = subscribers /\ nextSeq' = nextSeq /\ evt' = evt
        /\ mode' = mode /\ since' = since /\ got' = got /\ st' = st
    BY <1>2 DEF FanoutSend, logVars, readerVars
  <2>2. ASSUME NEW t \in subscribers PROVE Seen(t)' = Seen(t)
    <3>1. CASE t # s
      <4>1. chan'[t] = chan[t] /\ dropped'[t] = dropped[t]
        BY <1>2, <3>1 DEF FanoutSend, TypeOK
      <4>2. \A q \in Publishers: t \in targets'[q] <=> t \in targets[q]
        BY <1>2, <3>1 DEF FanoutSend, TypeOK
      <4>3. InFlight(t)' = InFlight(t) BY <2>1, <4>2 DEF InFlight
      <4>4. QED BY <2>1, <4>1, <4>3 DEF Streamed
    <3>2. CASE t = s
      <4>1. /\ InFlight(s) = InFlight(s)' \cup {evt[p]}
        <5>1. \A q \in Publishers: (s \in targets[q]) <=> (q = p \/ s \in targets'[q])
          BY <1>2 DEF FanoutSend, TypeOK
        <5>2. QED BY <2>1, <5>1 DEF InFlight
      <4>2. Streamed(s)' \cup dropped'[s] = Streamed(s) \cup dropped[s] \cup {evt[p]}
        <5>0. chan[s] \in Seq(Nat) /\ evt[p] \in Nat BY DEF TypeOK
        <5>1. CASE chan'[s] = Append(chan[s], evt[p]) /\ dropped'[s] = dropped[s]
          BY <2>1, <5>0, <5>1, ElemsAppend DEF Streamed
        <5>2. CASE chan'[s] = chan[s] /\ dropped'[s] = dropped[s] \cup {evt[p]}
          BY <2>1, <5>2 DEF Streamed
        <5>3. QED BY <1>2, <5>1, <5>2 DEF FanoutSend, TypeOK
      <4>3. QED BY <3>2, <4>1, <4>2
    <3>3. QED BY <3>1, <3>2
  <2>3. QED BY <2>1, <2>2 DEF GapInv, SubscribeHasNoGap
<1>3. ASSUME NEW s \in Subs, Subscribe(s) PROVE GapInv'
  <2>1. /\ nextSeq' = nextSeq /\ evt' = evt /\ targets' = targets
        /\ chan' = chan /\ dropped' = dropped
        /\ subscribers' \subseteq subscribers \cup {s}
        /\ \A t \in Subs \ {s}: got'[t] = got[t] /\ mode'[t] = mode[t] /\ since'[t] = since[t]
    BY <1>3 DEF Subscribe, Register, logVars, pubVars, TypeOK
  <2>2. ASSUME NEW t \in subscribers, t # s PROVE Ok(t)'
    <3>1. t \in Subs BY DEF TypeOK
    <3>2. Seen(t)' = Seen(t) BY <2>1, <2>2, <3>1 DEF Streamed, InFlight
    <3>3. QED BY <2>1, <2>2, <3>1, <3>2 DEF GapInv, SubscribeHasNoGap
  <2>3. Ok(s)'
    <3>1. chan[s] = << >> /\ dropped[s] = {} /\ InFlight(s) = {}
      BY <1>3 DEF Subscribe, FreshInv, InFlight
    <3>2. got'[s] = snapshotLocked /\ since'[s] = nextSeq - 1 - SnapshotLen
      BY <1>3 DEF Subscribe, TypeOK
    <3>3. Seen(s)' = Elems(snapshotLocked)
      <4>1. InFlight(s)' = InFlight(s) BY <2>1 DEF InFlight
      <4>2. Elems(<< >>) = {} BY DEF Elems
      <4>3. Streamed(s)' = Elems(snapshotLocked) \cup Elems(<< >>)
        BY <2>1, <3>1, <3>2 DEF Streamed
      <4>4. dropped'[s] = {} BY <2>1, <3>1
      <4>5. QED BY <3>1, <4>1, <4>2, <4>3, <4>4
    <3>4. SnapshotLen \in Nat /\ nextSeq \in Nat BY SnapshotType DEF TypeOK
    <3>5. Elems(snapshotLocked) = since'[s] + 1 .. nextSeq' - 1
      BY <2>1, <3>2, <3>4, SnapshotElems
    <3>6. QED BY <3>3, <3>5
  <2>4. \A t \in Subs: since'[t] < nextSeq'
    <3>1. nextSeq - 1 - SnapshotLen < nextSeq BY SnapshotType DEF TypeOK
    <3>2. QED BY <1>3, <2>1, <3>1 DEF Subscribe, TypeOK, GapInv
  <2>5. \A t \in Subs: st'[t] = "joining" => mode'[t] = "since"
    BY <1>3 DEF Subscribe, TypeOK, GapInv
  <2>6. QED BY <2>1, <2>2, <2>3, <2>4, <2>5 DEF GapInv, SubscribeHasNoGap
<1>4. ASSUME NEW s \in Subs, NEW seq \in 0 .. nextSeq - 1, SubscribeSinceSnapshot(s, seq)
      PROVE  GapInv'
  <2>1. /\ nextSeq' = nextSeq /\ evt' = evt /\ targets' = targets
        /\ chan' = chan /\ dropped' = dropped /\ subscribers' = subscribers
        /\ \A t \in Subs \ {s}: got'[t] = got[t] /\ mode'[t] = mode[t] /\ since'[t] = since[t]
        /\ s \notin subscribers
        /\ since'[s] = seq \/ since'[s] = since[s]
    BY <1>4 DEF SubscribeSinceSnapshot, logVars, pubVars, TypeOK, FreshInv
  <2>2. ASSUME NEW t \in subscribers PROVE Ok(t)'
    <3>1. t \in Subs \ {s} BY <2>1 DEF TypeOK
    <3>2. Seen(t)' = Seen(t) BY <2>1, <3>1 DEF Streamed, InFlight
    <3>3. QED BY <2>1, <3>1, <3>2 DEF GapInv, SubscribeHasNoGap
  <2>3. ASSUME NEW t \in Subs PROVE since'[t] < nextSeq'
    <3>1. seq < nextSeq BY DEF TypeOK
    <3>2. since[t] < nextSeq BY DEF GapInv
    <3>3. CASE t # s BY <2>1, <3>2, <3>3
    <3>4. CASE t = s BY <2>1, <3>1, <3>2, <3>4
    <3>5. QED BY <3>3, <3>4
  <2>4. \A t \in Subs: st'[t] = "joining" => mode'[t] = "since"
    BY <1>4 DEF SubscribeSinceSnapshot, TypeOK, GapInv
  <2>5. QED BY <2>1, <2>2, <2>3, <2>4 DEF GapInv, SubscribeHasNoGap
<1>5. ASSUME NEW s \in Subs, SubscribeSinceRegister(s) PROVE GapInv'
  <2>1. /\ nextSeq' = nextSeq /\ evt' = evt /\ targets' = targets
        /\ chan' = chan /\ dropped' = dropped /\ subscribers' \subseteq subscribers \cup {s}
        /\ mode' = mode /\ since' = since /\ got' = got
        /\ mode[s] = "since"
    BY <1>5 DEF SubscribeSinceRegister, Register, logVars, pubVars, TypeOK, GapInv
  <2>2. ASSUME NEW t \in subscribers' PROVE Ok(t)'
    <3>1. CASE t = s BY <2>1, <3>1
    <3>2. CASE t # s
      <4>1. t \in subscribers BY <2>1, <3>2
      <4>2. Seen(t)' = Seen(t) BY <2>1 DEF Streamed, InFlight
      <4>3. QED BY <2>1, <4>1, <4>2 DEF GapInv, SubscribeHasNoGap
    <3>3. QED BY <3>1, <3>2
  <2>3. \A t \in Subs: st'[t] = "joining" => mode'[t] = "since"
    BY <1>5 DEF SubscribeSinceRegister, TypeOK, GapInv
  <2>4. QED BY <2>1, <2>2, <2>3 DEF GapInv, SubscribeHasNoGap
<1>6. ASSUME NEW s \in Subs, Receive(s) PROVE GapInv'
  <2>1. /\ nextSeq' = nextSeq /\ evt' = evt /\ targets' = targets /\ st' = st
        /\ dropped' = dropped /\ subscribers' = subscribers
        /\ mode' = mode /\ since' = since
        /\ \A t \in Subs \ {s}: got'[t] = got[t] /\ chan'[t] = chan[t]
        /\ got'[s] = Append(got[s], Head(chan[s])) /\ chan'[s] = Tail(chan[s])
        /\ got[s] \in Seq(Nat) /\ chan[s] \in Seq(Nat) /\ chan[s] # << >>
    BY <1>6 DEF Receive, logVars, pubVars, TypeOK
  <2>2. ASSUME NEW t \in subscribers PROVE Seen(t)' = Seen(t)
    <3>0. t \in Subs BY DEF TypeOK
    <3>1. CASE t # s BY <2>1, <3>0, <3>1 DEF Streamed, InFlight
    <3>2. CASE t = s
      <4>1. Elems(chan[s]) = {Head(chan[s])} \cup Elems(chan'[s])
        BY <2>1, ElemsHeadTail
      <4>2. Elems(got'[s]) = Elems(got[s]) \cup {Head(chan[s])}
        BY <2>1, ElemsHeadTail, ElemsAppend
      <4>3. QED BY <2>1, <3>2, <4>1, <4>2 DEF Streamed, InFlight
    <3>3. QED BY <3>1, <3>2
  <2>3. QED BY <2>1, <2>2 DEF GapInv, SubscribeHasNoGap
<1>7. ASSUME subscribers' \subseteq subscribers,
             UNCHANGED <<nextSeq, evt, targets, chan, dropped, mode, since, got>>,
             \A t \in Subs: st'[t] = "joining" => st[t] = "joining"
      PROVE  GapInv'
  <2>1. ASSUME NEW t \in subscribers PROVE Seen(t)' = Seen(t)
    BY <1>7 DEF Streamed, InFlight
  <2>2. QED BY <1>7, <2>1 DEF GapInv, SubscribeHasNoGap
<1>8. ASSUME NEW p \in Publishers, NEW s \in Subs, FanoutPanic(p, s) PROVE GapInv'
  BY <1>7, <1>8 DEF FanoutPanic, logVars, pubVars, readerVars
<1>9. ASSUME NEW s \in Subs, ReceiveClosed(s) PROVE GapInv'
  BY <1>7, <1>9 DEF ReceiveClosed, logVars, pubVars, TypeOK
<1>10. ASSUME NEW s \in Subs, Unsub(s) PROVE GapInv'
  BY <1>7, <1>10 DEF Unsub, logVars, pubVars, TypeOK
<1>11. CASE closeAllSubscribers
  BY <1>7, <1>11 DEF closeAllSubscribers, logVars, pubVars, readerVars
<1>12. CASE evictIdleSubscribers
  BY <1>7, <1>12 DEF evictIdleSubscribers, logVars, pubVars, readerVars
<1>13. ASSUME NEW s \in Subs, closeChan(s) PROVE GapInv'
  BY <1>7, <1>13 DEF closeChan, logVars, pubVars, readerVars
<1>14. ASSUME NEW s \in Subs, IdleTimeout(s) PROVE GapInv'
  BY <1>7, <1>14 DEF IdleTimeout, logVars, pubVars, readerVars
<1>15. CASE UNCHANGED vars
  BY <1>7, <1>15 DEF vars, logVars, pubVars, readerVars
<1>16. QED
  BY <1>1, <1>2, <1>3, <1>4, <1>5, <1>6, <1>8, <1>9, <1>10, <1>11, <1>12, <1>13,
     <1>14, <1>15 DEF Next, PublisherStep, SubscriberStep, HubStep

-----------------------------------------------------------------------------
(* The inductive invariant and the theorems.                               *)
IInv == TypeOK /\ RingInv /\ FreshInv /\ OpenInv /\ GapInv

LEMMA InitIInv == Init => IInv
<1> SUFFICES ASSUME Init PROVE IInv OBVIOUS
<1>1. TypeOK
  <2>1. << >> \in Seq(Nat) /\ << >> \in Seq(Publishers) OBVIOUS
  <2>2. got \in [Subs -> Seq(Nat)] /\ chan \in [Subs -> Seq(Nat)] /\ author \in Seq(Publishers)
    BY <2>1 DEF Init
  <2>3. ring \in [Slots -> Nat] /\ ringHead \in Slots /\ nextSeq \in Nat \ {0}
    BY RingSizeAssumption DEF Init, Slots
  <2>4. ringFull \in BOOLEAN /\ closed \in BOOLEAN /\ panicked \in BOOLEAN
    BY DEF Init
  <2>5. evt \in [Publishers -> Nat] /\ targets \in [Publishers -> SUBSET Subs]
        /\ since \in [Subs -> Nat]
    BY DEF Init
  <2>6. st \in [Subs -> {"new", "joining", "reading", "done"}]
        /\ mode \in [Subs -> {"none", "all", "since"}]
    BY DEF Init
  <2>7. chanOpen \in [Subs -> BOOLEAN] /\ dropped \in [Subs -> SUBSET Nat]
    BY DEF Init
  <2>8. subscribers \subseteq Subs /\ toClose \subseteq Subs /\ idle \subseteq Subs
    BY DEF Init
  <2>9. QED BY <2>2, <2>3, <2>4, <2>5, <2>6, <2>7, <2>8 DEF TypeOK
<1>2. RingInv BY RingSizeAssumption DEF Init, RingInv, Slots
<1>3. FreshInv /\ OpenInv
  BY DEF Init, FreshInv, OpenInv, NoLeakedChannel, RegisteredAreOpen
<1>4. GapInv BY DEF Init, GapInv, SubscribeHasNoGap
<1>5. QED BY <1>1, <1>2, <1>3, <1>4 DEF IInv

LEMMA StepIInv == IInv /\ [Next]_vars => IInv'
BY TypeStep, RingStep, FreshStep, OpenStep, GapStep DEF IInv

(* The fields of a run keep their types.                                   *)
THEOREM RunTypeOK == Spec => []TypeOK
<1>1. IInv => TypeOK BY DEF IInv
<1>2. QED BY <1>1, InitIInv, StepIInv, PTL DEF Spec

(* Replay window: snapshotLocked always returns the newest events, oldest  *)
(* first, without a hole, and as many as the ring can hold.                *)
THEOREM RunReplayWindow == Spec => []ReplayWindow
<1>1. IInv => ReplayWindow BY RingWindow DEF IInv
<1>2. QED BY <1>1, InitIInv, StepIInv, PTL DEF Spec

(* After Subscribe, every event from the start of the backfill on reaches  *)
(* a registered subscriber, is in flight to it or is counted as dropped.   *)
THEOREM RunSubscribeHasNoGap == Spec => []SubscribeHasNoGap
<1>1. IInv => SubscribeHasNoGap BY DEF IInv, GapInv
<1>2. QED BY <1>1, InitIInv, StepIInv, PTL DEF Spec

(* Every open channel will be closed by somebody, and a registered         *)
(* subscriber's channel is open.                                           *)
THEOREM RunNoLeakedChannel == Spec => [](NoLeakedChannel /\ RegisteredAreOpen)
<1>1. IInv => NoLeakedChannel /\ RegisteredAreOpen BY DEF IInv, OpenInv
<1>2. QED BY <1>1, InitIInv, StepIInv, PTL DEF Spec
=============================================================================
