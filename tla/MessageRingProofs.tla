--------------------------- MODULE MessageRingProofs ---------------------------
(***************************************************************************)
(* The ring of MessageRing is a bounded queue, for every number of slots.  *)
(***************************************************************************)
EXTENDS MessageRing, SequenceTheorems, TLAPS

(* An index at most one turn past the end wraps to where it should. *)
LEMMA Wrap ==
  ASSUME NEW a \in Nat, a < 2 * MAX_MESSAGES
  PROVE  a % MAX_MESSAGES = IF a < MAX_MESSAGES THEN a ELSE a - MAX_MESSAGES
<1>1. MAX_MESSAGES \in Nat /\ MAX_MESSAGES > 0
  BY RingAssumption
<1>2. CASE a < MAX_MESSAGES
  BY <1>1, <1>2
<1>3. CASE a >= MAX_MESSAGES
  BY <1>1, <1>3
<1> QED BY <1>1, <1>2, <1>3

(* Advancing the head once and then k slots is advancing it k + 1 slots. *)
LEMMA Advance ==
  ASSUME NEW h \in 0 .. (MAX_MESSAGES - 1), NEW k \in 0 .. (MAX_MESSAGES - 1)
  PROVE  (((h + 1) % MAX_MESSAGES) + k) % MAX_MESSAGES = (h + (k + 1)) % MAX_MESSAGES
<1>1. MAX_MESSAGES \in Nat /\ MAX_MESSAGES > 0
  BY RingAssumption
<1> DEFINE g == (h + 1) % MAX_MESSAGES
<1>2. g = IF h + 1 < MAX_MESSAGES THEN h + 1 ELSE h + 1 - MAX_MESSAGES
  BY <1>1, Wrap
<1> HIDE DEF g
<1>3. (g + k) % MAX_MESSAGES
        = IF g + k < MAX_MESSAGES THEN g + k ELSE g + k - MAX_MESSAGES
  <2> DEFINE a == g + k
  <2>1. a \in Nat /\ a < 2 * MAX_MESSAGES
    BY <1>1, <1>2
  <2> HIDE DEF a
  <2>2. a % MAX_MESSAGES = IF a < MAX_MESSAGES THEN a ELSE a - MAX_MESSAGES
    BY <2>1, Wrap
  <2> QED
    BY <1>1, <1>2, <2>1, <2>2 DEF a
<1>4. (h + (k + 1)) % MAX_MESSAGES
        = IF h + (k + 1) < MAX_MESSAGES THEN h + (k + 1)
                                        ELSE h + (k + 1) - MAX_MESSAGES
  <2> DEFINE a == h + (k + 1)
  <2>1. a \in Nat /\ a < 2 * MAX_MESSAGES
    BY <1>1
  <2> HIDE DEF a
  <2>2. a % MAX_MESSAGES = IF a < MAX_MESSAGES THEN a ELSE a - MAX_MESSAGES
    BY <2>1, Wrap
  <2> QED
    BY <1>1, <2>1, <2>2 DEF a
<1>5. (g + k) % MAX_MESSAGES = (h + (k + 1)) % MAX_MESSAGES
  BY <1>1, <1>2, <1>3, <1>4
<1> QED
  BY <1>5 DEF g

(* Neither operation leaves the array or the range of count. *)
LEMMA PutType ==
  ASSUME NEW q \in message_queue, NEW m \in Msg, ~ Full(q)
  PROVE  Put(q, m) \in message_queue
<1>1. MAX_MESSAGES \in Nat /\ MAX_MESSAGES > 0 /\ q.tail \in Slot
  BY RingAssumption DEF message_queue
<1>2. (q.tail + 1) % MAX_MESSAGES \in Slot
  BY <1>1, Wrap DEF Slot
<1>3. q.count + 1 \in 0 .. MAX_MESSAGES
  BY <1>1 DEF message_queue, Full
<1> QED
  BY <1>2, <1>3 DEF Put, message_queue

(* Drop keeps the type of a ring that is not empty.                        *)
LEMMA DropType ==
  ASSUME NEW q \in message_queue, ~ Empty(q)
  PROVE  Drop(q) \in message_queue /\ Front(q) \in Msg \cup {NoMsg}
<1>1. MAX_MESSAGES \in Nat /\ MAX_MESSAGES > 0 /\ q.head \in Slot
  BY RingAssumption DEF message_queue
<1>2. (q.head + 1) % MAX_MESSAGES \in Slot
  BY <1>1, Wrap DEF Slot
<1>3. q.count - 1 \in 0 .. MAX_MESSAGES
  BY <1>1 DEF message_queue, Empty
<1> QED
  BY <1>1, <1>2, <1>3 DEF Drop, Front, message_queue

(* A sound ring reads as a sequence of messages. *)
LEMMA ContentIsSeq ==
  ASSUME NEW q, RingInv(q)
  PROVE  /\ Content(q) \in Seq(Msg) /\ Len(Content(q)) = q.count
         /\ \A i \in 1 .. q.count : Content(q)[i] = Nth(q, i)
<1>1. q.count \in Nat
  BY RingAssumption DEF RingInv, message_queue
<1> QED
  BY <1>1 DEF Content, RingInv

(* Put appends: the tail slot is free, so no queued message is lost. *)
LEMMA PutAppends ==
  ASSUME NEW q, RingInv(q), NEW m \in Msg, ~ Full(q)
  PROVE  RingInv(Put(q, m)) /\ Content(Put(q, m)) = Append(Content(q), m)
<1> DEFINE N == MAX_MESSAGES
           r == Put(q, m)
<1>1. /\ N \in Nat /\ N > 0
      /\ q \in message_queue /\ q.head \in 0 .. (N - 1) /\ q.tail \in 0 .. (N - 1)
      /\ q.count \in 0 .. (N - 1)
      /\ q.messages \in [Slot -> Msg \cup {NoMsg}]
      /\ q.tail = (q.head + q.count) % N
  BY RingAssumption DEF RingInv, message_queue, Slot, Full
<1>2. r \in message_queue
  BY <1>1, PutType
<1>3. /\ r.head = q.head /\ r.count = q.count + 1
      /\ r.tail = (q.tail + 1) % N
      /\ r.messages = [q.messages EXCEPT ![q.tail] = m]
  BY <1>1 DEF Put, message_queue
<1> HIDE DEF r
<1>4. r.tail = (r.head + r.count) % N
  <2>1. q.tail = IF q.head + q.count < N THEN q.head + q.count ELSE q.head + q.count - N
    BY <1>1, Wrap
  <2>2. (q.tail + 1) % N = IF q.tail + 1 < N THEN q.tail + 1 ELSE q.tail + 1 - N
    BY <1>1, Wrap
  <2>3. (q.head + (q.count + 1)) % N
          = IF q.head + (q.count + 1) < N THEN q.head + (q.count + 1)
                                          ELSE q.head + (q.count + 1) - N
    <3> DEFINE a == q.head + (q.count + 1)
    <3>1. a \in Nat /\ a < 2 * N
      BY <1>1
    <3> HIDE DEF a
    <3>2. a % N = IF a < N THEN a ELSE a - N
      BY <3>1, Wrap
    <3> QED
      BY <1>1, <3>1, <3>2 DEF a
  <2> QED
    BY <1>1, <1>3, <2>1, <2>2, <2>3
<1>5. \A i \in 1 .. q.count : Nth(r, i) = Nth(q, i)
  <2> SUFFICES ASSUME NEW i \in 1 .. q.count PROVE Nth(r, i) = Nth(q, i)
    OBVIOUS
  <2>1. q.tail = IF q.head + q.count < N THEN q.head + q.count ELSE q.head + q.count - N
    BY <1>1, Wrap
  <2> DEFINE a == q.head + i - 1
  <2>2. a \in Nat /\ a < 2 * N
    BY <1>1
  <2>3. a % N = IF a < N THEN a ELSE a - N
    BY <2>2, Wrap
  <2>4. a % N \in Slot
    BY <1>1, <2>2, <2>3 DEF Slot
  <2>5. a % N # q.tail
    BY <1>1, <2>1, <2>3
  <2> QED
    BY <1>1, <1>3, <2>4, <2>5 DEF Nth
<1>6. Nth(r, q.count + 1) = m
  <2>1. (r.head + (q.count + 1) - 1) % N = q.tail
    BY <1>1, <1>3
  <2> QED
    BY <1>1, <1>3, <2>1 DEF Nth, Slot
<1>7. RingInv(r)
  BY <1>1, <1>2, <1>3, <1>4, <1>5, <1>6 DEF RingInv
<1>8. /\ Content(q) \in Seq(Msg) /\ Len(Content(q)) = q.count
      /\ \A i \in 1 .. q.count : Content(q)[i] = Nth(q, i)
  BY ContentIsSeq
<1>9. /\ Content(r) \in Seq(Msg) /\ Len(Content(r)) = r.count
      /\ \A i \in 1 .. r.count : Content(r)[i] = Nth(r, i)
  BY <1>7, ContentIsSeq
<1>10. /\ Len(Content(r)) = q.count + 1
       /\ \A i \in 1 .. q.count : Content(r)[i] = Content(q)[i]
       /\ Content(r)[q.count + 1] = m
  <2>1. /\ q.count + 1 \in 1 .. (q.count + 1)
        /\ \A i \in 1 .. q.count : i \in 1 .. (q.count + 1)
    BY <1>1
  <2> QED
    BY <1>3, <1>5, <1>6, <1>8, <1>9, <2>1
<1>11. /\ Append(Content(q), m) \in Seq(Msg)
       /\ Len(Append(Content(q), m)) = q.count + 1
       /\ \A i \in 1 .. q.count : Append(Content(q), m)[i] = Content(q)[i]
       /\ Append(Content(q), m)[q.count + 1] = m
  BY <1>8, AppendProperties
<1>12. \A i \in 1 .. Len(Content(r)) : Content(r)[i] = Append(Content(q), m)[i]
  BY <1>1, <1>10, <1>11
<1>13. Content(r) = Append(Content(q), m)
  BY <1>9, <1>10, <1>11, <1>12, SeqEqual
<1> QED
  BY <1>7, <1>13 DEF r

(* Drop removes the oldest message, which is the one Front reads. *)
LEMMA DropTakesHead ==
  ASSUME NEW q, RingInv(q), ~ Empty(q)
  PROVE  /\ RingInv(Drop(q))
         /\ Content(q) # << >>
         /\ Front(q) = Head(Content(q))
         /\ Content(Drop(q)) = Tail(Content(q))
<1> DEFINE N == MAX_MESSAGES
           r == Drop(q)
<1>1. /\ N \in Nat /\ N > 0
      /\ q \in message_queue /\ q.head \in 0 .. (N - 1)
      /\ q.count \in 1 .. N
      /\ q.tail = (q.head + q.count) % N
  BY RingAssumption DEF RingInv, message_queue, Slot, Empty
<1>2. r \in message_queue
  BY <1>1, DropType
<1>3. /\ r.head = (q.head + 1) % N /\ r.count = q.count - 1
      /\ r.tail = q.tail /\ r.messages = q.messages
  BY <1>1 DEF Drop, message_queue
<1> HIDE DEF r
<1>4. r.tail = (r.head + r.count) % N
  <2>1. q.count - 1 \in 0 .. (N - 1) /\ (q.count - 1) + 1 = q.count
    BY <1>1
  <2>2. (((q.head + 1) % N) + (q.count - 1)) % N = (q.head + ((q.count - 1) + 1)) % N
    BY <1>1, <2>1, Advance
  <2> QED
    BY <1>1, <1>3, <2>1, <2>2
<1>5. r.head \in Int
  BY <1>2 DEF message_queue, Slot
<1>6. \A i \in 1 .. (q.count - 1) : Nth(r, i) = Nth(q, i + 1)
  <2> SUFFICES ASSUME NEW i \in 1 .. (q.count - 1) PROVE Nth(r, i) = Nth(q, i + 1)
    OBVIOUS
  <2>1. i - 1 \in 0 .. (N - 1) /\ (i - 1) + 1 = i
    BY <1>1
  <2>2. (((q.head + 1) % N) + (i - 1)) % N = (q.head + i) % N
    BY <1>1, <2>1, Advance
  <2>3. r.head + i - 1 = r.head + (i - 1) /\ q.head + (i + 1) - 1 = q.head + i
    BY <1>1, <1>5, <2>1
  <2>4. (r.head + i - 1) % N = (q.head + (i + 1) - 1) % N
    BY <1>3, <2>2, <2>3
  <2> QED
    BY <1>3, <2>4 DEF Nth
<1>7. RingInv(r)
  <2>1. \A i \in 1 .. r.count : Nth(r, i) \in Msg
    BY <1>1, <1>3, <1>6 DEF RingInv
  <2> QED
    BY <1>2, <1>4, <2>1 DEF RingInv
<1>8. /\ Content(q) \in Seq(Msg) /\ Len(Content(q)) = q.count
      /\ \A i \in 1 .. q.count : Content(q)[i] = Nth(q, i)
  BY ContentIsSeq
<1>9. Content(q) # << >> /\ Head(Content(q)) = Nth(q, 1)
  BY <1>1, <1>8
<1>10. Front(q) = Nth(q, 1)
  <2>1. (q.head + 1 - 1) % N = q.head
    BY <1>1, Wrap
  <2> QED
    BY <2>1 DEF Front, Nth
<1>11. /\ Content(r) \in Seq(Msg) /\ Len(Content(r)) = r.count
       /\ \A i \in 1 .. r.count : Content(r)[i] = Nth(r, i)
  BY <1>7, ContentIsSeq
<1>12. /\ Tail(Content(q)) \in Seq(Msg)
       /\ Len(Tail(Content(q))) = q.count - 1
       /\ \A i \in 1 .. (q.count - 1) : Tail(Content(q))[i] = Content(q)[i + 1]
  BY <1>1, <1>8, <1>9, HeadTailProperties
<1>13. \A i \in 1 .. (q.count - 1) : Content(r)[i] = Tail(Content(q))[i]
  BY <1>1, <1>3, <1>6, <1>8, <1>11, <1>12
<1>14. Content(r) = Tail(Content(q))
  BY <1>1, <1>3, <1>11, <1>12, <1>13, SeqEqual
<1> QED
  BY <1>7, <1>9, <1>10, <1>14 DEF r
================================================================================
