------------------------------ MODULE MessageRing ------------------------------
(***************************************************************************)
(* struct message_queue of message.h: MAX_MESSAGES slots used as a ring,   *)
(* with head, tail and count.  The operators are the two critical parts of *)
(* queue_message and receive_message (message.c); Content reads a ring as  *)
(* the sequence of messages still to be received, oldest first.            *)
(***************************************************************************)
EXTENDS Integers, Sequences

CONSTANTS MAX_MESSAGES,   \* slots of a ring (32 in message.h)
          Msg,            \* the messages that may be queued
          NoMsg           \* what a slot holds before its first use

ASSUME RingAssumption == /\ MAX_MESSAGES \in Nat \ {0}
                         /\ NoMsg \notin Msg

Slot == 0 .. (MAX_MESSAGES - 1)

message_queue == [messages : [Slot -> Msg \cup {NoMsg}],
                  head : Slot, tail : Slot, count : 0 .. MAX_MESSAGES]

(* Process structures live in zeroed memory. *)
EmptyRing == [messages |-> [s \in Slot |-> NoMsg],
              head |-> 0, tail |-> 0, count |-> 0]

(* Mutant: one message too many is let in. *)
FullTooLate(q) == q.count > MAX_MESSAGES

Full(q) == q.count >= MAX_MESSAGES

Empty(q) == q.count = 0

(* Mutant: the tail never wraps around before it leaves the array. *)
PutUnwrapped(q, m) == [q EXCEPT !.messages[q.tail] = m,
                                !.tail = q.tail + 1,
                                !.count = q.count + 1]

(* queue_message: copy into the tail slot, advance the tail. *)
Put(q, m) == [q EXCEPT !.messages[q.tail] = m,
                       !.tail = (q.tail + 1) % MAX_MESSAGES,
                       !.count = q.count + 1]

(* receive_message: read the head slot, advance the head. *)
Front(q) == q.messages[q.head]
Drop(q)  == [q EXCEPT !.head = (q.head + 1) % MAX_MESSAGES,
                      !.count = q.count - 1]

(* The i-th oldest message still in the ring. *)
Nth(q, i) == q.messages[(q.head + i - 1) % MAX_MESSAGES]

Content(q) == [i \in 1 .. q.count |-> Nth(q, i)]

(* What every reachable ring satisfies: head, tail and count agree, and    *)
(* the slots between head and tail hold real messages.                     *)
RingInv(q) == /\ q \in message_queue
              /\ q.tail = (q.head + q.count) % MAX_MESSAGES
              /\ \A i \in 1 .. q.count : Nth(q, i) \in Msg
================================================================================
