-------------------------- MODULE SendQueueProofs --------------------------
(***************************************************************************)
(* Proofs about SendQueue for any number of senders, any capacity and any  *)
(* length of the init sequence.                                            *)
(***************************************************************************)
EXTENDS SendQueue, FiniteSetTheorems, SequenceTheorems, TLAPS

\* m is the oldest audio chunk of q, if it is in q at all.
OldestIfQueued(m, q) ==
  \A i \in 1..Len(q) : q[i] = m => q[i].audio /\ \A j \in 1..(i - 1) : ~q[j].audio

Distinct(q) == \A i, j \in 1..Len(q) : q[i] = q[j] => i = j

\* A sender in the middle of send() has a message that is not queued.
CallInv ==
  \A s \in Senders :
    /\ pc[s] = "idle" => msg[s] = Nothing /\ cand[s] = Nothing
    /\ pc[s] # "idle" => msg[s] \in Message /\ msg[s] \notin Elements(queue)

\* The chunk a sender is about to remove is still the oldest one, whatever the
\* others did since it was found.
CandInv ==
  \A s \in Senders : pc[s] = "remove" => OldestIfQueued(cand[s], queue)

\* No object is sent twice at a time, or found in the queue before it is sent.
FreshInv ==
  \A r, s \in Senders : pc[s] # "idle" =>
    /\ msg[s] # cand[r]
    /\ r # s => msg[s] # msg[r]

\* Nobody sends before start().
StartInv ==
  /\ ~running /\ ~stopped => queue = <<>> /\ \A s \in Senders : pc[s] = "idle"
  /\ ~running => toInit = 0

IInv ==
  /\ TypeOK /\ CallInv /\ CandInv /\ FreshInv /\ Distinct(queue) /\ StartInv
  /\ DropsAccounted

USE CapacityAssumption, InitAssumption, SendersAssumption, BoundAssumption,
    NothingAssumption

(***************************************************************************)
(* Messages, queues and senders.                                           *)
(***************************************************************************)

\* A new message is an object nobody holds.
LEMMA NewMessageFresh ==
  ASSUME FreeIds # {}, NEW audio \in BOOLEAN
  PROVE  /\ NewMessage(audio) \in Message
         /\ NewMessage(audio) \notin Elements(queue)
         /\ \A s \in Senders : NewMessage(audio) # msg[s] /\ NewMessage(audio) # cand[s]
<1> DEFINE i == CHOOSE i \in FreeIds : TRUE
<1>1. i \in FreeIds
  OBVIOUS
<1>2. i \in Ids /\ \A m \in Reachable : m # Nothing => m.id # i
  BY <1>1 DEF FreeIds
<1>3. NewMessage(audio) = [id |-> i, audio |-> audio]
  BY DEF NewMessage
<1> HIDE DEF i
<1>4. NewMessage(audio) \in Message /\ NewMessage(audio).id = i
  BY <1>2, <1>3 DEF Message
<1>5. NewMessage(audio) \notin Reachable
  BY <1>2, <1>4
<1> QED
  BY <1>4, <1>5 DEF Reachable

\* What a push and a pop do to a queue.
LEMMA PushProperties ==
  ASSUME NEW q \in Seq(Message), NEW x \in Message
  PROVE  /\ Append(q, x) \in Seq(Message) /\ Len(Append(q, x)) = Len(q) + 1
         /\ Elements(Append(q, x)) = Elements(q) \cup {x}
<1>1. Append(q, x) \in Seq(Message) /\ Len(Append(q, x)) = Len(q) + 1
  OBVIOUS
<1>2. Elements(Append(q, x)) = Elements(q) \cup {x}
  BY DEF Elements
<1> QED
  BY <1>1, <1>2

LEMMA PushDistinct ==
  ASSUME NEW q \in Seq(Message), NEW x \in Message, x \notin Elements(q), Distinct(q)
  PROVE  Distinct(Append(q, x))
<1>1. /\ Len(Append(q, x)) = Len(q) + 1 /\ Append(q, x)[Len(q) + 1] = x
      /\ \A i \in 1..Len(q) : Append(q, x)[i] = q[i]
  OBVIOUS
<1> QED
  BY <1>1 DEF Elements, Distinct

LEMMA PushOldest ==
  ASSUME NEW q \in Seq(Message), NEW x \in Message, NEW m, m # x, OldestIfQueued(m, q)
  PROVE  OldestIfQueued(m, Append(q, x))
<1>1. /\ Len(Append(q, x)) = Len(q) + 1 /\ Append(q, x)[Len(q) + 1] = x
      /\ \A i \in 1..Len(q) : Append(q, x)[i] = q[i]
  OBVIOUS
<1> QED
  BY <1>1 DEF OldestIfQueued

LEMMA PopProperties ==
  ASSUME NEW q \in Seq(Message), q # <<>>
  PROVE  /\ Head(q) \in Message
         /\ Tail(q) \in Seq(Message) /\ Len(Tail(q)) = Len(q) - 1
         /\ Elements(Tail(q)) \subseteq Elements(q)
         /\ Distinct(q) => Distinct(Tail(q))
         /\ \A m : OldestIfQueued(m, q) => OldestIfQueued(m, Tail(q))
<1>1. /\ Head(q) \in Message /\ Tail(q) \in Seq(Message) /\ Len(Tail(q)) = Len(q) - 1
      /\ \A i \in 1..Len(Tail(q)) : i + 1 \in 1..Len(q) /\ Tail(q)[i] = q[i + 1]
  OBVIOUS
<1>2. Elements(Tail(q)) \subseteq Elements(q)
  BY <1>1 DEF Elements
<1>3. Distinct(q) => Distinct(Tail(q))
  BY <1>1 DEF Distinct
<1>4. ASSUME NEW m, OldestIfQueued(m, q) PROVE OldestIfQueued(m, Tail(q))
  <2> SUFFICES ASSUME NEW i \in 1..Len(Tail(q)), Tail(q)[i] = m
               PROVE  Tail(q)[i].audio /\ \A j \in 1..(i - 1) : ~Tail(q)[j].audio
    BY DEF OldestIfQueued
  <2>1. q[i + 1].audio /\ \A j \in 1..i : ~q[j].audio
    BY <1>1, <1>4 DEF OldestIfQueued
  <2>2. \A j \in 1..(i - 1) : j + 1 \in 1..i /\ Tail(q)[j] = q[j + 1]
    BY <1>1
  <2> QED
    BY <1>1, <2>1, <2>2
<1> QED
  BY <1>1, <1>2, <1>3, <1>4

\* The queue without its i-th message.
LEMMA WithoutProperties ==
  ASSUME queue \in Seq(Message), NEW i \in 1..Len(queue)
  PROVE  /\ Without(i) \in Seq(Message)
         /\ Len(Without(i)) = Len(queue) - 1
         /\ \A j \in 1..Len(Without(i)) :
              Without(i)[j] = queue[IF j < i THEN j ELSE j + 1]
<1> DEFINE a == SubSeq(queue, 1, i - 1)
           b == SubSeq(queue, i + 1, Len(queue))
<1>1. \A j \in 1..Len(queue) : queue[j] \in Message
  OBVIOUS
<1>2. /\ a \in Seq(Message) /\ Len(a) = i - 1
      /\ \A j \in 1..(i - 1) : a[j] = queue[j]
  <2>1. /\ SubSeq(queue, 1, i - 1) \in Seq(Message)
        /\ Len(SubSeq(queue, 1, i - 1)) = IF 1 <= i - 1 THEN (i - 1) - 1 + 1 ELSE 0
        /\ \A j \in 1..((i - 1) - 1 + 1) : SubSeq(queue, 1, i - 1)[j] = queue[1 + j - 1]
    <3>1. \A j \in 1..(i - 1) : queue[j] \in Message
      BY <1>1
    <3> QED
      BY <3>1, SubSeqProperties
  <2> QED
    BY <2>1
<1>3. /\ b \in Seq(Message) /\ Len(b) = Len(queue) - i
      /\ \A j \in 1..(Len(queue) - i) : b[j] = queue[i + j]
  <2>1. /\ SubSeq(queue, i + 1, Len(queue)) \in Seq(Message)
        /\ Len(SubSeq(queue, i + 1, Len(queue)))
             = IF i + 1 <= Len(queue) THEN Len(queue) - (i + 1) + 1 ELSE 0
        /\ \A j \in 1..(Len(queue) - (i + 1) + 1) :
             SubSeq(queue, i + 1, Len(queue))[j] = queue[(i + 1) + j - 1]
    <3>1. \A j \in (i + 1)..Len(queue) : queue[j] \in Message
      BY <1>1
    <3> QED
      BY <3>1, SubSeqProperties
  <2> QED
    BY <2>1
<1>4. Without(i) = a \o b
  BY DEF Without
<1> HIDE DEF a, b
<1>5. /\ a \o b \in Seq(Message) /\ Len(a \o b) = Len(a) + Len(b)
      /\ \A j \in 1..(Len(a) + Len(b)) :
           (a \o b)[j] = IF j <= Len(a) THEN a[j] ELSE b[j - Len(a)]
  <2>1. a \in Seq(Message) /\ b \in Seq(Message)
    BY <1>2, <1>3
  <2> QED
    BY <2>1, ConcatProperties
<1>6. Without(i) \in Seq(Message) /\ Len(Without(i)) = Len(queue) - 1
  BY <1>2, <1>3, <1>4, <1>5
<1>7. ASSUME NEW j \in 1..Len(Without(i))
      PROVE  Without(i)[j] = queue[IF j < i THEN j ELSE j + 1]
  <2>1. j \in 1..(Len(a) + Len(b)) /\ Len(a) = i - 1
    BY <1>2, <1>3, <1>6
  <2>2. CASE j < i
    BY <1>2, <1>4, <1>5, <2>1, <2>2
  <2>3. CASE j >= i
    <3>1. Without(i)[j] = b[j - (i - 1)]
      BY <1>4, <1>5, <2>1, <2>3
    <3>2. j - (i - 1) \in 1..(Len(queue) - i) /\ i + (j - (i - 1)) = j + 1
      BY <1>6, <2>3
    <3> QED
      BY <1>3, <2>3, <3>1, <3>2
  <2> QED
    BY <2>1, <2>2, <2>3
<1> QED
  BY <1>6, <1>7

LEMMA WithoutKeeps ==
  ASSUME queue \in Seq(Message), NEW i \in 1..Len(queue)
  PROVE  /\ Elements(Without(i)) \subseteq Elements(queue)
         /\ Distinct(queue) => Distinct(Without(i))
         /\ \A m : OldestIfQueued(m, queue) => OldestIfQueued(m, Without(i))
<1> DEFINE at(j) == IF j < i THEN j ELSE j + 1
<1>1. \A j \in 1..Len(Without(i)) : at(j) \in 1..Len(queue) /\ Without(i)[j] = queue[at(j)]
  BY WithoutProperties
<1>2. Elements(Without(i)) \subseteq Elements(queue)
  BY <1>1 DEF Elements
<1>3. \A j, k \in 1..Len(Without(i)) : (at(j) = at(k) => j = k) /\ (j < k => at(j) < at(k))
  BY WithoutProperties
<1>4. Distinct(queue) => Distinct(Without(i))
  BY <1>1, <1>3 DEF Distinct
<1>5. ASSUME NEW m, OldestIfQueued(m, queue) PROVE OldestIfQueued(m, Without(i))
  <2> SUFFICES ASSUME NEW j \in 1..Len(Without(i)), Without(i)[j] = m
               PROVE  /\ Without(i)[j].audio
                      /\ \A k \in 1..(j - 1) : ~Without(i)[k].audio
    BY DEF OldestIfQueued
  <2>1. queue[at(j)].audio /\ \A k \in 1..(at(j) - 1) : ~queue[k].audio
    BY <1>1, <1>5 DEF OldestIfQueued
  <2>2. \A k \in 1..(j - 1) :
          /\ k \in 1..Len(Without(i)) /\ at(k) \in 1..(at(j) - 1)
          /\ Without(i)[k] = queue[at(k)]
    <3>1. \A k \in 1..(j - 1) : k \in 1..Len(Without(i)) /\ k < j
      BY WithoutProperties
    <3> QED
      BY <1>1, <1>3, <3>1
  <2> QED
    BY <1>1, <2>1, <2>2
<1> QED
  BY <1>2, <1>4, <1>5

\* A sender that enters or leaves its second offer.
LEMMA BetweenFinite ==
  IsFiniteSet(Between("reoffer")) /\ Cardinality(Between("reoffer")) \in Nat
<1>1. Between("reoffer") \in SUBSET Senders
  BY DEF Between
<1> QED
  BY <1>1, FS_Subset, FS_CardinalityType

LEMMA Enters ==
  ASSUME NEW s \in Senders, pc[s] # "reoffer",
         pc \in [Senders -> SenderPc], pc' = [pc EXCEPT ![s] = "reoffer"]
  PROVE  Cardinality(Between("reoffer"))' = Cardinality(Between("reoffer")) + 1
<1>1. Between("reoffer")' = Between("reoffer") \cup {s} /\ s \notin Between("reoffer")
  BY DEF Between
<1> QED
  BY <1>1, BetweenFinite, FS_AddElement

LEMMA Leaves ==
  ASSUME NEW s \in Senders, pc[s] = "reoffer",
         pc \in [Senders -> SenderPc], pc' = [pc EXCEPT ![s] = "idle"]
  PROVE  Cardinality(Between("reoffer"))' = Cardinality(Between("reoffer")) - 1
<1>1. Between("reoffer")' = Between("reoffer") \ {s} /\ s \in Between("reoffer")
  BY DEF Between
<1> QED
  BY <1>1, BetweenFinite, FS_RemoveElement

LEMMA Stays ==
  ASSUME NEW s \in Senders, pc[s] # "reoffer", NEW p, p # "reoffer",
         pc \in [Senders -> SenderPc], pc' = [pc EXCEPT ![s] = p]
  PROVE  Between("reoffer")' = Between("reoffer")
BY DEF Between

(***************************************************************************)
(* The steps.                                                              *)
(***************************************************************************)
\* At first nothing is queued and nobody sends.
LEMMA InitInv == Init => IInv
<1> SUFFICES ASSUME Init PROVE IInv
  OBVIOUS
<1>1. TypeOK
  <2>1. queue \in Seq(Message) /\ Len(queue) <= Capacity /\ toInit \in 0..InitLength
    BY DEF Init
  <2>2. /\ pc \in [Senders -> SenderPc] /\ msg \in [Senders -> Message \cup {Nothing}]
        /\ cand \in [Senders -> Message \cup {Nothing}]
    BY DEF Init, SenderPc
  <2>3. /\ running \in BOOLEAN /\ stopped \in BOOLEAN /\ writer \in WriterPc
        /\ taken \in Message \cup {Nothing} /\ sendDropped \in Nat /\ lost \in Nat
    BY DEF Init, WriterPc
  <2> QED
    BY <2>1, <2>2, <2>3 DEF TypeOK
<1>2. CallInv /\ CandInv /\ FreshInv /\ Distinct(queue) /\ StartInv
  BY DEF Init, CallInv, CandInv, FreshInv, Distinct, StartInv
<1>3. Cardinality(Between("reoffer")) = 0
  <2>1. Between("reoffer") = {}
    BY DEF Init, Between
  <2> QED
    BY <2>1, FS_EmptySet
<1>4. DropsAccounted
  BY <1>3 DEF Init, DropsAccounted
<1> QED
  BY <1>1, <1>2, <1>4 DEF IInv

\* A step that leaves the senders and the queue alone.
LEMMA CalmKeeps ==
  ASSUME IInv, UNCHANGED <<queue, call, count>>, TypeOK', StartInv'
  PROVE  IInv'
<1>1. CallInv' /\ CandInv' /\ FreshInv' /\ Distinct(queue)'
  BY DEF IInv, CallInv, CandInv, FreshInv, call
<1>2. Between("reoffer")' = Between("reoffer")
  BY DEF Between, call
<1>3. DropsAccounted'
  BY <1>2 DEF IInv, DropsAccounted, count
<1> QED
  BY <1>1, <1>3 DEF IInv

\* The queue grows by a message that is in no call's hands, or shrinks.
LEMMA QueueKeeps ==
  ASSUME IInv, UNCHANGED <<call, count>>, TypeOK', StartInv', Distinct(queue)',
         \A s \in Senders : pc[s] # "idle" => msg[s] \notin Elements(queue'),
         \A s \in Senders :
           OldestIfQueued(cand[s], queue) => OldestIfQueued(cand[s], queue')
  PROVE  IInv'
<1>1. CallInv' /\ CandInv' /\ FreshInv'
  BY DEF IInv, CallInv, CandInv, FreshInv, call
<1>2. Between("reoffer")' = Between("reoffer")
  BY DEF Between, call
<1>3. DropsAccounted'
  BY <1>2 DEF IInv, DropsAccounted, count
<1> QED
  BY <1>1, <1>3 DEF IInv

\* start() empties the queue.
LEMMA StartKeeps == ASSUME IInv, Start PROVE IInv'
<1>1. queue' = <<>> /\ queue' \in Seq(Message) /\ Len(queue') = 0
  BY DEF Start
<1>2. TypeOK'
  BY <1>1 DEF IInv, TypeOK, Start, call, count, WriterPc
<1>3. StartInv'
  BY DEF Start, StartInv
<1>4. /\ Distinct(queue)' /\ Elements(queue') = {}
      /\ \A m : OldestIfQueued(m, queue')
  BY <1>1 DEF Distinct, Elements, OldestIfQueued
<1> QED
  BY <1>2, <1>3, <1>4, QueueKeeps DEF Start

\* A message of the init sequence finds room.
LEMMA SendInitKeeps == ASSUME IInv, SendInit PROVE IInv'
<1> DEFINE m == NewMessage(FALSE)
<1>1. /\ m \in Message /\ m \notin Elements(queue)
      /\ \A s \in Senders : m # msg[s] /\ m # cand[s]
  BY NewMessageFresh DEF SendInit
<1>2. queue' = Append(queue, m) /\ Len(queue) < Capacity /\ queue \in Seq(Message)
  BY DEF SendInit, HasRoom, IInv, TypeOK
<1> HIDE DEF m
<1>3. TypeOK'
  <2>1. queue' \in Seq(Message) /\ Len(queue') = Len(queue) + 1
    BY <1>1, <1>2, PushProperties
  <2>2. Len(queue') <= Capacity /\ toInit' \in 0..InitLength
    BY <1>2, <2>1 DEF IInv, TypeOK, SendInit
  <2> QED
    BY <2>1, <2>2 DEF IInv, TypeOK, SendInit, call, drain, count
<1>4. StartInv'
  <2>1. toInit # 0
    BY DEF SendInit, IInv, TypeOK
  <2> QED
    BY <2>1 DEF IInv, StartInv, SendInit
<1>5. /\ Distinct(queue)'
      /\ \A s \in Senders : pc[s] # "idle" => msg[s] \notin Elements(queue')
  BY <1>1, <1>2, PushProperties, PushDistinct DEF IInv, CallInv
<1>6. \A s \in Senders : OldestIfQueued(cand[s], queue) => OldestIfQueued(cand[s], queue')
  BY <1>1, <1>2, PushOldest
<1> QED
  BY <1>3, <1>4, <1>5, <1>6, QueueKeeps DEF SendInit

\* stop() only sets its flags.
LEMMA StopKeeps == ASSUME IInv, Stop PROVE IInv'
<1>1. TypeOK'
  BY DEF IInv, TypeOK, Stop, call, drain, count
<1>2. StartInv'
  BY DEF IInv, StartInv, Stop
<1> QED
  BY <1>1, <1>2, CalmKeeps DEF Stop

\* The first offer takes a new message.
LEMMA SendOffers ==
  ASSUME NEW s \in Senders, Send(s)
  PROVE  \E m \in Message :
           /\ m \notin Elements(queue)
           /\ \A r \in Senders : m # msg[r] /\ m # cand[r]
           /\ \/ HasRoom /\ queue' = Append(queue, m) /\ UNCHANGED call
              \/ /\ msg' = [msg EXCEPT ![s] = m]
                 /\ pc' = [pc EXCEPT ![s] = "scan"]
                 /\ UNCHANGED <<queue, cand>>
<1> DEFINE audio == s \in AudioSenders
<1>1. audio \in BOOLEAN
  OBVIOUS
<1>2. /\ FreeIds # {}
      /\ \/ HasRoom /\ queue' = Append(queue, NewMessage(audio)) /\ UNCHANGED call
         \/ /\ msg' = [msg EXCEPT ![s] = NewMessage(audio)]
            /\ pc' = [pc EXCEPT ![s] = "scan"]
            /\ UNCHANGED <<queue, cand>>
  BY DEF Send
<1> HIDE DEF audio
<1>3. /\ NewMessage(audio) \in Message
      /\ NewMessage(audio) \notin Elements(queue)
      /\ \A r \in Senders : NewMessage(audio) # msg[r] /\ NewMessage(audio) # cand[r]
  BY <1>1, <1>2, NewMessageFresh
<1> QED
  BY <1>2, <1>3

\* The first offer: the message is queued, or the call goes on with it.
LEMMA SendKeeps == ASSUME IInv, NEW s \in Senders, Send(s) PROVE IInv'
<1>0. StartInv'
  BY DEF IInv, StartInv, Send, lifecycle
<1>1. PICK m \in Message :
        /\ m \notin Elements(queue)
        /\ \A r \in Senders : m # msg[r] /\ m # cand[r]
        /\ \/ HasRoom /\ queue' = Append(queue, m) /\ UNCHANGED call
           \/ /\ msg' = [msg EXCEPT ![s] = m]
              /\ pc' = [pc EXCEPT ![s] = "scan"]
              /\ UNCHANGED <<queue, cand>>
  BY SendOffers
<1>3. CASE HasRoom /\ queue' = Append(queue, m) /\ UNCHANGED call
  <2>1. Len(queue) < Capacity /\ queue \in Seq(Message)
    BY <1>3 DEF HasRoom, IInv, TypeOK
  <2>2. queue' \in Seq(Message) /\ Len(queue') <= Capacity
    BY <1>3, <2>1, PushProperties
  <2>3. TypeOK'
    BY <1>3, <2>2 DEF IInv, TypeOK, Send, call, drain, count, lifecycle
  <2>4. /\ Distinct(queue)'
        /\ \A r \in Senders : pc[r] # "idle" => msg[r] \notin Elements(queue')
    BY <1>1, <1>3, <2>1, PushProperties, PushDistinct DEF IInv, CallInv
  <2>5. \A r \in Senders :
           OldestIfQueued(cand[r], queue) => OldestIfQueued(cand[r], queue')
    BY <1>1, <1>3, <2>1, PushOldest
  <2> QED
    BY <1>0, <1>3, <2>3, <2>4, <2>5, QueueKeeps DEF Send
<1>4. CASE /\ msg' = [msg EXCEPT ![s] = m]
           /\ pc' = [pc EXCEPT ![s] = "scan"]
           /\ UNCHANGED <<queue, cand>>
  <2>1. TypeOK'
    BY <1>1, <1>4 DEF IInv, TypeOK, Send, drain, count, lifecycle, SenderPc
  <2>2. CallInv' /\ FreshInv'
    BY <1>1, <1>4 DEF IInv, TypeOK, CallInv, FreshInv, Send
  <2>3. CandInv' /\ Distinct(queue)'
    BY <1>4 DEF IInv, TypeOK, CandInv
  <2>4. Between("reoffer")' = Between("reoffer")
    BY <1>4, Stays DEF Send, IInv, TypeOK
  <2>5. DropsAccounted'
    BY <2>4 DEF Send, IInv, DropsAccounted, count
  <2> QED
    BY <1>0, <2>1, <2>2, <2>3, <2>5 DEF IInv
<1> QED
  BY <1>1, <1>3, <1>4

\* dropOldestAudio() finds the oldest chunk, or none and the call returns.
LEMMA ScanKeeps == ASSUME IInv, NEW s \in Senders, Scan(s) PROVE IInv'
<1>0. StartInv'
  BY DEF IInv, StartInv, Scan, lifecycle
<1>1. ASSUME NEW i \in AudioAt, Oldest(i),
             cand' = [cand EXCEPT ![s] = queue[i]],
             pc' = [pc EXCEPT ![s] = "remove"], UNCHANGED <<msg, count>>
      PROVE  IInv'
  <2>1. i \in 1..Len(queue) /\ queue[i] \in Message /\ queue[i].audio
    BY DEF AudioAt, IInv, TypeOK
  <2>2. TypeOK'
    BY <1>1, <2>1 DEF IInv, TypeOK, Scan, lifecycle, drain, count, SenderPc
  <2>3. OldestIfQueued(queue[i], queue)
    BY <1>1, <2>1 DEF IInv, TypeOK, Distinct, OldestIfQueued, Oldest, AudioAt
  <2>4. CandInv'
    BY <1>1, <2>3 DEF IInv, TypeOK, CandInv, Scan
  <2>5. queue[i] \in Elements(queue)
    BY <2>1 DEF Elements
  <2>6. CallInv' /\ FreshInv' /\ Distinct(queue)'
    BY <1>1, <2>5 DEF IInv, TypeOK, CallInv, FreshInv, Scan
  <2>7. Between("reoffer")' = Between("reoffer")
    BY <1>1, Stays DEF Scan, IInv, TypeOK
  <2>8. DropsAccounted'
    BY <1>1, <2>7 DEF IInv, DropsAccounted, count
  <2> QED
    BY <1>0, <2>2, <2>4, <2>6, <2>8 DEF IInv
<1>2. CASE sendDropped' = sendDropped + 1 /\ lost' = lost + 1 /\ Return(s)
  <2>1. TypeOK'
    BY <1>2 DEF IInv, TypeOK, Scan, Return, lifecycle, drain, SenderPc
  <2>2. CallInv' /\ FreshInv' /\ CandInv' /\ Distinct(queue)'
    BY <1>2 DEF IInv, TypeOK, CallInv, FreshInv, CandInv, Scan, Return
  <2>3. Between("reoffer")' = Between("reoffer")
    BY <1>2, Stays DEF Scan, Return, IInv, TypeOK
  <2>4. DropsAccounted'
    BY <1>2, <2>3, BetweenFinite DEF IInv, TypeOK, DropsAccounted
  <2> QED
    BY <1>0, <2>1, <2>2, <2>4 DEF IInv
<1> QED
  BY <1>1, <1>2 DEF Scan

\* The chunk is removed, or it is gone and the search begins again.
LEMMA RemoveKeeps == ASSUME IInv, NEW s \in Senders, Remove(s) PROVE IInv'
<1>0. StartInv'
  BY DEF IInv, StartInv, Remove, lifecycle
<1>1. ASSUME NEW i \in 1..Len(queue), queue' = Without(i), lost' = lost + 1,
             pc' = [pc EXCEPT ![s] = "reoffer"]
      PROVE  IInv'
  <2>1. queue \in Seq(Message)
    BY DEF IInv, TypeOK
  <2>2. TypeOK'
    <3>1. queue' \in Seq(Message) /\ Len(queue') = Len(queue) - 1
      BY <1>1, <2>1, WithoutProperties
    <3>2. Len(queue') <= Capacity
      BY <2>1, <3>1 DEF IInv, TypeOK
    <3> QED
      BY <1>1, <3>1, <3>2 DEF IInv, TypeOK, Remove, lifecycle, drain, SenderPc
  <2>3. CallInv' /\ FreshInv'
    BY <1>1, <2>1, WithoutKeeps DEF IInv, TypeOK, CallInv, FreshInv, Remove
  <2>4. CandInv' /\ Distinct(queue)'
    BY <1>1, <2>1, WithoutKeeps DEF IInv, TypeOK, CandInv, Remove
  <2>5. Cardinality(Between("reoffer"))' = Cardinality(Between("reoffer")) + 1
    BY <1>1, Enters DEF Remove, IInv, TypeOK
  <2>6. DropsAccounted'
    BY <1>1, <2>5, BetweenFinite DEF IInv, TypeOK, DropsAccounted, Remove
  <2> QED
    BY <1>0, <2>2, <2>3, <2>4, <2>6 DEF IInv
<1>2. CASE pc' = [pc EXCEPT ![s] = "scan"] /\ UNCHANGED <<queue, lost>>
  <2>1. TypeOK'
    BY <1>2 DEF IInv, TypeOK, Remove, lifecycle, drain, SenderPc
  <2>2. CallInv' /\ FreshInv' /\ CandInv' /\ Distinct(queue)'
    BY <1>2 DEF IInv, TypeOK, CallInv, FreshInv, CandInv, Remove
  <2>3. Between("reoffer")' = Between("reoffer")
    BY <1>2, Stays DEF Remove, IInv, TypeOK
  <2>4. DropsAccounted'
    BY <1>2, <2>3 DEF IInv, DropsAccounted, Remove
  <2> QED
    BY <1>0, <2>1, <2>2, <2>4 DEF IInv
<1> QED
  BY <1>1, <1>2 DEF Remove

\* The second offer, and the call returns.
LEMMA ReofferKeeps == ASSUME IInv, NEW s \in Senders, Reoffer(s) PROVE IInv'
<1>0. StartInv'
  BY DEF IInv, StartInv, Reoffer, lifecycle
<1> DEFINE m == msg[s]
<1>1. /\ pc[s] = "reoffer" /\ m \in Message /\ m \notin Elements(queue)
      /\ \A r \in Senders : m # cand[r] /\ (r # s => m # msg[r])
      /\ queue \in Seq(Message)
  BY DEF Reoffer, IInv, TypeOK, CallInv, FreshInv
<1>2. /\ pc' = [pc EXCEPT ![s] = "idle"]
      /\ msg' = [msg EXCEPT ![s] = Nothing]
      /\ cand' = [cand EXCEPT ![s] = Nothing]
      /\ sendDropped' = sendDropped + 1
      /\ UNCHANGED <<lifecycle, drain>>
  BY DEF Reoffer, Return
<1>3. \/ Len(queue) < Capacity /\ queue' = Append(queue, m) /\ lost' = lost
      \/ lost' = lost + 1 /\ queue' = queue
  BY DEF Reoffer, HasRoom
<1> HIDE DEF m
<1>4. /\ queue' \in Seq(Message) /\ Len(queue') <= Capacity /\ Distinct(queue')
      /\ Elements(queue') \subseteq Elements(queue) \cup {m}
      /\ \A r \in Senders :
           OldestIfQueued(cand[r], queue) => OldestIfQueued(cand[r], queue')
  <2>1. CASE Len(queue) < Capacity /\ queue' = Append(queue, m)
    <3>1. \A r \in Senders :
           OldestIfQueued(cand[r], queue) => OldestIfQueued(cand[r], queue')
      BY <1>1, <2>1, PushOldest
    <3> QED
      BY <1>1, <2>1, <3>1, PushProperties, PushDistinct DEF IInv
  <2>2. CASE queue' = queue
    BY <1>1, <2>2 DEF IInv, TypeOK
  <2> QED
    BY <1>3, <2>1, <2>2
<1>5. TypeOK'
  BY <1>2, <1>3, <1>4 DEF IInv, TypeOK, lifecycle, drain, SenderPc
<1>6. CallInv' /\ CandInv' /\ FreshInv' /\ Distinct(queue)'
  BY <1>1, <1>2, <1>4 DEF IInv, TypeOK, CallInv, CandInv, FreshInv
<1>7. Cardinality(Between("reoffer"))' = Cardinality(Between("reoffer")) - 1
  BY <1>1, <1>2, Leaves DEF IInv, TypeOK
<1>8. DropsAccounted'
  <2> DEFINE n == Cardinality(Between("reoffer"))
  <2>1. n \in Nat /\ n' = n - 1
    BY <1>7, BetweenFinite
  <2>2. sendDropped + n <= lost /\ lost <= 2 * sendDropped + n
    BY DEF IInv, DropsAccounted
  <2>3. sendDropped \in Nat /\ lost \in Nat /\ lost' \in {lost, lost + 1}
    BY <1>3 DEF IInv, TypeOK
  <2> HIDE DEF n
  <2>4. sendDropped' + n' <= lost' /\ lost' <= 2 * sendDropped' + n'
    BY <1>2, <2>1, <2>2, <2>3
  <2> QED
    BY <2>4 DEF DropsAccounted, n
<1> QED
  BY <1>0, <1>5, <1>6, <1>8 DEF IInv

\* The write loop only takes from the queue.
LEMMA WriteLoopKeeps == ASSUME IInv, WriteLoop PROVE IInv'
<1>0. StartInv'
  BY DEF IInv, StartInv, WriteLoop, WriterTop, Poll, PollTimeout, Write, lifecycle, call
<1>1. CASE WriterTop \/ PollTimeout \/ Write
  <2>1. UNCHANGED <<queue, call, count, lifecycle, taken>> /\ writer' \in WriterPc
    BY <1>1 DEF WriterTop, PollTimeout, Write, WriterPc
  <2>2. TypeOK'
    BY <2>1 DEF IInv, TypeOK, call, count, lifecycle
  <2> QED
    BY <1>0, <2>1, <2>2, CalmKeeps
<1>2. CASE Poll
  <2>1. queue \in Seq(Message) /\ queue # <<>> /\ queue' = Tail(queue)
    BY <1>2 DEF Poll, IInv, TypeOK
  <2>2. TypeOK'
    BY <1>2, <2>1, PopProperties
       DEF Poll, IInv, TypeOK, call, count, lifecycle, WriterPc
  <2>3. /\ Distinct(queue)'
        /\ \A r \in Senders : pc[r] # "idle" => msg[r] \notin Elements(queue')
        /\ \A r \in Senders :
             OldestIfQueued(cand[r], queue) => OldestIfQueued(cand[r], queue')
    BY <2>1, PopProperties DEF IInv, CallInv
  <2> QED
    BY <1>0, <1>2, <2>2, <2>3, QueueKeeps DEF Poll
<1> QED
  BY <1>1, <1>2 DEF WriteLoop

\* The invariant is inductive.
LEMMA Inductive == IInv /\ [Next]_vars => IInv'
<1> SUFFICES ASSUME IInv, [Next]_vars PROVE IInv'
  OBVIOUS
<1>1. CASE Next
  BY <1>1, StartKeeps, SendInitKeeps, StopKeeps, SendKeeps, ScanKeeps, RemoveKeeps,
     ReofferKeeps, WriteLoopKeeps DEF Next
<1>2. CASE UNCHANGED vars
  <2>1. TypeOK' /\ StartInv'
    BY <1>2 DEF vars, IInv, TypeOK, StartInv
  <2> QED
    BY <1>2, <2>1, CalmKeeps DEF vars, call, count
<1> QED
  BY <1>1, <1>2

LEMMA AlwaysIInv == Spec => []IInv
<1> QED
  BY InitInv, Inductive, PTL DEF Spec

(***************************************************************************)
(* Theorems.                                                               *)
(***************************************************************************)

\* Every variable keeps its type, and the queue never exceeds its capacity
\* (CarlinkitDriver.sendQueue).
THEOREM TypeCorrect == Spec => []TypeOK
<1>1. IInv => TypeOK
  BY DEF IInv
<1> QED
  BY AlwaysIInv, <1>1, PTL

\* sendDropped accounts for every lost message, up to the two one send() can
\* lose and the calls that have not counted yet, for any number of senders.
THEOREM DropsCounted == Spec => []DropsAccounted
<1>1. IInv => DropsAccounted
  BY DEF IInv
<1> QED
  BY AlwaysIInv, <1>1, PTL

\* The lock-free send() is a FIFO that loses nothing but its oldest audio, for
\* any number of senders and any capacity: what is removed is the oldest chunk
\* although others queued, polled and dropped since it was found.
THEOREM ImplementsFifo == Spec => AudioLossyFifo
<1> DEFINE FifoStep == Channel!Next \/ UNCHANGED Channel!vars
<1>1. ASSUME NEW m \in Message, queue' = Append(queue, m), taken' = taken PROVE FifoStep
  BY <1>1 DEF Channel!Next, Channel!Accept
<1>2. ASSUME queue' = queue, taken' = taken PROVE FifoStep
  BY <1>2 DEF Channel!vars
<1>3. ASSUME IInv, [Next]_vars PROVE FifoStep
  <2>1. CASE SendInit
    BY <2>1, <1>1, NewMessageFresh DEF SendInit, drain
  <2>2. CASE Stop
    BY <2>2, <1>2 DEF Stop, drain
  <2>3. ASSUME NEW s \in Senders, Send(s) PROVE FifoStep
    <3>1. taken' = taken
      BY <2>3 DEF Send, drain
    <3> QED
      BY <2>3, <3>1, <1>1, <1>2, SendOffers
  <2>4. ASSUME NEW s \in Senders, Scan(s) PROVE FifoStep
    BY <2>4, <1>2 DEF Scan, drain
  <2>5. ASSUME NEW s \in Senders, Remove(s) PROVE FifoStep
    <3>1. ASSUME NEW i \in 1..Len(queue), queue[i] = cand[s], queue' = Without(i)
          PROVE  FifoStep
      <4>1. queue[i].audio /\ \A j \in 1..(i - 1) : ~queue[j].audio
        BY <1>3, <2>5, <3>1 DEF Remove, IInv, CandInv, OldestIfQueued
      <4>2. queue[i] \in {m \in Message : m.audio}
        BY <1>3, <4>1 DEF IInv, TypeOK
      <4>3. \A j \in 1..(i - 1) : queue[j] \notin {m \in Message : m.audio}
        BY <4>1
      <4>4. taken' = taken
        BY <2>5 DEF Remove, drain
      <4>5. Channel!DropOldestAudio
        BY <3>1, <4>2, <4>3, <4>4 DEF Without, Channel!DropOldestAudio
      <4> QED
        BY <4>5 DEF Channel!Next
    <3> QED
      BY <2>5, <3>1, <1>2 DEF Remove, drain
  <2>6. ASSUME NEW s \in Senders, Reoffer(s) PROVE FifoStep
    BY <1>3, <2>6, <1>1, <1>2 DEF Reoffer, drain, IInv, CallInv
  <2>7. CASE Poll
    BY <2>7 DEF Poll, Channel!Next, Channel!Emit
  <2>8. CASE WriterTop \/ PollTimeout \/ Write
    BY <2>8, <1>2 DEF WriterTop, PollTimeout, Write
  <2>9. CASE UNCHANGED vars
    BY <2>9, <1>2 DEF vars
  <2>10. CASE Start
    BY <1>3, <2>10, <1>2 DEF Start, IInv, StartInv
  <2> QED
    BY <1>3, <2>10, <2>1, <2>2, <2>3, <2>4, <2>5, <2>6, <2>7, <2>8, <2>9 DEF Next, WriteLoop
<1>4. Init => Channel!Init
  BY DEF Init, Channel!Init
<1> QED
  BY AlwaysIInv, <1>3, <1>4, PTL DEF Spec, AudioLossyFifo, Channel!Spec

(***************************************************************************)
(* What the liveness of the queue rests on.                                *)
(***************************************************************************)

\* The write thread does not end while the driver runs, for any number of senders
\* and any capacity.
THEOREM WriterStays == Spec => []WriterServes
<1>1. Init => WriterServes
  BY DEF Init, WriterServes
<1>2. WriterServes /\ [Next]_vars => WriterServes'
  BY DEF WriterServes, Next, Start, SendInit, Stop, WriteLoop, WriterTop, Poll, PollTimeout,
     Write, Send, Scan, Remove, Reoffer, vars, lifecycle, drain
<1> QED
  BY <1>1, <1>2, PTL DEF Spec

\* A message that only moved up advanced, when the write thread did nothing.
LEMMA MovesUp ==
  ASSUME NEW i \in 1..Len(queue), UNCHANGED drain,
         NEW j \in 1..i, j <= Len(queue'), queue'[j] = queue[i]
  PROVE  Advances(i)
BY DEF Advances, drain

\* Adding a message moves nobody.
LEMMA PushAdvances ==
  ASSUME queue \in Seq(Message), NEW m \in Message, queue' = Append(queue, m),
         UNCHANGED drain, NEW i \in 1..Len(queue)
  PROVE  Advances(i)
<1>1. i \in 1..i /\ i <= Len(queue') /\ queue'[i] = queue[i]
  OBVIOUS
<1> QED
  BY <1>1, MovesUp

\* Nor does a step that leaves the queue alone.
LEMMA CalmAdvances ==
  ASSUME queue' = queue, UNCHANGED drain, queue \in Seq(Message), NEW i \in 1..Len(queue)
  PROVE  Advances(i)
<1>1. i \in 1..i /\ i <= Len(queue') /\ queue'[i] = queue[i]
  OBVIOUS
<1> QED
  BY <1>1, MovesUp

\* The one that is removed is audio; those behind it move up.
LEMMA RemoveAdvances ==
  ASSUME IInv, NEW s \in Senders, Remove(s), NEW i \in 1..Len(queue), ~queue[i].audio
  PROVE  Advances(i)
<1>0. queue \in Seq(Message) /\ UNCHANGED drain
  BY DEF IInv, TypeOK, Remove
<1>1. ASSUME NEW k \in 1..Len(queue), queue[k] = cand[s], queue' = Without(k)
      PROVE  Advances(i)
  <2>1. queue[k].audio
    BY <1>1 DEF Remove, IInv, CandInv, OldestIfQueued
  <2>2. i # k
    BY <2>1
  <2>3. /\ Len(queue') = Len(queue) - 1
        /\ \A j \in 1..Len(queue') : queue'[j] = queue[IF j < k THEN j ELSE j + 1]
    BY <1>0, <1>1, WithoutProperties
  <2>4. Len(queue) \in Nat
    BY <1>0
  <2>5. CASE i < k
    <3>1. i \in 1..i /\ i <= Len(queue') /\ queue'[i] = queue[i]
      BY <2>3, <2>4, <2>5
    <3> QED
      BY <1>0, <3>1, MovesUp
  <2>6. CASE i > k
    <3>1. i - 1 \in 1..i /\ i - 1 <= Len(queue') /\ queue'[i - 1] = queue[i]
      BY <2>3, <2>4, <2>6
    <3> QED
      BY <1>0, <3>1, MovesUp
  <2> QED
    BY <2>2, <2>5, <2>6
<1>2. CASE queue' = queue
  BY <1>0, <1>2, CalmAdvances
<1> QED
  BY <1>1, <1>2 DEF Remove

\* Each step of the write thread is one less to wait for.
LEMMA WriteLoopAdvances ==
  ASSUME IInv, WriteLoop, running, NEW i \in 1..Len(queue)
  PROVE  Advances(i)
<1>0. queue \in Seq(Message) /\ Len(queue) \in Nat
  BY DEF IInv, TypeOK
<1>1. CASE WriterTop \/ Write
  <2>1. i \in 1..i /\ i <= Len(queue') /\ queue'[i] = queue[i]
    BY <1>0, <1>1 DEF WriterTop, Write
  <2>2. Due(i)' < Due(i)
    BY <1>1 DEF WriterTop, Write, Due
  <2> QED
    BY <2>1, <2>2 DEF Advances
<1>2. CASE Poll
  <2>1. /\ Head(queue) = queue[1] /\ Len(Tail(queue)) = Len(queue) - 1
        /\ \A j \in 1..Len(Tail(queue)) : Tail(queue)[j] = queue[j + 1]
    BY <1>0
  <2>2. CASE i = 1
    BY <1>2, <2>1, <2>2 DEF Poll, Advances
  <2>3. CASE i > 1
    <3>1. i - 1 \in 1..i /\ i - 1 <= Len(queue') /\ queue'[i - 1] = queue[i]
      BY <1>0, <1>2, <2>1, <2>3 DEF Poll
    <3>2. Due(i - 1)' < Due(i)
      BY <1>2, <2>3 DEF Poll, Due
    <3> QED
      BY <3>1, <3>2 DEF Advances
  <2> QED
    BY <2>2, <2>3
<1>3. CASE PollTimeout
  BY <1>0, <1>3 DEF PollTimeout
<1> QED
  BY <1>1, <1>2, <1>3 DEF WriteLoop

\* A queued command is never set back, and each step of the write thread brings it
\* nearer: the part of AcceptedGoesOut that asks nothing of the scheduler, for any
\* number of senders and any capacity.
THEOREM CommandsGetNearer == Spec => CommandGetsNearer
<1> DEFINE A == \A i \in 1..Len(queue) :
                  running /\ running' /\ ~queue[i].audio => Advances(i)
<1>1. ASSUME IInv, Next, NEW i \in 1..Len(queue), running, running', ~queue[i].audio
      PROVE  Advances(i)
  <2>0. queue \in Seq(Message)
    BY <1>1 DEF IInv, TypeOK
  <2>1. ~Start /\ ~Stop
    BY <1>1 DEF Start, Stop
  <2>2. CASE SendInit
    <3>1. NewMessage(FALSE) \in Message
      BY <2>2, NewMessageFresh DEF SendInit
    <3> QED
      BY <2>0, <2>2, <3>1, PushAdvances DEF SendInit
  <2>3. CASE WriteLoop
    BY <1>1, <2>3, WriteLoopAdvances
  <2>4. ASSUME NEW s \in Senders, Send(s) PROVE Advances(i)
    <3>1. UNCHANGED drain
      BY <2>4 DEF Send
    <3> QED
      BY <2>0, <2>4, <3>1, SendOffers, PushAdvances, CalmAdvances
  <2>5. ASSUME NEW s \in Senders, Scan(s) PROVE Advances(i)
    BY <2>0, <2>5, CalmAdvances DEF Scan
  <2>6. ASSUME NEW s \in Senders, Remove(s) PROVE Advances(i)
    BY <1>1, <2>6, RemoveAdvances
  <2>7. ASSUME NEW s \in Senders, Reoffer(s) PROVE Advances(i)
    <3>1. UNCHANGED drain /\ msg[s] \in Message
      BY <1>1, <2>7 DEF Reoffer, IInv, CallInv
    <3> QED
      BY <2>0, <2>7, <3>1, PushAdvances, CalmAdvances DEF Reoffer
  <2> QED
    BY <1>1, <2>1, <2>2, <2>3, <2>4, <2>5, <2>6, <2>7 DEF Next
<1>2. IInv /\ Next => A
  BY <1>1
<1> HIDE DEF A
<1>3. IInv /\ [Next]_vars => [A]_vars
  BY <1>2
<1>4. Spec => [][A]_vars
  BY <1>3, AlwaysIInv, PTL DEF Spec
<1> QED
  BY <1>4 DEF CommandGetsNearer, A
=============================================================================
