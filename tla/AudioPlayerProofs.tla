------------------------- MODULE AudioPlayerProofs -------------------------
(***************************************************************************)
(* Proofs about AudioPlayer for any formats, arrays, worker threads and    *)
(* sizes of the queue.                                                     *)
(***************************************************************************)
EXTENDS AudioPlayer, FiniteSetTheorems, SequenceTheorems, TLAPS

\* the sound of two places of q is never in the same array
Distinct(q) ==
  \A i, j \in 1..Len(q) :
    IsPcm(q[i]) /\ IsPcm(q[j]) /\ q[i].buffer = q[j].buffer => i = j

\* b is the array of some sound of q, and of the oldest one
Queued(b, q) == \E i \in 1..Len(q) : IsPcm(q[i]) /\ q[i].buffer = b
Oldest(b, q) ==
  \E i \in 1..Len(q) :
    IsPcm(q[i]) /\ q[i].buffer = b /\ \A j \in 1..(i - 1) : ~IsPcm(q[j])

\* the last mute of q, if there is one, is v
NoMute(q) == \A i \in 1..Len(q) : q[i] \notin Mute
LastMute(q, v) ==
  \A i \in 1..Len(q) :
    q[i] \in Mute /\ (\A j \in (i + 1)..Len(q) : q[j] \notin Mute) => q[i].on = v

\* A thread at a step of a call has the work, and the reason to drop, that the
\* step needs; a producer has a candidate only while it is about to remove it.
ProducerInv ==
  /\ at["reader"] # "check" /\ at["ui"] \notin {"measure", "trim"}
  /\ \A p \in Producers :
       /\ at[p] = "idle" => work[p] = Nothing
       /\ at[p] # "remove" => candidate[p] = Nothing
       /\ at[p] = "clear" => ~IsPcm(work[p])
  /\ at["ui"] # "idle" => work["ui"] \in Mute /\ work["ui"].on = muted
  /\ at["ui"] \in {"scan", "remove"} => goal["ui"] = "purge"
  /\ at["reader"] # "idle" => work["reader"] \in Pcm \cup Command
  /\ at["reader"] \in {"measure", "trim", "scan", "remove"} => work["reader"] \in Pcm
  /\ at["reader"] \in {"scan", "remove"} => goal["reader"] \in {"trim", "room"}

\* A worker has a work exactly while it does it.
ItemInv ==
  \A w \in Workers :
    /\ worker[w] \in {"pcm", "ensure", "write"} => item[w] \in Pcm
    /\ worker[w] = "command" => item[w] \in Command
    /\ worker[w] = "mute" => item[w] \in Mute
    /\ worker[w] \notin {"pcm", "ensure", "write", "command", "mute"} => item[w] = Nothing

\* The only thread that is alive is audioThread, and without it nothing plays.
ConsumerInv ==
  /\ \A w \in Workers : Alive(w) => audioThread = w
  /\ (\A w \in Workers : ~UsesTracks(w)) => \A d \in Types : tracks[d] = "none"

\* The service is in start() or stop() only while the player does not run, and
\* start() clears the queue when no worker is left.
ServiceInv ==
  /\ service # "idle" => ~running
  /\ service = "startClear" => \A w \in Workers : ~Alive(w)

WorkHas(b) == IsPcm(work["reader"]) /\ work["reader"].buffer = b
ItemHas(w, b) == IsPcm(item[w]) /\ item[w].buffer = b

\* An array is in one place.
BufferInv ==
  /\ Distinct(audioQueue)
  /\ \A b \in Buffers :
       /\ b \in pcmPool =>
            ~Queued(b, audioQueue) /\ ~WorkHas(b) /\ \A w \in Workers : ~ItemHas(w, b)
       /\ Queued(b, audioQueue) => ~WorkHas(b) /\ \A w \in Workers : ~ItemHas(w, b)
       /\ WorkHas(b) => \A w \in Workers : ~ItemHas(w, b)

\* The chunk a producer is about to remove is still queued, and the oldest.
CandInv ==
  \A p \in Producers : candidate[p] # Nothing => Oldest(candidate[p], audioQueue)

\* setMuted() has returned, and nobody cleared its control away
Settled == at["ui"] = "idle" /\ running /\ ~muteLost

Quiet ==
  /\ \A d \in Types : tracks[d] # "playing"
  /\ \A w \in Workers : worker[w] \notin {"ensure", "write"}

\* The last mute on its way is the one that was asked for, and when none is, what
\* was asked for has been done.
MuteInv ==
  Settled =>
    /\ LastMute(audioQueue, muted)
    /\ NoMute(audioQueue) => \A w \in Workers : item[w] \in Mute => item[w].on = muted
    /\ NoMute(audioQueue) /\ (\A w \in Workers : item[w] \notin Mute) /\ muted => Quiet

IInv ==
  /\ TypeOK /\ ProducerInv /\ ItemInv /\ ConsumerInv /\ ServiceInv /\ BufferInv
  /\ CandInv /\ MuteInv

USE SizesAssumption, SetsAssumption, NothingAssumption

(***************************************************************************)
(* Works, arrays and the pool.                                             *)
(***************************************************************************)

\* What the three kinds of works are made of; no two are alike.
LEMMA Kinds ==
  /\ Work = Pcm \cup Command \cup Mute
  /\ \A w \in Pcm : w.kind = "pcm" /\ w.type \in Types /\ w.buffer \in Buffers
  /\ \A w \in Command : w.kind = "command" /\ w.type \in Types
  /\ \A w \in Mute : w.kind = "mute" /\ w.on \in BOOLEAN
  /\ \A w \in Pcm : w \notin Command /\ w \notin Mute
  /\ \A w \in Command : w \notin Pcm /\ w \notin Mute
  /\ \A w \in Mute : w \notin Pcm /\ w \notin Command
  /\ Nothing \notin Pcm /\ Nothing \notin Command /\ Nothing \notin Mute
  /\ Nothing \notin Buffers /\ Nothing \notin Workers
<1>1. \A w \in Pcm : w.kind = "pcm" /\ w.type \in Types /\ w.buffer \in Buffers
  BY DEF Pcm
<1>2. \A w \in Command : w.kind = "command" /\ w.type \in Types
  BY DEF Command
<1>3. \A w \in Mute : w.kind = "mute" /\ w.on \in BOOLEAN
  BY DEF Mute
<1>4. /\ \A w \in Pcm : w \notin Command /\ w \notin Mute
      /\ \A w \in Command : w \notin Pcm /\ w \notin Mute
      /\ \A w \in Mute : w \notin Pcm /\ w \notin Command
  BY <1>1, <1>2, <1>3
<1>5. /\ Nothing \notin Pcm /\ Nothing \notin Command /\ Nothing \notin Mute
      /\ Nothing \notin Buffers /\ Nothing \notin Workers
  BY DEF Work
<1> QED
  BY <1>1, <1>2, <1>3, <1>4, <1>5 DEF Work

\* The works the producers make.
LEMMA NewWorks ==
  /\ \A d \in Types, b \in Buffers :
       /\ [kind |-> "pcm", type |-> d, buffer |-> b] \in Pcm
       /\ [kind |-> "pcm", type |-> d, buffer |-> b].buffer = b
  /\ \A d \in Types : [kind |-> "command", type |-> d] \in Command
  /\ \A v \in BOOLEAN : /\ [kind |-> "mute", on |-> v] \in Mute
                        /\ [kind |-> "mute", on |-> v].on = v
  BY DEF Pcm, Command, Mute

\* The arrays of one work: one if it is PCM.
LEMMA OneArray ==
  ASSUME NEW w
  PROVE  /\ IsPcm(w) => Arrays({w}) = {w.buffer} /\ w.buffer \in Buffers
         /\ ~IsPcm(w) => Arrays({w}) = {}
  BY Kinds DEF Arrays, IsPcm

\* The pool keeps its bound and gains nothing but the array given back.
LEMMA RecycleOne ==
  ASSUME pcmPool \in SUBSET Buffers, Cardinality(pcmPool) <= Capacity,
         NEW S \in SUBSET Buffers, S = {} \/ \E b \in Buffers : S = {b}, Recycle(S)
  PROVE  /\ pcmPool' \in SUBSET Buffers /\ Cardinality(pcmPool') <= Capacity
         /\ \A b : b \in pcmPool' => b \in pcmPool \/ b \in S
<1>1. IsFiniteSet(pcmPool)
  BY FS_Subset
<1>2. Cardinality(pcmPool) \in Nat
  BY <1>1, FS_CardinalityType
<1>3. CASE S = {}
  BY <1>3, <1>2 DEF Recycle
<1>4. ASSUME NEW b \in Buffers, S = {b} PROVE
        /\ Cardinality(pcmPool \cup S) \in Nat
        /\ Cardinality(pcmPool \cup S) <= Cardinality(pcmPool) + 1
  <2>1. /\ IsFiniteSet(pcmPool \cup {b})
        /\ \/ Cardinality(pcmPool \cup {b}) = Cardinality(pcmPool)
           \/ Cardinality(pcmPool \cup {b}) = Cardinality(pcmPool) + 1
    BY <1>1, FS_AddElement
  <2> QED
    BY <1>2, <1>4, <2>1
<1>5. CASE \E b \in Buffers : S = {b}
  BY <1>2, <1>4, <1>5 DEF Recycle
<1> QED
  BY <1>3, <1>5

\* An array is taken from the pool, or none.
LEMMA PoolShrinks ==
  ASSUME pcmPool \in SUBSET Buffers, Cardinality(pcmPool) <= Capacity, NEW b,
         pcmPool' = pcmPool \ {b}
  PROVE  Cardinality(pcmPool') <= Capacity
<1>1. IsFiniteSet(pcmPool)
  BY FS_Subset
<1>2. /\ Cardinality(pcmPool) \in Nat /\ Cardinality(pcmPool \ {b}) \in Nat
      /\ Cardinality(pcmPool \ {b}) <= Cardinality(pcmPool)
  BY <1>1, FS_CardinalityType, FS_Subset
<1> QED
  BY <1>2

(***************************************************************************)
(* Queues.                                                                 *)
(***************************************************************************)

LEMMA Push ==
  ASSUME NEW q \in Seq(Work), NEW x \in Work
  PROVE  /\ Append(q, x) \in Seq(Work) /\ Len(Append(q, x)) = Len(q) + 1
         /\ Distinct(q) /\ (IsPcm(x) => ~Queued(x.buffer, q)) => Distinct(Append(q, x))
         /\ \A b : Queued(b, Append(q, x)) => Queued(b, q) \/ (IsPcm(x) /\ x.buffer = b)
         /\ \A b : Oldest(b, q) => Oldest(b, Append(q, x))
         /\ \A v : x \in Mute /\ x.on = v => LastMute(Append(q, x), v)
         /\ \A v : x \notin Mute /\ LastMute(q, v) => LastMute(Append(q, x), v)
         /\ NoMute(Append(q, x)) => NoMute(q) /\ x \notin Mute
<1> DEFINE r == Append(q, x)
<1>1. /\ r \in Seq(Work) /\ Len(r) = Len(q) + 1 /\ r[Len(q) + 1] = x
      /\ \A i \in 1..Len(q) : r[i] = q[i]
  OBVIOUS
<1>2. Len(q) \in Nat
  OBVIOUS
<1> HIDE DEF r
<1>3. Distinct(q) /\ (IsPcm(x) => ~Queued(x.buffer, q)) => Distinct(r)
  BY <1>1, <1>2 DEF Distinct, Queued
<1>4. ASSUME NEW b, Queued(b, r) PROVE Queued(b, q) \/ (IsPcm(x) /\ x.buffer = b)
  <2>1. PICK i \in 1..Len(r) : IsPcm(r[i]) /\ r[i].buffer = b
    BY <1>4 DEF Queued
  <2>2. CASE i = Len(q) + 1
    BY <1>1, <2>1, <2>2
  <2>3. CASE i # Len(q) + 1
    <3>1. i \in 1..Len(q) /\ r[i] = q[i]
      BY <1>1, <1>2, <2>3
    <3> QED
      BY <2>1, <3>1 DEF Queued
  <2> QED
    BY <2>2, <2>3
<1>5. ASSUME NEW b, Oldest(b, q) PROVE Oldest(b, r)
  <2>1. PICK i \in 1..Len(q) :
          IsPcm(q[i]) /\ q[i].buffer = b /\ \A j \in 1..(i - 1) : ~IsPcm(q[j])
    BY <1>5 DEF Oldest
  <2>2. /\ i \in 1..Len(r) /\ r[i] = q[i]
        /\ \A j \in 1..(i - 1) : r[j] = q[j]
    BY <1>1, <1>2, <2>1
  <2> QED
    BY <2>1, <2>2 DEF Oldest
<1>6. ASSUME NEW v, x \in Mute, x.on = v PROVE LastMute(r, v)
  <2> SUFFICES ASSUME NEW i \in 1..Len(r), r[i] \in Mute,
                      \A j \in (i + 1)..Len(r) : r[j] \notin Mute
               PROVE  r[i].on = v
    BY DEF LastMute
  <2>1. i = Len(q) + 1
    BY <1>1, <1>2, <1>6
  <2> QED
    BY <1>1, <1>6, <2>1
<1>7. ASSUME NEW v, x \notin Mute, LastMute(q, v) PROVE LastMute(r, v)
  <2> SUFFICES ASSUME NEW i \in 1..Len(r), r[i] \in Mute,
                      \A j \in (i + 1)..Len(r) : r[j] \notin Mute
               PROVE  r[i].on = v
    BY DEF LastMute
  <2>1. i \in 1..Len(q) /\ q[i] = r[i]
    BY <1>1, <1>2, <1>7
  <2>2. \A j \in (i + 1)..Len(q) : q[j] \notin Mute
    BY <1>1, <1>2, <2>1
  <2> QED
    BY <1>7, <2>1, <2>2 DEF LastMute
<1>8. NoMute(r) => NoMute(q) /\ x \notin Mute
  BY <1>1, <1>2 DEF NoMute
<1> QED
  BY <1>1, <1>3, <1>4, <1>5, <1>6, <1>7, <1>8 DEF r

LEMMA Pop ==
  ASSUME NEW q \in Seq(Work), q # <<>>
  PROVE  /\ Head(q) \in Work /\ Tail(q) \in Seq(Work) /\ Len(Tail(q)) = Len(q) - 1
         /\ Distinct(q) => Distinct(Tail(q))
         /\ \A b : Queued(b, Tail(q)) => Queued(b, q)
         /\ Distinct(q) /\ IsPcm(Head(q)) => ~Queued(Head(q).buffer, Tail(q))
         /\ IsPcm(Head(q)) => Queued(Head(q).buffer, q)
         /\ \A b : Oldest(b, q) /\ ~(IsPcm(Head(q)) /\ Head(q).buffer = b)
              => Oldest(b, Tail(q))
         /\ \A v : LastMute(q, v) => LastMute(Tail(q), v)
         /\ \A v : LastMute(q, v) /\ NoMute(Tail(q)) /\ Head(q) \in Mute
              => Head(q).on = v
         /\ NoMute(Tail(q)) /\ Head(q) \notin Mute => NoMute(q)
<1> DEFINE r == Tail(q)
<1>1. /\ Head(q) \in Work /\ Head(q) = q[1] /\ r \in Seq(Work) /\ Len(r) = Len(q) - 1
      /\ \A i \in 1..Len(r) : r[i] = q[i + 1]
      /\ Len(q) \in Nat /\ Len(q) > 0
  OBVIOUS
<1> HIDE DEF r
<1>2. ASSUME Distinct(q) PROVE Distinct(r)
  <2> SUFFICES ASSUME NEW i \in 1..Len(r), NEW j \in 1..Len(r),
                      IsPcm(r[i]), IsPcm(r[j]), r[i].buffer = r[j].buffer
               PROVE  i = j
    BY DEF Distinct
  <2>1. i + 1 \in 1..Len(q) /\ j + 1 \in 1..Len(q) /\ r[i] = q[i + 1] /\ r[j] = q[j + 1]
    BY <1>1
  <2>2. i + 1 = j + 1
    BY <1>2, <2>1 DEF Distinct
  <2> QED
    BY <2>2
<1>3. \A b : Queued(b, r) => Queued(b, q)
  BY <1>1 DEF Queued
<1>4. ASSUME Distinct(q), IsPcm(q[1]) PROVE ~Queued(q[1].buffer, r)
  <2> SUFFICES ASSUME NEW i \in 1..Len(r), IsPcm(r[i]), r[i].buffer = q[1].buffer
               PROVE  FALSE
    BY DEF Queued
  <2>1. 1 \in 1..Len(q) /\ i + 1 \in 1..Len(q) /\ r[i] = q[i + 1] /\ i + 1 # 1
    BY <1>1
  <2> QED
    BY <1>4, <2>1 DEF Distinct
<1>5. IsPcm(q[1]) => Queued(q[1].buffer, q)
  BY <1>1 DEF Queued
<1>6. ASSUME NEW b, Oldest(b, q), ~(IsPcm(q[1]) /\ q[1].buffer = b) PROVE Oldest(b, r)
  <2>1. PICK i \in 1..Len(q) :
          IsPcm(q[i]) /\ q[i].buffer = b /\ \A j \in 1..(i - 1) : ~IsPcm(q[j])
    BY <1>6 DEF Oldest
  <2>2. i # 1
    BY <1>6, <2>1
  <2>3. /\ i - 1 \in 1..Len(r) /\ r[i - 1] = q[i]
        /\ \A j \in 1..(i - 2) : r[j] = q[j + 1] /\ j + 1 \in 1..(i - 1)
    BY <1>1, <2>1, <2>2
  <2>4. ASSUME NEW j \in 1..((i - 1) - 1) PROVE ~IsPcm(r[j])
    <3>1. j \in 1..(i - 2)
      BY <2>1, <2>4
    <3> QED
      BY <2>1, <2>3, <3>1
  <2> QED
    BY <2>1, <2>3, <2>4 DEF Oldest
<1>7. ASSUME NEW v, LastMute(q, v) PROVE LastMute(r, v)
  <2> SUFFICES ASSUME NEW i \in 1..Len(r), r[i] \in Mute,
                      \A j \in (i + 1)..Len(r) : r[j] \notin Mute
               PROVE  r[i].on = v
    BY DEF LastMute
  <2>1. i + 1 \in 1..Len(q) /\ q[i + 1] = r[i]
    BY <1>1
  <2>2. ASSUME NEW j \in ((i + 1) + 1)..Len(q) PROVE q[j] \notin Mute
    <3>1. j - 1 \in (i + 1)..Len(r) /\ j - 1 \in 1..Len(r) /\ (j - 1) + 1 = j
      BY <1>1, <2>2
    <3>2. q[j] = r[j - 1]
      BY <1>1, <3>1
    <3> QED
      BY <3>1, <3>2
  <2> QED
    BY <1>7, <2>1, <2>2 DEF LastMute
<1>8. ASSUME NEW v, LastMute(q, v), NoMute(r), q[1] \in Mute PROVE q[1].on = v
  <2>1. \A j \in 2..Len(q) : j - 1 \in 1..Len(r) /\ q[j] = r[j - 1]
    BY <1>1
  <2>2. \A j \in (1 + 1)..Len(q) : q[j] \notin Mute
    BY <1>8, <2>1 DEF NoMute
  <2> QED
    BY <1>1, <1>8, <2>2 DEF LastMute
<1>9. ASSUME NoMute(r), q[1] \notin Mute PROVE NoMute(q)
  <2> SUFFICES ASSUME NEW j \in 1..Len(q) PROVE q[j] \notin Mute
    BY DEF NoMute
  <2>1. CASE j = 1
    BY <1>9, <2>1
  <2>2. CASE j # 1
    <3>1. j - 1 \in 1..Len(r) /\ (j - 1) + 1 = j
      BY <1>1, <2>2
    <3>2. q[j] = r[j - 1]
      BY <1>1, <3>1
    <3> QED
      BY <1>9, <3>1, <3>2 DEF NoMute
  <2> QED
    BY <2>1, <2>2
<1> QED
  BY <1>1, <1>2, <1>3, <1>4, <1>5, <1>6, <1>7, <1>8, <1>9 DEF r

\* The queue without its i-th work, which is sound.
LEMMA Taken ==
  ASSUME audioQueue \in Seq(Work), NEW i \in SoundAt
  PROVE  /\ i \in 1..Len(audioQueue) /\ IsPcm(audioQueue[i])
         /\ Without(i) \in Seq(Work) /\ Len(Without(i)) = Len(audioQueue) - 1
         /\ Distinct(audioQueue) =>
              Distinct(Without(i)) /\ ~Queued(audioQueue[i].buffer, Without(i))
         /\ \A b : Queued(b, Without(i)) => Queued(b, audioQueue)
         /\ Queued(audioQueue[i].buffer, audioQueue)
         /\ \A b : Oldest(b, audioQueue) /\ b # audioQueue[i].buffer
              => Oldest(b, Without(i))
         /\ \A v : LastMute(audioQueue, v) => LastMute(Without(i), v)
         /\ NoMute(Without(i)) => NoMute(audioQueue)
<1> DEFINE q == audioQueue
           r == Without(i)
           a == SubSeq(q, 1, i - 1)
           c == SubSeq(q, i + 1, Len(q))
<1>0. i \in 1..Len(q) /\ IsPcm(q[i]) /\ Len(q) \in Nat
  BY DEF SoundAt
<1>1. /\ a \in Seq(Work) /\ Len(a) = i - 1
      /\ \A j \in 1..(i - 1) : a[j] = q[j]
  BY <1>0, SubSeqProperties
<1>2. /\ c \in Seq(Work) /\ Len(c) = Len(q) - i
      /\ \A j \in 1..(Len(q) - i) : c[j] = q[i + j]
  BY <1>0, SubSeqProperties
<1>3. r = a \o c
  BY DEF Without
<1> HIDE DEF a, c, r, q
<1>4. /\ r \in Seq(Work) /\ Len(r) = Len(q) - 1
      /\ \A j \in 1..Len(r) : r[j] = IF j < i THEN q[j] ELSE q[j + 1]
  <2>1. /\ r \in Seq(Work) /\ Len(r) = Len(a) + Len(c)
        /\ \A j \in 1..(Len(a) + Len(c)) :
             r[j] = IF j <= Len(a) THEN a[j] ELSE c[j - Len(a)]
    <3>1. a \in Seq(Work) /\ c \in Seq(Work)
      BY <1>1, <1>2
    <3> QED
      BY <1>3, <3>1, ConcatProperties
  <2>2. ASSUME NEW j \in 1..Len(r) PROVE r[j] = IF j < i THEN q[j] ELSE q[j + 1]
    <3>0. r[j] = IF j <= i - 1 THEN a[j] ELSE c[j - (i - 1)]
      BY <1>1, <2>1
    <3>1. CASE j < i
      BY <1>0, <1>1, <3>0, <3>1
    <3>2. CASE ~(j < i)
      <4>1. j - (i - 1) \in 1..(Len(q) - i) /\ i + (j - (i - 1)) = j + 1
        BY <1>0, <1>1, <1>2, <2>1, <3>2
      <4>2. c[j - (i - 1)] = q[j + 1]
        BY <1>2, <4>1
      <4> QED
        BY <1>0, <3>0, <3>2, <4>2
    <3> QED
      BY <3>1, <3>2
  <2> QED
    BY <1>0, <1>1, <1>2, <2>1, <2>2
<1>5. \A j \in 1..Len(r) : \E k \in 1..Len(q) :
        k # i /\ r[j] = q[k] /\ k = (IF j < i THEN j ELSE j + 1)
  <2> SUFFICES ASSUME NEW j \in 1..Len(r)
               PROVE  \E k \in 1..Len(q) :
                        k # i /\ r[j] = q[k] /\ k = (IF j < i THEN j ELSE j + 1)
    OBVIOUS
  <2>1. CASE j < i
    <3>1. j \in 1..Len(q) /\ j # i /\ r[j] = q[j]
      BY <1>0, <1>4, <2>1
    <3> QED
      BY <2>1, <3>1
  <2>2. CASE ~(j < i)
    <3>1. j + 1 \in 1..Len(q) /\ j + 1 # i /\ r[j] = q[j + 1]
      BY <1>0, <1>4, <2>2
    <3> QED
      BY <2>2, <3>1
  <2> QED
    BY <2>1, <2>2
<1>6. ASSUME Distinct(q) PROVE Distinct(r)
  <2> SUFFICES ASSUME NEW j \in 1..Len(r), NEW l \in 1..Len(r),
                      IsPcm(r[j]), IsPcm(r[l]), r[j].buffer = r[l].buffer
               PROVE  j = l
    BY DEF Distinct
  <2>1. PICK k \in 1..Len(q) : r[j] = q[k] /\ k = (IF j < i THEN j ELSE j + 1)
    BY <1>5
  <2>2. PICK m \in 1..Len(q) : r[l] = q[m] /\ m = (IF l < i THEN l ELSE l + 1)
    BY <1>5
  <2>3. k = m
    BY <1>6, <2>1, <2>2 DEF Distinct
  <2> QED
    BY <1>0, <1>4, <2>1, <2>2, <2>3
<1>7. Distinct(q) => ~Queued(q[i].buffer, r)
  BY <1>0, <1>5 DEF Distinct, Queued
<1>8. (\A b : Queued(b, r) => Queued(b, q)) /\ Queued(q[i].buffer, q)
  BY <1>0, <1>5 DEF Queued
<1>9. ASSUME NEW b, Oldest(b, q), b # q[i].buffer PROVE Oldest(b, r)
  <2>1. PICK k \in 1..Len(q) :
          IsPcm(q[k]) /\ q[k].buffer = b /\ \A j \in 1..(k - 1) : ~IsPcm(q[j])
    BY <1>9 DEF Oldest
  <2>2. k < i
    BY <1>0, <1>9, <2>1
  <2>3. k \in 1..Len(r) /\ r[k] = q[k] /\ \A j \in 1..(k - 1) : r[j] = q[j]
    BY <1>0, <1>4, <2>2
  <2> QED
    BY <2>1, <2>3 DEF Oldest
<1>10. ASSUME NEW v, LastMute(q, v) PROVE LastMute(r, v)
  <2> SUFFICES ASSUME NEW j \in 1..Len(r), r[j] \in Mute,
                      \A l \in (j + 1)..Len(r) : r[l] \notin Mute
               PROVE  r[j].on = v
    BY DEF LastMute
  <2> DEFINE k == IF j < i THEN j ELSE j + 1
  <2>1. k \in 1..Len(q) /\ q[k] = r[j]
    BY <1>0, <1>4
  <2>2. ASSUME NEW l \in (k + 1)..Len(q) PROVE q[l] \notin Mute
    <3>1. CASE l = i
      BY <1>0, <3>1, Kinds DEF IsPcm
    <3>2. CASE l < i
      <4>1. l \in (j + 1)..Len(r) /\ l \in 1..Len(r)
        BY <1>0, <1>4, <2>2, <3>2
      <4> QED
        BY <1>4, <3>2, <4>1
    <3>3. CASE l > i
      <4>1. l - 1 \in (j + 1)..Len(r) /\ ~(l - 1 < i) /\ (l - 1) + 1 = l
        BY <1>0, <1>4, <2>2, <3>3
      <4>2. l - 1 \in 1..Len(r)
        BY <4>1
      <4> QED
        BY <1>4, <4>1, <4>2
    <3> QED
      BY <1>0, <3>1, <3>2, <3>3
  <2> QED
    BY <1>10, <2>1, <2>2 DEF LastMute
<1>11. ASSUME NoMute(r) PROVE NoMute(q)
  <2> SUFFICES ASSUME NEW l \in 1..Len(q) PROVE q[l] \notin Mute
    BY DEF NoMute
  <2>1. CASE l = i
    BY <1>0, <2>1, Kinds DEF IsPcm
  <2>2. CASE l < i
    <3>1. l \in 1..Len(r)
      BY <1>0, <1>4, <2>2
    <3> QED
      BY <1>4, <1>11, <2>2, <3>1 DEF NoMute
  <2>3. CASE l > i
    <3>1. l - 1 \in 1..Len(r) /\ ~(l - 1 < i) /\ (l - 1) + 1 = l
      BY <1>0, <1>4, <2>3
    <3> QED
      BY <1>4, <1>11, <3>1 DEF NoMute
  <2> QED
    BY <1>0, <2>1, <2>2, <2>3
<1> QED
  BY <1>0, <1>4, <1>6, <1>7, <1>8, <1>9, <1>10, <1>11 DEF q, r

\* The same, of the player's own queue.
LEMMA Appended ==
  ASSUME audioQueue \in Seq(Work), NEW x \in Work, audioQueue' = Append(audioQueue, x)
  PROVE  /\ audioQueue' \in Seq(Work) /\ Len(audioQueue') = Len(audioQueue) + 1
         /\ Distinct(audioQueue) /\ (IsPcm(x) => ~Queued(x.buffer, audioQueue))
              => Distinct(audioQueue')
         /\ \A b : Queued(b, audioQueue') =>
                     Queued(b, audioQueue) \/ (IsPcm(x) /\ x.buffer = b)
         /\ \A b : Oldest(b, audioQueue) => Oldest(b, audioQueue')
         /\ \A v : x \in Mute /\ x.on = v => LastMute(audioQueue', v)
         /\ \A v : x \notin Mute /\ LastMute(audioQueue, v) => LastMute(audioQueue', v)
         /\ NoMute(audioQueue') => NoMute(audioQueue) /\ x \notin Mute
<1> DEFINE q == audioQueue
<1>1. q \in Seq(Work)
  OBVIOUS
<1> HIDE DEF q
<1>2. /\ Append(q, x) \in Seq(Work) /\ Len(Append(q, x)) = Len(q) + 1
      /\ Distinct(q) /\ (IsPcm(x) => ~Queued(x.buffer, q)) => Distinct(Append(q, x))
      /\ \A b : Queued(b, Append(q, x)) => Queued(b, q) \/ (IsPcm(x) /\ x.buffer = b)
      /\ \A b : Oldest(b, q) => Oldest(b, Append(q, x))
      /\ \A v : x \in Mute /\ x.on = v => LastMute(Append(q, x), v)
      /\ \A v : x \notin Mute /\ LastMute(q, v) => LastMute(Append(q, x), v)
      /\ NoMute(Append(q, x)) => NoMute(q) /\ x \notin Mute
  BY <1>1, Push
<1> QED
  BY <1>2 DEF q

\* What a work gives back to the pool.
LEMMA RecycleWork ==
  ASSUME TypeOK, NEW x, Recycle(Arrays({x}))
  PROVE  /\ pcmPool' \in SUBSET Buffers /\ Cardinality(pcmPool') <= Capacity
         /\ \A b : b \in pcmPool' => b \in pcmPool \/ (IsPcm(x) /\ x.buffer = b)
<1>1. Arrays({x}) \in SUBSET Buffers
  BY OneArray
<1>2. Arrays({x}) = {} \/ \E b \in Buffers : Arrays({x}) = {b}
  BY OneArray
<1>3. \A b : b \in Arrays({x}) => IsPcm(x) /\ x.buffer = b
  BY OneArray
<1>4. pcmPool \in SUBSET Buffers /\ Cardinality(pcmPool) <= Capacity
  BY DEF TypeOK
<1> QED
  BY <1>1, <1>2, <1>3, <1>4, RecycleOne

\* A candidate that left the queue is forgotten, and no other.
LEMMA ForgetWork ==
  ASSUME TypeOK, NEW x, Forget(x)
  PROVE  /\ candidate' \in [Producers -> Buffers \cup {Nothing}]
         /\ \A p \in Producers :
              candidate'[p] = IF IsPcm(x) /\ x.buffer = candidate[p] THEN Nothing
                              ELSE candidate[p]
<1>1. \A b : b \in Arrays({x}) <=> IsPcm(x) /\ x.buffer = b
  BY OneArray
<1> QED
  BY <1>1 DEF Forget, TypeOK

\* An array that new byte[] may return is nowhere.
LEMMA FreshIsFree ==
  ASSUME NEW b \in Fresh
  PROVE  /\ b \in Buffers /\ b \notin pcmPool
         /\ ~Queued(b, audioQueue) /\ ~WorkHas(b) /\ \A w \in Workers : ~ItemHas(w, b)
  BY DEF Fresh, Held, Arrays, Elements, Queued, WorkHas, ItemHas, Producers, IsPcm

\* A producer's step leaves the worker and the service alone.
LEMMA CallFrame ==
  ASSUME IInv, UNCHANGED <<lifecycle, threads, tracks>>
  PROVE  ItemInv' /\ ConsumerInv' /\ ServiceInv'
  BY DEF IInv, lifecycle, threads, ItemInv, ConsumerInv, ServiceInv, Alive, UsesTracks

\* A step of the worker or the service leaves the calls alone, but a producer may
\* lose its candidate.
LEMMA OthersFrame ==
  ASSUME IInv, UNCHANGED <<muted, at, goal, work>>,
         \A p \in Producers : candidate'[p] \in {candidate[p], Nothing}
  PROVE  ProducerInv'
  BY DEF IInv, ProducerInv

\* The worker that is alive is the only one with a work.
LEMMA OneItem ==
  ASSUME IInv, NEW w \in Workers, Alive(w)
  PROVE  /\ audioThread = w
         /\ \A v \in Workers : v # w => worker[v] = "dead" /\ item[v] = Nothing
  BY DEF IInv, ConsumerInv, ItemInv, Alive

\* The front of the queue leaves it.
LEMMA FrontLeaves ==
  ASSUME IInv, audioQueue # <<>>, audioQueue' = Tail(audioQueue), Forget(Head(audioQueue))
  PROVE  /\ Head(audioQueue) \in Work
         /\ audioQueue' \in Seq(Work) /\ Len(audioQueue') <= Capacity
         /\ Distinct(audioQueue')
         /\ \A b : Queued(b, audioQueue') => Queued(b, audioQueue)
         /\ IsPcm(Head(audioQueue)) =>
              /\ Queued(Head(audioQueue).buffer, audioQueue)
              /\ ~Queued(Head(audioQueue).buffer, audioQueue')
         /\ candidate' \in [Producers -> Buffers \cup {Nothing}]
         /\ \A p \in Producers : candidate'[p] \in {candidate[p], Nothing}
         /\ CandInv'
<1> DEFINE q == audioQueue
<1>1. q \in Seq(Work) /\ q # <<>> /\ Len(q) \in Nat /\ Len(q) <= Capacity
  BY DEF IInv, TypeOK
<1>2. Distinct(q)
  BY DEF IInv, BufferInv
<1>3. \A p \in Producers : candidate[p] # Nothing => Oldest(candidate[p], q)
  BY DEF IInv, CandInv
<1> HIDE DEF q
<1>4. /\ Head(q) \in Work /\ Tail(q) \in Seq(Work) /\ Len(Tail(q)) = Len(q) - 1
      /\ Distinct(Tail(q))
      /\ \A b : Queued(b, Tail(q)) => Queued(b, q)
      /\ IsPcm(Head(q)) =>
           /\ Queued(Head(q).buffer, q)
           /\ ~Queued(Head(q).buffer, Tail(q))
      /\ \A b : Oldest(b, q) /\ ~(IsPcm(Head(q)) /\ Head(q).buffer = b)
           => Oldest(b, Tail(q))
  BY <1>1, <1>2, Pop
<1>5. /\ candidate' \in [Producers -> Buffers \cup {Nothing}]
      /\ \A p \in Producers :
           candidate'[p] = IF IsPcm(Head(q)) /\ Head(q).buffer = candidate[p] THEN Nothing
                           ELSE candidate[p]
  BY ForgetWork DEF IInv, q
<1>6. \A p \in Producers : candidate'[p] # Nothing => Oldest(candidate'[p], Tail(q))
  BY <1>3, <1>4, <1>5
<1>7. Len(Tail(q)) <= Capacity
  BY <1>1, <1>4, SizesAssumption
<1>8. audioQueue' = Tail(q)
  BY DEF q
<1> QED
  BY <1>4, <1>5, <1>6, <1>7, <1>8 DEF q, CandInv

\* What that means for the mutes.
LEMMA FrontMute ==
  ASSUME IInv, audioQueue # <<>>, audioQueue' = Tail(audioQueue)
  PROVE  /\ \A v : LastMute(audioQueue, v) => LastMute(audioQueue', v)
         /\ \A v :
              LastMute(audioQueue, v) /\ NoMute(audioQueue') /\ Head(audioQueue) \in Mute
                => Head(audioQueue).on = v
         /\ NoMute(audioQueue') /\ Head(audioQueue) \notin Mute => NoMute(audioQueue)
<1> DEFINE q == audioQueue
<1>1. q \in Seq(Work) /\ q # <<>>
  BY DEF IInv, TypeOK
<1> HIDE DEF q
<1>2. /\ \A v : LastMute(q, v) => LastMute(Tail(q), v)
      /\ \A v : LastMute(q, v) /\ NoMute(Tail(q)) /\ Head(q) \in Mute => Head(q).on = v
      /\ NoMute(Tail(q)) /\ Head(q) \notin Mute => NoMute(q)
  BY <1>1, Pop
<1> QED
  BY <1>2 DEF q

\* One step of a clear.
LEMMA ClearOneKeeps ==
  ASSUME IInv, ClearOne, UNCHANGED <<work, item>>
  PROVE  /\ audioQueue' \in Seq(Work) /\ Len(audioQueue') <= Capacity
         /\ pcmPool' \in SUBSET Buffers /\ Cardinality(pcmPool') <= Capacity
         /\ candidate' \in [Producers -> Buffers \cup {Nothing}]
         /\ \A p \in Producers : candidate'[p] \in {candidate[p], Nothing}
         /\ CandInv' /\ BufferInv'
<1>1. /\ audioQueue' \in Seq(Work) /\ Len(audioQueue') <= Capacity
      /\ Distinct(audioQueue')
      /\ \A b : Queued(b, audioQueue') => Queued(b, audioQueue)
      /\ IsPcm(Head(audioQueue)) =>
           /\ Queued(Head(audioQueue).buffer, audioQueue)
           /\ ~Queued(Head(audioQueue).buffer, audioQueue')
      /\ candidate' \in [Producers -> Buffers \cup {Nothing}]
      /\ \A p \in Producers : candidate'[p] \in {candidate[p], Nothing}
      /\ CandInv'
  BY FrontLeaves DEF ClearOne
<1>2. /\ pcmPool' \in SUBSET Buffers /\ Cardinality(pcmPool') <= Capacity
      /\ \A b : b \in pcmPool' =>
                  b \in pcmPool \/ (IsPcm(Head(audioQueue)) /\ Head(audioQueue).buffer = b)
  BY RecycleWork DEF ClearOne, IInv
<1>3. BufferInv'
  BY <1>1, <1>2 DEF IInv, BufferInv, WorkHas, ItemHas
<1> QED
  BY <1>1, <1>2, <1>3

\* onAudio() takes an array of the pool, or a new one.
LEMMA OnPcmKeeps ==
  ASSUME IInv, NEW d \in Types, OnPcm(d),
         UNCHANGED <<lifecycle, muted, audioQueue, goal, candidate, threads, tracks,
                     muteLost>>
  PROVE  IInv'
<1> USE DEF IInv, lifecycle, calls, threads, OnPcm, Call, Goto
<1>a. PICK b \in Buffers :
        /\ b \in pcmPool \cup Fresh /\ pcmPool' = pcmPool \ {b}
        /\ at["reader"] = "idle" /\ at' = [at EXCEPT !["reader"] = "measure"]
        /\ work' = [work EXCEPT !["reader"] = [kind |-> "pcm", type |-> d, buffer |-> b]]
  BY DEF Acquire
<1>b. /\ work'["reader"] \in Pcm /\ work'["reader"].buffer = b
      /\ work'["ui"] = work["ui"] /\ work["reader"] = Nothing
  BY <1>a, NewWorks DEF TypeOK, Producers, ProducerInv
<1>c. ~Queued(b, audioQueue) /\ \A w \in Workers : ~ItemHas(w, b)
  BY <1>a, FreshIsFree DEF BufferInv
<1>d. Cardinality(pcmPool') <= Capacity
  BY <1>a, PoolShrinks DEF TypeOK
<1>1. TypeOK'
  BY Kinds, NewWorks, <1>a, <1>d DEF TypeOK, ProducerPcs, WorkerPcs
<1>2. ProducerInv'
  BY Kinds, <1>a, <1>b DEF TypeOK, ProducerInv, Producers, IsPcm
<1>3. ItemInv' /\ ConsumerInv' /\ ServiceInv'
  BY CallFrame
<1>4. BufferInv'
  BY <1>a, <1>b, <1>c DEF TypeOK, BufferInv, WorkHas, ItemHas, IsPcm
<1>5. CandInv'
  BY <1>a DEF TypeOK, CandInv, ProducerInv
<1>6. MuteInv'
  BY Kinds, <1>a DEF TypeOK, MuteInv, Settled, Quiet, Producers
<1> QED
  BY <1>1, <1>2, <1>3, <1>4, <1>5, <1>6

\* onAudio() queues a command.
LEMMA OnCommandKeeps ==
  ASSUME IInv, NEW d \in Types, OnCommand(d),
         UNCHANGED <<lifecycle, muted, audioQueue, goal, candidate, threads, tracks,
                     muteLost>>
  PROVE  IInv'
<1> USE DEF IInv, lifecycle, calls, threads, OnCommand, Call, Goto
<1>a. work'["reader"] \in Command /\ work'["ui"] = work["ui"]
  BY NewWorks DEF TypeOK, Producers
<1>1. TypeOK'
  BY Kinds, NewWorks DEF TypeOK, ProducerPcs, WorkerPcs
<1>2. ProducerInv'
  BY Kinds, <1>a DEF TypeOK, ProducerInv, Producers, IsPcm
<1>3. ItemInv' /\ ConsumerInv' /\ ServiceInv'
  BY CallFrame
<1>4. BufferInv'
  BY <1>a, Kinds DEF TypeOK, BufferInv, WorkHas, ItemHas, IsPcm
<1>5. CandInv'
  BY DEF TypeOK, CandInv, ProducerInv
<1>6. MuteInv'
  BY Kinds DEF TypeOK, MuteInv, Settled, Quiet, Producers
<1> QED
  BY <1>1, <1>2, <1>3, <1>4, <1>5, <1>6

\* setMuted() sets the flag.
LEMMA SetMutedKeeps ==
  ASSUME IInv, NEW v \in BOOLEAN, SetMuted(v)
  PROVE  IInv'
<1> USE DEF IInv, lifecycle, calls, threads, SetMuted, Call, Goto
<1>a. work'["ui"] \in Mute /\ work'["ui"].on = v /\ work'["reader"] = work["reader"]
  BY NewWorks DEF TypeOK, Producers
<1>1. TypeOK'
  BY Kinds, NewWorks DEF TypeOK, ProducerPcs, WorkerPcs
<1>2. ProducerInv'
  BY Kinds, <1>a DEF TypeOK, ProducerInv, Producers, IsPcm
<1>3. ItemInv' /\ ConsumerInv' /\ ServiceInv'
  BY CallFrame
<1>4. BufferInv'
  BY <1>a DEF TypeOK, BufferInv, WorkHas, ItemHas
<1>5. CandInv'
  BY DEF TypeOK, CandInv, ProducerInv
<1>6. MuteInv'
  BY Kinds DEF TypeOK, MuteInv, Settled, Quiet, Producers
<1> QED
  BY <1>1, <1>2, <1>3, <1>4, <1>5, <1>6

\* setMuted() looks whether the player runs.
LEMMA CheckRunningKeeps ==
  ASSUME IInv, CheckRunning,
         UNCHANGED <<lifecycle, muted, threads, tracks>>
  PROVE  IInv'
<1> USE DEF IInv, lifecycle, calls, threads, CheckRunning, Goto, Return, Drop
<1>a. "reader" \in Producers /\ "ui" \in Producers
  BY DEF Producers
<1>1. TypeOK'
  BY Kinds, <1>a DEF TypeOK, ProducerPcs, WorkerPcs
<1>2. ProducerInv'
  BY Kinds, <1>a DEF TypeOK, ProducerInv, Producers, IsPcm
<1>3. ItemInv' /\ ConsumerInv' /\ ServiceInv'
  BY CallFrame
<1>4. BufferInv'
  BY <1>a DEF TypeOK, BufferInv, WorkHas, ItemHas
<1>5. CandInv'
  BY <1>a DEF TypeOK, CandInv, ProducerInv
<1>6. MuteInv'
  BY Kinds, <1>a DEF TypeOK, MuteInv, Settled, Quiet
<1> QED
  BY <1>1, <1>2, <1>3, <1>4, <1>5, <1>6

\* offerPcm() looks at the length of the queue.
LEMMA MeasureKeeps ==
  ASSUME IInv, Measure,
         UNCHANGED <<lifecycle, muted, threads, tracks>>
  PROVE  IInv'
<1> USE DEF IInv, lifecycle, calls, threads, Measure, Goto, Return, Drop
<1>a. "reader" \in Producers /\ "ui" \in Producers
  BY DEF Producers
<1>1. TypeOK'
  BY Kinds, <1>a DEF TypeOK, ProducerPcs, WorkerPcs
<1>2. ProducerInv'
  BY Kinds, <1>a DEF TypeOK, ProducerInv, Producers, IsPcm
<1>3. ItemInv' /\ ConsumerInv' /\ ServiceInv'
  BY CallFrame
<1>4. BufferInv'
  BY <1>a DEF TypeOK, BufferInv, WorkHas, ItemHas
<1>5. CandInv'
  BY <1>a DEF TypeOK, CandInv, ProducerInv
<1>6. MuteInv'
  BY Kinds, <1>a DEF TypeOK, MuteInv, Settled, Quiet
<1> QED
  BY <1>1, <1>2, <1>3, <1>4, <1>5, <1>6

\* offerPcm() trims, or goes on.
LEMMA TrimKeeps ==
  ASSUME IInv, Trim,
         UNCHANGED <<lifecycle, muted, threads, tracks>>
  PROVE  IInv'
<1> USE DEF IInv, lifecycle, calls, threads, Trim, Goto, Return, Drop
<1>a. "reader" \in Producers /\ "ui" \in Producers
  BY DEF Producers
<1>1. TypeOK'
  BY Kinds, <1>a DEF TypeOK, ProducerPcs, WorkerPcs
<1>2. ProducerInv'
  BY Kinds, <1>a DEF TypeOK, ProducerInv, Producers, IsPcm
<1>3. ItemInv' /\ ConsumerInv' /\ ServiceInv'
  BY CallFrame
<1>4. BufferInv'
  BY <1>a DEF TypeOK, BufferInv, WorkHas, ItemHas
<1>5. CandInv'
  BY <1>a DEF TypeOK, CandInv, ProducerInv
<1>6. MuteInv'
  BY Kinds, <1>a DEF TypeOK, MuteInv, Settled, Quiet
<1> QED
  BY <1>1, <1>2, <1>3, <1>4, <1>5, <1>6

\* dropOldestPcm() finds the oldest sound, or none.
LEMMA ScanKeeps ==
  ASSUME IInv, NEW p \in Producers, Scan(p),
         UNCHANGED <<lifecycle, muted, threads, tracks>>
  PROVE  IInv'
<1> USE DEF IInv, lifecycle, calls, threads, Scan, Goto, Return
<1>a. ASSUME NEW i \in SoundAt, \A j \in SoundAt : i <= j
      PROVE  /\ audioQueue[i].buffer \in Buffers
             /\ Oldest(audioQueue[i].buffer, audioQueue)
  <2>1. i \in 1..Len(audioQueue) /\ IsPcm(audioQueue[i])
    BY DEF SoundAt
  <2>2. \A j \in 1..(i - 1) : ~IsPcm(audioQueue[j])
    BY <1>a, <2>1 DEF SoundAt, TypeOK
  <2>3. audioQueue[i].buffer \in Buffers
    BY <2>1, Kinds DEF IsPcm
  <2> QED
    BY <2>1, <2>2, <2>3 DEF Oldest
<1>b. /\ pcmPool' \in SUBSET Buffers /\ Cardinality(pcmPool') <= Capacity
      /\ \A b : b \in pcmPool' => b \in pcmPool
                   \/ (IsPcm(work[p]) /\ work[p].buffer = b /\ work'[p] = Nothing)
  BY RecycleWork DEF TypeOK
<1>1. TypeOK'
  BY Kinds, <1>a, <1>b DEF TypeOK, ProducerPcs, WorkerPcs
<1>2. ProducerInv'
  BY Kinds DEF TypeOK, ProducerInv, Producers, IsPcm
<1>3. ItemInv' /\ ConsumerInv' /\ ServiceInv'
  BY CallFrame
<1>4. BufferInv'
  BY <1>b, Kinds DEF TypeOK, BufferInv, WorkHas, ItemHas, ProducerInv, Producers, IsPcm
<1>5. CandInv'
  BY <1>a DEF TypeOK, CandInv, ProducerInv
<1>6. MuteInv'
  BY Kinds DEF TypeOK, MuteInv, Settled, Quiet, Producers, ProducerInv
<1> QED
  BY <1>1, <1>2, <1>3, <1>4, <1>5, <1>6

\* The sound at i leaves the queue, and its array goes to the pool.
LEMMA SoundLeaves ==
  ASSUME IInv, NEW p \in Producers, NEW i \in SoundAt,
         audioQueue[i].buffer = candidate[p], audioQueue' = Without(i),
         Recycle({candidate[p]}), Forget(audioQueue[i]), UNCHANGED <<work, item>>
  PROVE  /\ audioQueue' \in Seq(Work) /\ Len(audioQueue') <= Capacity
         /\ pcmPool' \in SUBSET Buffers /\ Cardinality(pcmPool') <= Capacity
         /\ candidate' \in [Producers -> Buffers \cup {Nothing}]
         /\ \A r \in Producers : candidate'[r] \in {candidate[r], Nothing}
         /\ candidate'[p] = Nothing
         /\ CandInv' /\ BufferInv'
         /\ \A v : LastMute(audioQueue, v) => LastMute(audioQueue', v)
         /\ NoMute(audioQueue') => NoMute(audioQueue)
<1> DEFINE x == audioQueue[i]
<1>1. audioQueue \in Seq(Work) /\ Len(audioQueue) \in Nat /\ Len(audioQueue) <= Capacity
  BY DEF IInv, TypeOK
<1>2. /\ IsPcm(x)
      /\ audioQueue' \in Seq(Work) /\ Len(audioQueue') = Len(audioQueue) - 1
      /\ Distinct(audioQueue) => Distinct(audioQueue') /\ ~Queued(x.buffer, audioQueue')
      /\ \A b : Queued(b, audioQueue') => Queued(b, audioQueue)
      /\ Queued(x.buffer, audioQueue)
      /\ \A b : Oldest(b, audioQueue) /\ b # x.buffer => Oldest(b, audioQueue')
      /\ \A v : LastMute(audioQueue, v) => LastMute(audioQueue', v)
      /\ NoMute(audioQueue') => NoMute(audioQueue)
  BY <1>1, Taken
<1>3. Arrays({x}) = {candidate[p]}
  BY <1>2, OneArray
<1>4. /\ pcmPool' \in SUBSET Buffers /\ Cardinality(pcmPool') <= Capacity
      /\ \A b : b \in pcmPool' => b \in pcmPool \/ (IsPcm(x) /\ x.buffer = b)
  BY <1>3, RecycleWork DEF IInv
<1>5. /\ candidate' \in [Producers -> Buffers \cup {Nothing}]
      /\ \A r \in Producers :
           candidate'[r] = IF IsPcm(x) /\ x.buffer = candidate[r] THEN Nothing
                           ELSE candidate[r]
  BY ForgetWork DEF IInv
<1> HIDE DEF x
<1>6. x.buffer = candidate[p]
  BY DEF x
<1>7. CandInv'
  BY <1>2, <1>5 DEF IInv, CandInv
<1>8. BufferInv'
  BY <1>2, <1>4 DEF IInv, BufferInv, WorkHas, ItemHas
<1>9. Len(audioQueue') <= Capacity
  BY <1>1, <1>2, SizesAssumption
<1> QED
  BY <1>2, <1>4, <1>5, <1>6, <1>7, <1>8, <1>9

\* The chunk is removed, or it is gone.
LEMMA RemoveKeeps ==
  ASSUME IInv, NEW p \in Producers, Remove(p),
         UNCHANGED <<lifecycle, muted, threads, tracks>>
  PROVE  IInv'
<1> USE DEF IInv, lifecycle, calls, threads, Goto
<1>a. /\ audioQueue' \in Seq(Work) /\ Len(audioQueue') <= Capacity
      /\ pcmPool' \in SUBSET Buffers /\ Cardinality(pcmPool') <= Capacity
      /\ candidate' \in [Producers -> Buffers \cup {Nothing}]
      /\ \A r \in Producers : candidate'[r] \in {candidate[r], Nothing}
      /\ candidate'[p] = Nothing
      /\ CandInv' /\ BufferInv'
      /\ \A v : LastMute(audioQueue, v) => LastMute(audioQueue', v)
      /\ NoMute(audioQueue') => NoMute(audioQueue)
  <2>1. CASE candidate[p] = Nothing /\ UNCHANGED <<audioQueue, pcmPool, candidate>>
    BY <2>1 DEF Remove, TypeOK, CandInv, BufferInv, WorkHas, ItemHas
  <2>2. CASE \E i \in SoundAt :
               /\ audioQueue[i].buffer = candidate[p]
               /\ audioQueue' = Without(i)
               /\ Recycle({candidate[p]})
               /\ Forget(audioQueue[i])
    BY <2>2, SoundLeaves DEF Remove
  <2> QED
    BY <2>1, <2>2 DEF Remove
<1>b. /\ at[p] = "remove" /\ UNCHANGED <<goal, work, muteLost>>
      /\ \E l \in {"trim", "scan", "reoffer"} :
           /\ at' = [at EXCEPT ![p] = l]
           /\ l = "trim" => goal[p] = "trim"
           /\ l = "reoffer" => goal[p] = "room"
  BY DEF Remove, AfterDrop, ProducerInv, Producers
<1>1. TypeOK'
  BY Kinds, <1>a, <1>b DEF TypeOK, ProducerPcs, WorkerPcs
<1>2. ProducerInv'
  BY Kinds, <1>a, <1>b DEF TypeOK, ProducerInv, Producers, IsPcm
<1>3. ItemInv' /\ ConsumerInv' /\ ServiceInv'
  BY CallFrame
<1>4. BufferInv'
  BY <1>a
<1>5. CandInv'
  BY <1>a
<1>6. MuteInv'
  BY Kinds, <1>a, <1>b DEF TypeOK, MuteInv, Settled, Quiet, Producers, ProducerInv
<1> QED
  BY <1>1, <1>2, <1>3, <1>4, <1>5, <1>6

\* The work of a call is queued, and the call returns.
LEMMA QueueKeeps ==
  ASSUME IInv, NEW p \in Producers, at[p] \in {"offer", "reoffer"}, HasRoom,
         audioQueue' = Append(audioQueue, work[p]), Return(p),
         UNCHANGED <<lifecycle, muted, pcmPool, candidate, threads, tracks, muteLost>>
  PROVE  IInv'
<1> USE DEF IInv, lifecycle, calls, threads, Return, Goto
<1>a. work[p] \in Work /\ audioQueue \in Seq(Work)
  BY Kinds DEF TypeOK, ProducerInv, Producers
<1>b. IsPcm(work[p]) => ~Queued(work[p].buffer, audioQueue)
  BY Kinds DEF ProducerInv, Producers, BufferInv, WorkHas, IsPcm
<1>c. /\ audioQueue' \in Seq(Work) /\ Len(audioQueue') = Len(audioQueue) + 1
      /\ Distinct(audioQueue')
      /\ \A b : Queued(b, audioQueue') =>
                  Queued(b, audioQueue) \/ (IsPcm(work[p]) /\ work[p].buffer = b)
      /\ \A b : Oldest(b, audioQueue) => Oldest(b, audioQueue')
      /\ \A v : work[p] \in Mute /\ work[p].on = v => LastMute(audioQueue', v)
      /\ \A v : work[p] \notin Mute /\ LastMute(audioQueue, v) => LastMute(audioQueue', v)
      /\ NoMute(audioQueue') => NoMute(audioQueue) /\ work[p] \notin Mute
  BY <1>a, <1>b, Appended DEF BufferInv
<1>d. Len(audioQueue') <= Capacity
  BY <1>a, <1>c, SizesAssumption DEF HasRoom, TypeOK
<1>e. p = "ui" => work[p] \in Mute /\ work[p].on = muted
  BY DEF ProducerInv
<1>f. p = "reader" => work[p] \notin Mute
  BY Kinds DEF ProducerInv
<1>1. TypeOK'
  BY Kinds, <1>c, <1>d DEF TypeOK, ProducerPcs, WorkerPcs
<1>2. ProducerInv'
  BY Kinds DEF TypeOK, ProducerInv, Producers, IsPcm
<1>3. ItemInv' /\ ConsumerInv' /\ ServiceInv'
  BY CallFrame
<1>4. BufferInv'
  BY <1>c, <1>e, Kinds DEF TypeOK, BufferInv, WorkHas, ItemHas, Producers, IsPcm
<1>5. CandInv'
  BY <1>c DEF TypeOK, CandInv, ProducerInv
<1>6. MuteInv'
  BY Kinds, <1>c, <1>e, <1>f DEF TypeOK, MuteInv, Settled, Quiet, Producers
<1> QED
  BY <1>1, <1>2, <1>3, <1>4, <1>5, <1>6

\* The call returns without room for its work.
LEMMA GiveUpKeeps ==
  ASSUME IInv, NEW p \in Producers, at[p] = "reoffer", Recycle(Arrays({work[p]})),
         muteLost' = (muteLost \/ work[p] \in Mute), Return(p),
         UNCHANGED <<lifecycle, muted, audioQueue, candidate, threads, tracks>>
  PROVE  IInv'
<1> USE DEF IInv, lifecycle, calls, threads, Return, Goto
<1>a. /\ pcmPool' \in SUBSET Buffers /\ Cardinality(pcmPool') <= Capacity
      /\ \A b : b \in pcmPool' => b \in pcmPool \/ (IsPcm(work[p]) /\ work[p].buffer = b)
  BY RecycleWork DEF TypeOK
<1>b. p = "ui" => work[p] \in Mute
  BY DEF ProducerInv
<1>1. TypeOK'
  BY Kinds, <1>a DEF TypeOK, ProducerPcs, WorkerPcs
<1>2. ProducerInv'
  BY Kinds DEF TypeOK, ProducerInv, Producers, IsPcm
<1>3. ItemInv' /\ ConsumerInv' /\ ServiceInv'
  BY CallFrame
<1>4. BufferInv'
  BY <1>a, <1>b, Kinds DEF TypeOK, BufferInv, WorkHas, ItemHas, Producers, IsPcm
<1>5. CandInv'
  BY DEF TypeOK, CandInv, ProducerInv
<1>6. MuteInv'
  BY Kinds, <1>b DEF TypeOK, MuteInv, Settled, Quiet, Producers
<1> QED
  BY <1>1, <1>2, <1>3, <1>4, <1>5, <1>6

\* The first offer finds no room.
LEMMA NoRoomKeeps ==
  ASSUME IInv, NEW p \in Producers, at[p] = "offer",
         \/ IsPcm(work[p]) /\ Drop(p, "room") /\ UNCHANGED work
         \/ ~IsPcm(work[p]) /\ Goto(p, "clear") /\ UNCHANGED <<goal, work>>,
         UNCHANGED <<lifecycle, muted, audioQueue, pcmPool, candidate, threads, tracks,
                     muteLost>>
  PROVE  IInv'
<1> USE DEF IInv, lifecycle, calls, threads, Drop, Goto
<1>1. TypeOK'
  BY Kinds DEF TypeOK, ProducerPcs, WorkerPcs
<1>2. ProducerInv'
  BY Kinds DEF TypeOK, ProducerInv, Producers, IsPcm, Producers
<1>3. ItemInv' /\ ConsumerInv' /\ ServiceInv'
  BY CallFrame
<1>4. BufferInv'
  BY DEF TypeOK, BufferInv, WorkHas, ItemHas
<1>5. CandInv'
  BY DEF TypeOK, CandInv, ProducerInv
<1>6. MuteInv'
  BY Kinds DEF TypeOK, MuteInv, Settled, Quiet, Producers
<1> QED
  BY <1>1, <1>2, <1>3, <1>4, <1>5, <1>6

\* The first offer.
LEMMA OfferKeeps ==
  ASSUME IInv, NEW p \in Producers, Offer(p),
         UNCHANGED <<lifecycle, muted, threads, tracks>>
  PROVE  IInv'
  BY QueueKeeps, NoRoomKeeps DEF Offer

\* The second offer.
LEMMA ReofferKeeps ==
  ASSUME IInv, NEW p \in Producers, Reoffer(p),
         UNCHANGED <<lifecycle, muted, threads, tracks>>
  PROVE  IInv'
  BY QueueKeeps, GiveUpKeeps DEF Reoffer

\* A control clears the queue, one work at a time.
LEMMA ClearKeeps ==
  ASSUME IInv, NEW p \in Producers, Clear(p),
         UNCHANGED <<lifecycle, muted, threads, tracks>>
  PROVE  IInv'
<1> USE DEF IInv, lifecycle, calls, threads, Clear
<1>a. /\ audioQueue' \in Seq(Work) /\ Len(audioQueue') <= Capacity
      /\ pcmPool' \in SUBSET Buffers /\ Cardinality(pcmPool') <= Capacity
      /\ candidate' \in [Producers -> Buffers \cup {Nothing}]
      /\ \A r \in Producers : candidate'[r] \in {candidate[r], Nothing}
      /\ CandInv' /\ BufferInv'
  BY ClearOneKeeps
<1>b. /\ \A v : LastMute(audioQueue, v) => LastMute(audioQueue', v)
      /\ NoMute(audioQueue') /\ Head(audioQueue) \notin Mute => NoMute(audioQueue)
  BY FrontMute DEF ClearOne
<1>1. TypeOK'
  BY Kinds, <1>a DEF TypeOK, ProducerPcs, WorkerPcs
<1>2. ProducerInv'
  BY Kinds, <1>a DEF TypeOK, ProducerInv, Producers, IsPcm
<1>3. ItemInv' /\ ConsumerInv' /\ ServiceInv'
  BY CallFrame
<1>4. BufferInv'
  BY <1>a
<1>5. CandInv'
  BY <1>a
<1>6. MuteInv'
  BY Kinds, <1>b DEF TypeOK, MuteInv, Settled, Quiet
<1> QED
  BY <1>1, <1>2, <1>3, <1>4, <1>5, <1>6

\* The queue is empty.
LEMMA ClearedKeeps ==
  ASSUME IInv, NEW p \in Producers, Cleared(p),
         UNCHANGED <<lifecycle, muted, threads, tracks>>
  PROVE  IInv'
<1> USE DEF IInv, lifecycle, calls, threads, Cleared, Goto
<1>1. TypeOK'
  BY Kinds DEF TypeOK, ProducerPcs, WorkerPcs
<1>2. ProducerInv'
  BY Kinds DEF TypeOK, ProducerInv, Producers, IsPcm
<1>3. ItemInv' /\ ConsumerInv' /\ ServiceInv'
  BY CallFrame
<1>4. BufferInv'
  BY DEF TypeOK, BufferInv, WorkHas, ItemHas
<1>5. CandInv'
  BY DEF TypeOK, CandInv, ProducerInv
<1>6. MuteInv'
  BY Kinds DEF TypeOK, MuteInv, Settled, Quiet, Producers
<1> QED
  BY <1>1, <1>2, <1>3, <1>4, <1>5, <1>6

\* A worker is done with its work.
LEMMA WorkDone ==
  ASSUME IInv, NEW w \in Workers, NEW l \in {"loop", "release"}, worker[w] # "dead",
         Done(w, l), UNCHANGED <<audioQueue, work>>
  PROVE  /\ pcmPool' \in SUBSET Buffers /\ Cardinality(pcmPool') <= Capacity
         /\ item' \in [Workers -> Work \cup {Nothing}] /\ item'[w] = Nothing
         /\ worker' \in [Workers -> WorkerPcs] /\ worker'[w] = l
         /\ \A v \in Workers : v # w => item'[v] = item[v] /\ worker'[v] = worker[v]
         /\ ItemInv' /\ BufferInv'
<1>1. /\ pcmPool' \in SUBSET Buffers /\ Cardinality(pcmPool') <= Capacity
      /\ \A b : b \in pcmPool' => b \in pcmPool \/ (IsPcm(item[w]) /\ item[w].buffer = b)
  BY RecycleWork DEF Done, IInv
<1>2. /\ item' \in [Workers -> Work \cup {Nothing}] /\ item'[w] = Nothing
      /\ worker' \in [Workers -> WorkerPcs] /\ worker'[w] = l
      /\ \A v \in Workers : v # w => item'[v] = item[v] /\ worker'[v] = worker[v]
  BY DEF Done, WorkerAt, IInv, TypeOK, WorkerPcs
<1>3. \A v \in Workers : item'[v] = Nothing
  BY <1>2, OneItem DEF Alive
<1>4. ItemInv'
  BY <1>2, OneItem DEF IInv, ItemInv, Alive
<1>5. BufferInv'
  BY <1>1, <1>3, Kinds DEF IInv, BufferInv, WorkHas, ItemHas, IsPcm
<1> QED
  BY <1>1, <1>2, <1>4, <1>5

\* The loop looks at running.
LEMMA LoopKeeps ==
  ASSUME IInv, NEW w \in Workers, Loop(w),
         UNCHANGED <<service, muted, at, goal, work, muteLost>>
  PROVE  IInv'
<1> USE DEF IInv, lifecycle, calls, threads, Loop, WorkerAt
<1>1. TypeOK'
  BY Kinds DEF TypeOK, ProducerPcs, WorkerPcs
<1>2. ProducerInv'
  BY OthersFrame
<1>3. ItemInv'
  BY Kinds DEF TypeOK, ItemInv
<1>4. ConsumerInv'
  BY DEF TypeOK, ConsumerInv, UsesTracks, Alive, TypeOK
<1>5. ServiceInv'
  BY DEF TypeOK, ServiceInv, Alive
<1>6. BufferInv'
  BY DEF TypeOK, BufferInv, WorkHas, ItemHas
<1>7. CandInv'
  BY DEF TypeOK, CandInv, ProducerInv
<1>8. MuteInv'
  BY Kinds DEF TypeOK, MuteInv, Settled, Quiet, ItemInv
<1> QED
  BY <1>1, <1>2, <1>3, <1>4, <1>5, <1>6, <1>7, <1>8

\* The worker releases the tracks.
LEMMA ReleaseTrackKeeps ==
  ASSUME IInv, NEW w \in Workers, ReleaseTrack(w),
         UNCHANGED <<service, muted, at, goal, work, muteLost>>
  PROVE  IInv'
<1> USE DEF IInv, lifecycle, calls, threads, ReleaseTrack, WorkerAt
<1>1. TypeOK'
  BY Kinds DEF TypeOK, ProducerPcs, WorkerPcs
<1>2. ProducerInv'
  BY OthersFrame
<1>3. ItemInv'
  BY Kinds DEF TypeOK, ItemInv
<1>4. ConsumerInv'
  BY DEF TypeOK, ConsumerInv, UsesTracks, Alive, TypeOK
<1>5. ServiceInv'
  BY DEF TypeOK, ServiceInv, Alive
<1>6. BufferInv'
  BY DEF TypeOK, BufferInv, WorkHas, ItemHas
<1>7. CandInv'
  BY DEF TypeOK, CandInv, ProducerInv
<1>8. MuteInv'
  BY Kinds DEF TypeOK, MuteInv, Settled, Quiet, ItemInv
<1> QED
  BY <1>1, <1>2, <1>3, <1>4, <1>5, <1>6, <1>7, <1>8

\* The worker ends.
LEMMA ExitKeeps ==
  ASSUME IInv, NEW w \in Workers, Exit(w),
         UNCHANGED <<service, muted, at, goal, work, muteLost>>
  PROVE  IInv'
<1> USE DEF IInv, lifecycle, calls, threads, Exit, WorkerAt
<1>a. running' = FALSE
  BY OneItem DEF Alive
<1>1. TypeOK'
  BY Kinds DEF TypeOK, ProducerPcs, WorkerPcs
<1>2. ProducerInv'
  BY OthersFrame
<1>3. ItemInv'
  BY Kinds DEF TypeOK, ItemInv
<1>4. ConsumerInv'
  BY DEF TypeOK, ConsumerInv, UsesTracks, Alive
<1>5. ServiceInv'
  BY DEF TypeOK, ServiceInv, Alive
<1>6. BufferInv'
  BY DEF TypeOK, BufferInv, WorkHas, ItemHas
<1>7. CandInv'
  BY DEF TypeOK, CandInv, ProducerInv
<1>8. MuteInv'
  BY <1>a DEF MuteInv, Settled
<1> QED
  BY <1>1, <1>2, <1>3, <1>4, <1>5, <1>6, <1>7, <1>8

\* The worker takes the front of the queue, or nothing.
LEMMA PollKeeps ==
  ASSUME IInv, NEW w \in Workers, Poll(w),
         UNCHANGED <<service, muted, at, goal, work, muteLost>>
  PROVE  IInv'
<1> USE DEF IInv, lifecycle, calls, threads, Poll, WorkerAt
<1>a. worker[w] = "poll" /\ item[w] = Nothing /\ UNCHANGED <<pcmPool, tracks>>
  BY DEF ItemInv
<1>b. \A v \in Workers : v # w => worker[v] = "dead" /\ item[v] = Nothing
  BY <1>a, OneItem DEF Alive
<1>c. CASE UNCHANGED <<audioQueue, candidate, item>> /\ WorkerAt(w, "loop")
  <2>1. TypeOK'
    BY <1>a, <1>c DEF TypeOK, WorkerPcs
  <2>2. ProducerInv'
    BY <1>c, OthersFrame
  <2>3. ItemInv' /\ ConsumerInv' /\ ServiceInv'
    BY <1>a, <1>c DEF TypeOK, ItemInv, ConsumerInv, ServiceInv, Alive, UsesTracks
  <2>4. BufferInv' /\ CandInv'
    BY <1>a, <1>c DEF BufferInv, CandInv, WorkHas, ItemHas
  <2>5. MuteInv'
    BY <1>a, <1>c DEF TypeOK, MuteInv, Settled, Quiet
  <2> QED
    BY <2>1, <2>2, <2>3, <2>4, <2>5
<1>d. CASE /\ audioQueue # <<>>
           /\ item' = [item EXCEPT ![w] = Head(audioQueue)]
           /\ audioQueue' = Tail(audioQueue)
           /\ Forget(Head(audioQueue))
           /\ WorkerAt(w, Head(audioQueue).kind)
  <2> DEFINE x == Head(audioQueue)
  <2>1. /\ x \in Work
        /\ audioQueue' \in Seq(Work) /\ Len(audioQueue') <= Capacity
        /\ Distinct(audioQueue')
        /\ \A b : Queued(b, audioQueue') => Queued(b, audioQueue)
        /\ IsPcm(x) => Queued(x.buffer, audioQueue) /\ ~Queued(x.buffer, audioQueue')
        /\ candidate' \in [Producers -> Buffers \cup {Nothing}]
        /\ \A p \in Producers : candidate'[p] \in {candidate[p], Nothing}
        /\ CandInv'
    BY <1>d, FrontLeaves
  <2>2. /\ \A v : LastMute(audioQueue, v) => LastMute(audioQueue', v)
        /\ \A v : LastMute(audioQueue, v) /\ NoMute(audioQueue') /\ x \in Mute => x.on = v
        /\ NoMute(audioQueue') /\ x \notin Mute => NoMute(audioQueue)
    BY <1>d, FrontMute
  <2>3. item' = [item EXCEPT ![w] = x] /\ worker' = [worker EXCEPT ![w] = x.kind]
    BY <1>d DEF WorkerAt
  <2> HIDE DEF x
  <2>4. x.kind \in {"pcm", "command", "mute"}
    BY <2>1, Kinds
  <2>5. TypeOK'
    BY <1>a, <2>1, <2>3, <2>4 DEF TypeOK, WorkerPcs
  <2>6. ProducerInv'
    BY <2>1, OthersFrame
  <2>7. ItemInv'
    BY <1>b, <2>1, <2>3, <2>4, Kinds DEF TypeOK, ItemInv
  <2>8. ConsumerInv' /\ ServiceInv'
    BY <1>a, <2>3, <2>4 DEF TypeOK, ConsumerInv, ServiceInv, Alive, UsesTracks
  <2>9. BufferInv'
    BY <1>a, <1>b, <2>1, <2>3, Kinds DEF TypeOK, BufferInv, WorkHas, ItemHas, IsPcm
  <2>10. MuteInv'
    BY <1>a, <1>b, <2>2, <2>3, <2>4, Kinds DEF TypeOK, MuteInv, Settled, Quiet
  <2> QED
    BY <2>1, <2>5, <2>6, <2>7, <2>8, <2>9, <2>10
<1>e. \/ UNCHANGED <<audioQueue, candidate, item>> /\ WorkerAt(w, "loop")
      \/ /\ audioQueue # <<>>
         /\ item' = [item EXCEPT ![w] = Head(audioQueue)]
         /\ audioQueue' = Tail(audioQueue)
         /\ Forget(Head(audioQueue))
         /\ WorkerAt(w, Head(audioQueue).kind)
  OBVIOUS
<1> QED
  BY <1>c, <1>d, <1>e

\* The chunk is written.
LEMMA WriteKeeps ==
  ASSUME IInv, NEW w \in Workers, Write(w),
         UNCHANGED <<service, muted, at, goal, work, muteLost>>
  PROVE  IInv'
<1> USE DEF IInv, lifecycle, calls, threads, Write
<1>a. /\ pcmPool' \in SUBSET Buffers /\ Cardinality(pcmPool') <= Capacity
      /\ item' \in [Workers -> Work \cup {Nothing}] /\ item'[w] = Nothing
      /\ worker' \in [Workers -> WorkerPcs] /\ worker'[w] = "loop"
      /\ \A v \in Workers : v # w => item'[v] = item[v] /\ worker'[v] = worker[v]
      /\ ItemInv' /\ BufferInv'
  BY WorkDone
<1>b. item[w] \notin Mute
  BY Kinds DEF ItemInv
<1>c. \A v \in Workers : item'[v] \in Mute \/ item[v] \in Mute => item'[v] = item[v]
  BY <1>a, <1>b, Kinds
<1>1. TypeOK'
  BY Kinds, <1>a DEF TypeOK, ProducerPcs, WorkerPcs
<1>2. ProducerInv'
  BY OthersFrame
<1>3. ItemInv'
  BY <1>a
<1>4. ConsumerInv'
  BY <1>a DEF TypeOK, ConsumerInv, UsesTracks, Alive
<1>5. ServiceInv'
  BY <1>a DEF TypeOK, ServiceInv, Alive
<1>6. BufferInv'
  BY <1>a
<1>7. CandInv'
  BY DEF TypeOK, CandInv, ProducerInv
<1>8. MuteInv'
  BY Kinds, <1>a, <1>b, <1>c DEF TypeOK, MuteInv, Settled, Quiet
<1> QED
  BY <1>1, <1>2, <1>3, <1>4, <1>5, <1>6, <1>7, <1>8

\* The worker dies of an exception.
LEMMA DiesKeeps ==
  ASSUME IInv, NEW w \in Workers, Dies(w),
         UNCHANGED <<service, muted, at, goal, work, muteLost>>
  PROVE  IInv'
<1> USE DEF IInv, lifecycle, calls, threads, Dies
<1>a. /\ pcmPool' \in SUBSET Buffers /\ Cardinality(pcmPool') <= Capacity
      /\ item' \in [Workers -> Work \cup {Nothing}] /\ item'[w] = Nothing
      /\ worker' \in [Workers -> WorkerPcs] /\ worker'[w] = "release"
      /\ \A v \in Workers : v # w => item'[v] = item[v] /\ worker'[v] = worker[v]
      /\ ItemInv' /\ BufferInv'
  BY WorkDone
<1>b. item[w] \notin Mute
  BY Kinds DEF ItemInv
<1>1. TypeOK'
  BY Kinds, <1>a DEF TypeOK, ProducerPcs, WorkerPcs
<1>2. ProducerInv'
  BY OthersFrame
<1>3. ItemInv'
  BY <1>a
<1>4. ConsumerInv'
  BY <1>a DEF TypeOK, ConsumerInv, UsesTracks, Alive
<1>5. ServiceInv'
  BY <1>a DEF TypeOK, ServiceInv, Alive
<1>6. BufferInv'
  BY <1>a
<1>7. CandInv'
  BY DEF TypeOK, CandInv, ProducerInv
<1>8. MuteInv'
  BY Kinds, <1>a, <1>b DEF TypeOK, MuteInv, Settled, Quiet, ItemInv
<1> QED
  BY <1>1, <1>2, <1>3, <1>4, <1>5, <1>6, <1>7, <1>8

\* A command is applied.
LEMMA HandleCommandKeeps ==
  ASSUME IInv, NEW w \in Workers, HandleCommand(w),
         UNCHANGED <<service, muted, at, goal, work, muteLost>>
  PROVE  IInv'
<1> USE DEF IInv, lifecycle, calls, threads, HandleCommand
<1>a. /\ pcmPool' \in SUBSET Buffers /\ Cardinality(pcmPool') <= Capacity
      /\ item' \in [Workers -> Work \cup {Nothing}] /\ item'[w] = Nothing
      /\ worker' \in [Workers -> WorkerPcs] /\ worker'[w] = "loop"
      /\ \A v \in Workers : v # w => item'[v] = item[v] /\ worker'[v] = worker[v]
      /\ ItemInv' /\ BufferInv'
  BY WorkDone
<1>b. item[w] \notin Mute
  BY Kinds DEF ItemInv
<1>1. TypeOK'
  BY Kinds, <1>a DEF TypeOK, ProducerPcs, WorkerPcs
<1>2. ProducerInv'
  BY OthersFrame
<1>3. ItemInv'
  BY <1>a
<1>4. ConsumerInv'
  BY <1>a DEF TypeOK, ConsumerInv, UsesTracks, Alive
<1>5. ServiceInv'
  BY <1>a DEF TypeOK, ServiceInv, Alive
<1>6. BufferInv'
  BY <1>a
<1>7. CandInv'
  BY DEF TypeOK, CandInv, ProducerInv
<1>8. MuteInv'
  BY Kinds, <1>a, <1>b DEF TypeOK, MuteInv, Settled, Quiet, ItemInv
<1> QED
  BY <1>1, <1>2, <1>3, <1>4, <1>5, <1>6, <1>7, <1>8

\* A mute is applied.
LEMMA ApplyMutedKeeps ==
  ASSUME IInv, NEW w \in Workers, ApplyMuted(w),
         UNCHANGED <<service, muted, at, goal, work, muteLost>>
  PROVE  IInv'
<1> USE DEF IInv, lifecycle, calls, threads, ApplyMuted
<1>a. /\ pcmPool' \in SUBSET Buffers /\ Cardinality(pcmPool') <= Capacity
      /\ item' \in [Workers -> Work \cup {Nothing}] /\ item'[w] = Nothing
      /\ worker' \in [Workers -> WorkerPcs] /\ worker'[w] = "loop"
      /\ \A v \in Workers : v # w => item'[v] = item[v] /\ worker'[v] = worker[v]
      /\ ItemInv' /\ BufferInv'
  BY WorkDone
<1>b. item[w] \in Mute /\ item[w].on \in BOOLEAN
  BY Kinds DEF ItemInv
<1>c. \A v \in Workers : v # w => worker[v] = "dead"
  BY OneItem DEF Alive
<1>1. TypeOK'
  BY Kinds, <1>a DEF TypeOK, ProducerPcs, WorkerPcs
<1>2. ProducerInv'
  BY OthersFrame
<1>3. ItemInv'
  BY <1>a
<1>4. ConsumerInv'
  BY <1>a DEF TypeOK, ConsumerInv, UsesTracks, Alive
<1>5. ServiceInv'
  BY <1>a DEF TypeOK, ServiceInv, Alive
<1>6. BufferInv'
  BY <1>a
<1>7. CandInv'
  BY DEF TypeOK, CandInv, ProducerInv
<1>8. MuteInv'
  BY Kinds, <1>a, <1>b, <1>c DEF TypeOK, MuteInv, Settled, Quiet
<1> QED
  BY <1>1, <1>2, <1>3, <1>4, <1>5, <1>6, <1>7, <1>8

\* writePcm() writes nothing while muted.
LEMMA WritePcmKeeps ==
  ASSUME IInv, NEW w \in Workers, WritePcm(w),
         UNCHANGED <<service, muted, at, goal, work, muteLost>>
  PROVE  IInv'
<1> USE DEF IInv, lifecycle, calls, threads, WritePcm
<1>a. /\ pcmPool' \in SUBSET Buffers /\ Cardinality(pcmPool') <= Capacity
      /\ item' \in [Workers -> Work \cup {Nothing}] /\ item'[w] \in {item[w], Nothing}
      /\ worker' \in [Workers -> WorkerPcs] /\ worker'[w] \in {"loop", "ensure"}
      /\ worker'[w] = "ensure" => item'[w] = item[w]
      /\ \A v \in Workers : v # w => item'[v] = item[v] /\ worker'[v] = worker[v]
      /\ ItemInv' /\ BufferInv'
  <2>1. CASE Done(w, "loop")
    BY <2>1, WorkDone
  <2>2. CASE WorkerAt(w, "ensure") /\ UNCHANGED <<pcmPool, item>>
    BY <2>2, Kinds DEF WorkerAt, TypeOK, WorkerPcs, ItemInv, BufferInv, WorkHas, ItemHas
  <2> QED
    BY <2>1, <2>2
<1>b. item[w] \notin Mute
  BY Kinds DEF ItemInv
<1>c. worker'[w] = "ensure" => ~muted
  BY DEF Done, WorkerAt, TypeOK
<1>d. \A v \in Workers : item'[v] \in Mute \/ item[v] \in Mute => item'[v] = item[v]
  BY <1>a, <1>b, Kinds
<1>1. TypeOK'
  BY Kinds, <1>a DEF TypeOK, ProducerPcs, WorkerPcs
<1>2. ProducerInv'
  BY OthersFrame
<1>3. ItemInv'
  BY <1>a
<1>4. ConsumerInv'
  BY <1>a DEF TypeOK, ConsumerInv, UsesTracks, Alive
<1>5. ServiceInv'
  BY <1>a DEF TypeOK, ServiceInv, Alive
<1>6. BufferInv'
  BY <1>a
<1>7. CandInv'
  BY DEF TypeOK, CandInv, ProducerInv
<1>8. MuteInv'
  BY Kinds, <1>a, <1>b, <1>c, <1>d DEF TypeOK, MuteInv, Settled, Quiet
<1> QED
  BY <1>1, <1>2, <1>3, <1>4, <1>5, <1>6, <1>7, <1>8

\* ensureTrack() makes the track play, or fails.
LEMMA EnsureTrackKeeps ==
  ASSUME IInv, NEW w \in Workers, EnsureTrack(w),
         UNCHANGED <<service, muted, at, goal, work, muteLost>>
  PROVE  IInv'
<1> USE DEF IInv, lifecycle, calls, threads, EnsureTrack
<1>a. /\ pcmPool' \in SUBSET Buffers /\ Cardinality(pcmPool') <= Capacity
      /\ item' \in [Workers -> Work \cup {Nothing}] /\ item'[w] \in {item[w], Nothing}
      /\ worker' \in [Workers -> WorkerPcs] /\ worker'[w] \in {"loop", "write"}
      /\ worker'[w] = "write" => item'[w] = item[w]
      /\ \A v \in Workers : v # w => item'[v] = item[v] /\ worker'[v] = worker[v]
      /\ ItemInv' /\ BufferInv'
  <2>1. CASE Done(w, "loop")
    BY <2>1, WorkDone
  <2>2. CASE WorkerAt(w, "write") /\ UNCHANGED <<pcmPool, item>>
    BY <2>2, Kinds DEF WorkerAt, TypeOK, WorkerPcs, ItemInv, BufferInv, WorkHas, ItemHas
  <2> QED
    BY <2>1, <2>2
<1>b. item[w] \notin Mute
  BY Kinds DEF ItemInv
<1>c. tracks' \in [Types -> {"none", "paused", "playing"}]
  BY DEF TypeOK
<1>d. worker'[w] = "loop" => UNCHANGED tracks
  BY DEF WorkerAt, TypeOK
<1>1. TypeOK'
  BY Kinds, <1>a, <1>c DEF TypeOK, ProducerPcs, WorkerPcs
<1>2. ProducerInv'
  BY OthersFrame
<1>3. ItemInv'
  BY <1>a
<1>4. ConsumerInv'
  BY <1>a DEF TypeOK, ConsumerInv, UsesTracks, Alive
<1>5. ServiceInv'
  BY <1>a DEF TypeOK, ServiceInv, Alive
<1>6. BufferInv'
  BY <1>a
<1>7. CandInv'
  BY DEF TypeOK, CandInv, ProducerInv
<1>8. MuteInv'
  BY Kinds, <1>a, <1>b, <1>d DEF TypeOK, MuteInv, Settled, Quiet, ItemInv
<1> QED
  BY <1>1, <1>2, <1>3, <1>4, <1>5, <1>6, <1>7, <1>8

\* start() looks for the worker before.
LEMMA StartKeeps ==
  ASSUME IInv, Start,
         UNCHANGED <<muted, at, goal, work, item, tracks, muteLost>>
  PROVE  IInv'
<1> USE DEF IInv, lifecycle, calls, threads, Start, Lingers, Alive
<1>1. TypeOK'
  BY Kinds DEF TypeOK, ProducerPcs, WorkerPcs
<1>2. ProducerInv'
  BY OthersFrame
<1>3. ItemInv'
  BY Kinds DEF TypeOK, ItemInv
<1>4. ConsumerInv'
  BY DEF TypeOK, ConsumerInv, UsesTracks, Alive
<1>5. ServiceInv'
  BY Kinds DEF TypeOK, ServiceInv, Alive, ConsumerInv
<1>6. BufferInv'
  BY DEF TypeOK, BufferInv, WorkHas, ItemHas
<1>7. CandInv'
  BY DEF TypeOK, CandInv, ProducerInv
<1>8. MuteInv'
  BY Kinds DEF TypeOK, MuteInv, Settled, Quiet
<1> QED
  BY <1>1, <1>2, <1>3, <1>4, <1>5, <1>6, <1>7, <1>8

\* start() has waited for the worker before.
LEMMA WaitedKeeps ==
  ASSUME IInv, Waited,
         UNCHANGED <<muted, at, goal, work, item, tracks, muteLost>>
  PROVE  IInv'
<1> USE DEF IInv, lifecycle, calls, threads, Waited, Lingers, Alive
<1>1. TypeOK'
  BY Kinds DEF TypeOK, ProducerPcs, WorkerPcs
<1>2. ProducerInv'
  BY OthersFrame
<1>3. ItemInv'
  BY Kinds DEF TypeOK, ItemInv
<1>4. ConsumerInv'
  BY DEF TypeOK, ConsumerInv, UsesTracks, Alive
<1>5. ServiceInv'
  BY Kinds DEF TypeOK, ServiceInv, Alive, ConsumerInv
<1>6. BufferInv'
  BY DEF TypeOK, BufferInv, WorkHas, ItemHas
<1>7. CandInv'
  BY DEF TypeOK, CandInv, ProducerInv
<1>8. MuteInv'
  BY Kinds DEF TypeOK, MuteInv, Settled, Quiet
<1> QED
  BY <1>1, <1>2, <1>3, <1>4, <1>5, <1>6, <1>7, <1>8

\* start() makes a worker.
LEMMA BeginKeeps ==
  ASSUME IInv, Begin,
         UNCHANGED <<muted, at, goal, work, item, tracks, muteLost>>
  PROVE  IInv'
<1> USE DEF IInv, lifecycle, calls, threads, Begin, WorkerAt
<1>a. /\ \A v \in Workers : worker[v] = "dead" /\ item[v] = Nothing
      /\ \A d \in Types : tracks[d] = "none"
  BY DEF ServiceInv, ConsumerInv, ItemInv, Alive, UsesTracks
<1>b. PICK w \in Workers : audioThread' = w /\ worker' = [worker EXCEPT ![w] = "loop"]
  BY DEF Begin
<1>c. \A v : LastMute(<<>>, v)
  BY DEF LastMute
<1>1. TypeOK'
  BY Kinds, <1>b DEF TypeOK, ProducerPcs, WorkerPcs
<1>2. ProducerInv'
  BY OthersFrame
<1>3. ItemInv'
  BY Kinds, <1>a, <1>b DEF TypeOK, ItemInv
<1>4. ConsumerInv'
  BY <1>a, <1>b DEF TypeOK, ConsumerInv, UsesTracks, Alive
<1>5. ServiceInv'
  BY DEF TypeOK, ServiceInv, Alive
<1>6. BufferInv'
  BY DEF TypeOK, BufferInv, WorkHas, ItemHas
<1>7. CandInv'
  BY DEF TypeOK, CandInv, ProducerInv
<1>8. MuteInv'
  BY Kinds, <1>a, <1>b, <1>c DEF TypeOK, MuteInv, Settled, Quiet
<1> QED
  BY <1>1, <1>2, <1>3, <1>4, <1>5, <1>6, <1>7, <1>8

\* stop() clears running.
LEMMA StopKeeps ==
  ASSUME IInv, Stop,
         UNCHANGED <<muted, at, goal, work, item, tracks, muteLost>>
  PROVE  IInv'
<1> USE DEF IInv, lifecycle, calls, threads, Stop
<1>1. TypeOK'
  BY Kinds DEF TypeOK, ProducerPcs, WorkerPcs
<1>2. ProducerInv'
  BY OthersFrame
<1>3. ItemInv'
  BY Kinds DEF TypeOK, ItemInv
<1>4. ConsumerInv'
  BY DEF TypeOK, ConsumerInv, UsesTracks, Alive
<1>5. ServiceInv'
  BY DEF TypeOK, ServiceInv, Alive
<1>6. BufferInv'
  BY DEF TypeOK, BufferInv, WorkHas, ItemHas
<1>7. CandInv'
  BY DEF TypeOK, CandInv, ProducerInv
<1>8. MuteInv'
  BY Kinds DEF TypeOK, MuteInv, Settled, Quiet
<1> QED
  BY <1>1, <1>2, <1>3, <1>4, <1>5, <1>6, <1>7, <1>8

\* start() or stop() clears the queue, one work at a time.
LEMMA ServiceClearsKeeps ==
  ASSUME IInv, ServiceClears,
         UNCHANGED <<muted, at, goal, work, item, tracks, muteLost>>
  PROVE  IInv'
<1> USE DEF IInv, lifecycle, calls, threads, ServiceClears
<1>a. /\ audioQueue' \in Seq(Work) /\ Len(audioQueue') <= Capacity
      /\ pcmPool' \in SUBSET Buffers /\ Cardinality(pcmPool') <= Capacity
      /\ candidate' \in [Producers -> Buffers \cup {Nothing}]
      /\ \A r \in Producers : candidate'[r] \in {candidate[r], Nothing}
      /\ CandInv' /\ BufferInv'
  BY ClearOneKeeps
<1>1. TypeOK'
  BY Kinds, <1>a DEF TypeOK, ProducerPcs, WorkerPcs
<1>2. ProducerInv'
  BY <1>a, OthersFrame
<1>3. ItemInv'
  BY Kinds DEF TypeOK, ItemInv
<1>4. ConsumerInv'
  BY DEF TypeOK, ConsumerInv, UsesTracks, Alive
<1>5. ServiceInv'
  BY DEF TypeOK, ServiceInv, Alive
<1>6. BufferInv'
  BY <1>a
<1>7. CandInv'
  BY <1>a
<1>8. MuteInv'
  BY Kinds DEF TypeOK, MuteInv, Settled, Quiet, ServiceInv
<1> QED
  BY <1>1, <1>2, <1>3, <1>4, <1>5, <1>6, <1>7, <1>8

\* stop() interrupts the worker.
LEMMA InterruptKeeps ==
  ASSUME IInv, Interrupt,
         UNCHANGED <<muted, at, goal, work, item, tracks, muteLost>>
  PROVE  IInv'
<1> USE DEF IInv, lifecycle, calls, threads, Interrupt
<1>1. TypeOK'
  BY Kinds DEF TypeOK, ProducerPcs, WorkerPcs
<1>2. ProducerInv'
  BY OthersFrame
<1>3. ItemInv'
  BY Kinds DEF TypeOK, ItemInv
<1>4. ConsumerInv'
  BY DEF TypeOK, ConsumerInv, UsesTracks, Alive
<1>5. ServiceInv'
  BY DEF TypeOK, ServiceInv, Alive
<1>6. BufferInv'
  BY DEF TypeOK, BufferInv, WorkHas, ItemHas
<1>7. CandInv'
  BY DEF TypeOK, CandInv, ProducerInv
<1>8. MuteInv'
  BY Kinds DEF TypeOK, MuteInv, Settled, Quiet
<1> QED
  BY <1>1, <1>2, <1>3, <1>4, <1>5, <1>6, <1>7, <1>8

\* The join of stop() is over.
LEMMA JoinedKeeps ==
  ASSUME IInv, Joined,
         UNCHANGED <<muted, at, goal, work, item, tracks, muteLost>>
  PROVE  IInv'
<1> USE DEF IInv, lifecycle, calls, threads, Joined, Lingers, Alive
<1>1. TypeOK'
  BY Kinds DEF TypeOK, ProducerPcs, WorkerPcs
<1>2. ProducerInv'
  BY OthersFrame
<1>3. ItemInv'
  BY Kinds DEF TypeOK, ItemInv
<1>4. ConsumerInv'
  BY DEF TypeOK, ConsumerInv, UsesTracks, Alive
<1>5. ServiceInv'
  BY DEF TypeOK, ServiceInv, Alive
<1>6. BufferInv'
  BY DEF TypeOK, BufferInv, WorkHas, ItemHas
<1>7. CandInv'
  BY DEF TypeOK, CandInv, ProducerInv
<1>8. MuteInv'
  BY Kinds DEF TypeOK, MuteInv, Settled, Quiet
<1> QED
  BY <1>1, <1>2, <1>3, <1>4, <1>5, <1>6, <1>7, <1>8

(***************************************************************************)
(* The invariant.                                                          *)
(***************************************************************************)

\* At first nothing runs and nothing is queued.
LEMMA InitInv == Init => IInv
<1> SUFFICES ASSUME Init PROVE IInv
  OBVIOUS
<1>1. Cardinality({}) = 0
  BY FS_EmptySet
<1>2. TypeOK
  <2>1. audioQueue \in Seq(Work) /\ Len(audioQueue) = 0
    BY DEF Init
  <2>2. Capacity \in Nat
    BY SizesAssumption
  <2>3. Len(audioQueue) <= Capacity /\ Cardinality(pcmPool) <= Capacity
    BY <1>1, <2>1, <2>2 DEF Init
  <2> QED
    BY <2>1, <2>3 DEF Init, TypeOK, ProducerPcs, WorkerPcs
<1>3. ProducerInv /\ ItemInv /\ ConsumerInv /\ ServiceInv
  BY DEF Init, ProducerInv, ItemInv, ConsumerInv, ServiceInv, Alive, UsesTracks, Producers
<1>4. BufferInv /\ CandInv
  BY Kinds DEF Init, BufferInv, CandInv, Distinct, Queued, WorkHas, ItemHas,
             Producers, IsPcm
<1>5. MuteInv
  BY DEF Init, MuteInv, Settled
<1> QED
  BY <1>2, <1>3, <1>4, <1>5 DEF IInv

\* A step that changes nothing.
LEMMA StutterKeeps == ASSUME IInv, UNCHANGED vars PROVE IInv'
<1>1. UNCHANGED <<lifecycle, muted, audioQueue, pcmPool, calls, threads, tracks, muteLost>>
  BY DEF vars
<1>2. TypeOK'
  BY <1>1 DEF IInv, TypeOK, lifecycle, calls, threads
<1>3. (ItemInv /\ ConsumerInv /\ ServiceInv)'
  BY <1>1, CallFrame
<1>4. ProducerInv' /\ BufferInv' /\ CandInv'
  BY <1>1 DEF IInv, ProducerInv, BufferInv, CandInv, WorkHas, ItemHas, calls, threads
<1>5. MuteInv'
  BY <1>1 DEF IInv, MuteInv, Settled, Quiet, lifecycle, calls, threads
<1> QED
  BY <1>2, <1>3, <1>4, <1>5 DEF IInv

\* The invariant is inductive.
LEMMA Inductive == IInv /\ [Next]_vars => IInv'
<1> SUFFICES ASSUME IInv, [Next]_vars PROVE IInv'
  OBVIOUS
<1>1. CASE OnAudio
  BY <1>1, OnPcmKeeps, OnCommandKeeps DEF OnAudio
<1>2. ASSUME NEW v \in BOOLEAN, SetMuted(v) PROVE IInv'
  BY <1>2, SetMutedKeeps
<1>3. ASSUME NEW p \in Producers, InCall(p) PROVE IInv'
  BY <1>3, CheckRunningKeeps, MeasureKeeps, TrimKeeps, ScanKeeps, RemoveKeeps, OfferKeeps,
     ClearKeeps, ClearedKeeps, ReofferKeeps DEF InCall
<1>4. ASSUME NEW w \in Workers, WorkerStep(w) PROVE IInv'
  BY <1>4, LoopKeeps, PollKeeps, WritePcmKeeps, EnsureTrackKeeps, WriteKeeps, DiesKeeps,
     HandleCommandKeeps, ApplyMutedKeeps, ReleaseTrackKeeps, ExitKeeps DEF WorkerStep
<1>5. CASE ServiceStep
  BY <1>5, StartKeeps, StopKeeps, WaitedKeeps, BeginKeeps, ServiceClearsKeeps,
     InterruptKeeps, JoinedKeeps DEF ServiceStep
<1> QED
  BY <1>1, <1>2, <1>3, <1>4, <1>5, StutterKeeps DEF Next

LEMMA AlwaysIInv == Spec => []IInv
<1> QED
  BY InitInv, Inductive, PTL DEF Spec

(***************************************************************************)
(* Theorems.                                                               *)
(***************************************************************************)

\* Every variable keeps its type, the queue and the pool their bounds
\* (CarlinkitAudioPlayer.audioQueue, pcmPool).
THEOREM TypeCorrect == Spec => []TypeOK
<1>1. IInv => TypeOK
  BY DEF IInv
<1> QED
  BY AlwaysIInv, <1>1, PTL

\* A PCM array is never overwritten while it waits or plays, nor given back twice,
\* for any number of arrays and any sizes of the queue.
THEOREM BuffersExclusive == Spec => []BufferExclusive
<1>1. ASSUME IInv PROVE BufferExclusive
  <2>1. \A i, j \in SoundAt : audioQueue[i].buffer = audioQueue[j].buffer => i = j
    BY <1>1 DEF IInv, BufferInv, Distinct, SoundAt
  <2>2. ~IsPcm(work["ui"])
    BY <1>1, Kinds DEF IInv, ProducerInv, Producers, IsPcm
  <2>3. \A b \in Held : b \in Buffers /\ (WorkHas(b) \/ \E w \in Workers : ItemHas(w, b))
    BY <2>2, Kinds DEF Held, Arrays, WorkHas, ItemHas, Producers, IsPcm
  <2>4. \A b \in Arrays(Elements(audioQueue)) : b \in Buffers /\ Queued(b, audioQueue)
    BY Kinds DEF Arrays, Elements, Queued, IsPcm
  <2>5. pcmPool \cap Held = {}
    BY <1>1, <2>3 DEF IInv, BufferInv
  <2>6. Arrays(Elements(audioQueue)) \cap (pcmPool \cup Held) = {}
    BY <1>1, <2>3, <2>4 DEF IInv, BufferInv
  <2>7. \A w \in Workers : Arrays({item[w]}) \cap Arrays({work["reader"]}) = {}
    <3> SUFFICES ASSUME NEW w \in Workers,
                        NEW b \in Arrays({item[w]}), b \in Arrays({work["reader"]})
                 PROVE  FALSE
      OBVIOUS
    <3>1. IsPcm(item[w]) /\ item[w].buffer = b /\ b \in Buffers
      BY OneArray
    <3>2. IsPcm(work["reader"]) /\ work["reader"].buffer = b
      BY OneArray
    <3> QED
      BY <1>1, <3>1, <3>2 DEF IInv, BufferInv, ItemHas, WorkHas
  <2> QED
    BY <2>1, <2>5, <2>6, <2>7 DEF BufferExclusive
<1> QED
  BY AlwaysIInv, <1>1, PTL

\* However start(), stop(), expired joins and dying workers interleave, there is
\* no second thread on the tracks, for any number of threads.
THEOREM OneConsumerProved == Spec => []OneConsumer
<1>1. ASSUME IInv PROVE OneConsumer
  BY <1>1 DEF IInv, ConsumerInv, OneConsumer, UsesTracks, Alive
<1> QED
  BY AlwaysIInv, <1>1, PTL

\* A mute that was applied holds, whatever sound was queued or half way.
THEOREM MuteHeld == Spec => []MuteHolds
<1>1. ASSUME IInv PROVE MuteHolds
  <2> SUFFICES ASSUME muted, at["ui"] = "idle", running, ~MutePending, ~muteLost
               PROVE  ~Playing /\ \A w \in Workers : worker[w] # "write"
    BY DEF MuteHolds
  <2>1. NoMute(audioQueue) /\ \A w \in Workers : item[w] \notin Mute
    BY DEF MutePending, NoMute, Elements
  <2>2. Quiet
    BY <1>1, <2>1 DEF IInv, MuteInv, Settled
  <2> QED
    BY <2>2 DEF Quiet, Playing
<1> QED
  BY AlwaysIInv, <1>1, PTL

\* The player serves its queue in order to one thread, and gives up nothing but
\* the oldest sound or the front: the chunk that is removed is the oldest one
\* although the other producer and the worker went on since it was found.
THEOREM ImplementsQueue == Spec => StaleGoesFirst
<1> DEFINE done == {item[w] : w \in Workers} \ {Nothing}
           QueueStep == Queue!Next \/ UNCHANGED Queue!vars
<1>1. ASSUME NEW x \in Work, audioQueue' = Append(audioQueue, x), item' = item
      PROVE  QueueStep
  BY <1>1 DEF Queue!Next, Queue!Accept
<1>2. ASSUME audioQueue' = audioQueue, item' = item PROVE QueueStep
  BY <1>2 DEF Queue!vars
<1>3. ASSUME ClearOne, item' = item PROVE QueueStep
  BY <1>3 DEF ClearOne, Queue!Next, Queue!LoseFront
<1>4. ASSUME IInv, NEW w \in Workers, Alive(w), audioQueue' = audioQueue,
             item' = [item EXCEPT ![w] = Nothing]
      PROVE  QueueStep
  <2>1. \A v \in Workers : item'[v] = Nothing
    BY <1>4, OneItem DEF IInv, TypeOK
  <2>2. done' = {}
    BY <2>1
  <2> QED
    BY <1>4, <2>2 DEF Queue!Next, Queue!Finish
<1>5. ASSUME IInv, NEW p \in Producers, Remove(p), item' = item PROVE QueueStep
  <2>1. ASSUME NEW i \in SoundAt, audioQueue[i].buffer = candidate[p],
               audioQueue' = Without(i)
        PROVE  QueueStep
    <3>1. i \in 1..Len(audioQueue) /\ IsPcm(audioQueue[i]) /\ candidate[p] # Nothing
      BY <2>1, Kinds DEF SoundAt, IsPcm
    <3>2. PICK k \in 1..Len(audioQueue) :
            /\ IsPcm(audioQueue[k]) /\ audioQueue[k].buffer = candidate[p]
            /\ \A j \in 1..(k - 1) : ~IsPcm(audioQueue[j])
      BY <1>5, <3>1 DEF IInv, CandInv, Oldest
    <3>3. k = i
      BY <1>5, <2>1, <3>1, <3>2 DEF IInv, BufferInv, Distinct
    <3>4. Queue!LoseOldestSound
      BY <1>5, <2>1, <3>1, <3>2, <3>3 DEF Without, Queue!LoseOldestSound, IsPcm
    <3> QED
      BY <3>4 DEF Queue!Next
  <2> QED
    BY <1>2, <1>5, <2>1 DEF Remove
<1>6. ASSUME IInv, NEW w \in Workers, Poll(w) PROVE QueueStep
  <2>1. CASE audioQueue # <<>> /\ audioQueue' = Tail(audioQueue)
             /\ item' = [item EXCEPT ![w] = Head(audioQueue)]
    <3>1. \A v \in Workers : item[v] = Nothing
      BY <1>6, OneItem DEF Poll, IInv, ItemInv, Alive
    <3>2. Head(audioQueue) \in Work /\ Head(audioQueue) # Nothing
      BY <1>6, <2>1, NothingAssumption DEF IInv, TypeOK
    <3>3. done = {}
      BY <3>1
    <3>4. done' = {Head(audioQueue)}
      BY <1>6, <2>1, <3>1, <3>2 DEF IInv, TypeOK
    <3> QED
      BY <2>1, <3>3, <3>4 DEF Queue!Next, Queue!Serve
  <2>2. CASE UNCHANGED <<audioQueue, item>>
    BY <2>2, <1>2
  <2> QED
    BY <1>6, <2>1, <2>2 DEF Poll
<1>7. ASSUME IInv, [Next]_vars PROVE QueueStep
  <2>1. CASE OnAudio \/ \E v \in BOOLEAN : SetMuted(v)
    BY <2>1, <1>2 DEF OnAudio, SetMuted, threads
  <2>2. ASSUME NEW p \in Producers, InCall(p) PROVE QueueStep
    <3>1. item' = item
      BY <2>2 DEF InCall, threads
    <3>2. CASE Offer(p) \/ Reoffer(p)
      <4>1. work[p] \in Work \/ audioQueue' = audioQueue
        BY <1>7, <3>2, Kinds DEF Offer, Reoffer, IInv, ProducerInv, Producers
      <4> QED
        BY <3>1, <3>2, <4>1, <1>1, <1>2 DEF Offer, Reoffer
    <3>3. CASE Remove(p)
      BY <1>5, <1>7, <3>1, <3>3
    <3>4. CASE Clear(p)
      BY <1>3, <3>1, <3>4 DEF Clear
    <3>5. CASE CheckRunning \/ Measure \/ Trim \/ Scan(p) \/ Cleared(p)
      BY <1>2, <3>1, <3>5 DEF CheckRunning, Measure, Trim, Scan, Cleared
    <3> QED
      BY <2>2, <3>2, <3>3, <3>4, <3>5 DEF InCall
  <2>3. ASSUME NEW w \in Workers, WorkerStep(w) PROVE QueueStep
    <3>1. CASE Poll(w)
      BY <1>6, <1>7, <3>1
    <3>2. CASE Loop(w) \/ ReleaseTrack(w) \/ Exit(w)
      BY <1>2, <3>2 DEF Loop, ReleaseTrack, Exit
    <3>3. CASE WritePcm(w) \/ EnsureTrack(w) \/ Write(w) \/ Dies(w) \/ HandleCommand(w)
               \/ ApplyMuted(w)
      <4>1. Alive(w) /\ audioQueue' = audioQueue
        BY <3>3 DEF WritePcm, EnsureTrack, Write, Dies, HandleCommand, ApplyMuted, Alive
      <4>2. item' = item \/ item' = [item EXCEPT ![w] = Nothing]
        BY <3>3 DEF WritePcm, EnsureTrack, Write, Dies, HandleCommand, ApplyMuted, Done
      <4> QED
        BY <1>2, <1>4, <1>7, <4>1, <4>2
    <3> QED
      BY <2>3, <3>1, <3>2, <3>3 DEF WorkerStep
  <2>4. CASE ServiceStep
    <3>1. item' = item
      BY <2>4 DEF ServiceStep
    <3>2. CASE ServiceClears
      BY <1>3, <3>1, <3>2 DEF ServiceClears
    <3>3. CASE Start \/ Stop \/ Waited \/ Begin \/ Interrupt \/ Joined
      BY <1>2, <3>1, <3>3 DEF Start, Stop, Waited, Begin, Interrupt, Joined
    <3> QED
      BY <2>4, <3>2, <3>3 DEF ServiceStep
  <2>5. CASE UNCHANGED vars
    BY <2>5, <1>2 DEF vars, threads
  <2> QED
    BY <1>7, <2>1, <2>2, <2>3, <2>4, <2>5 DEF Next
<1>8. Init => Queue!Init
  BY DEF Init, Queue!Init
<1> QED
  BY AlwaysIInv, <1>7, <1>8, PTL DEF Spec, StaleGoesFirst, Queue!Spec

(***************************************************************************)
(* What the liveness of the player rests on.                               *)
(***************************************************************************)

\* A step of a worker that has to end is one nearer to its end, and leaves it to
\* end.
LEMMA QuittingNears ==
  ASSUME IInv, NEW w \in Workers, WorkerStep(w), Quits(w)
  PROVE  /\ StepsLeft[worker'[w]] < StepsLeft[worker[w]]
         /\ Alive(w)' => Quits(w)'
<1> USE DEF StepsLeft
<1>0. audioThread = w /\ ~running /\ worker \in [Workers -> WorkerPcs]
  BY OneItem DEF Quits, IInv, TypeOK
<1>1. CASE Loop(w)
  BY <1>0, <1>1 DEF Loop, WorkerAt, Quits
<1>2. CASE Poll(w)
  <2>1. audioQueue # <<>> => Head(audioQueue) \in Work
    BY DEF IInv, TypeOK
  <2>2. worker[w] = "poll" /\ running' = running
    BY <1>2 DEF Poll
  <2>3. worker'[w] \in {"pcm", "command", "mute", "loop"}
    BY <1>0, <1>2, <2>1, Kinds DEF Poll, WorkerAt
  <2> QED
    BY <1>0, <2>2, <2>3 DEF Quits
<1>3. CASE WritePcm(w)
  BY <1>0, <1>3 DEF WritePcm, Done, WorkerAt, Quits
<1>4. CASE EnsureTrack(w)
  BY <1>0, <1>4 DEF EnsureTrack, Done, WorkerAt, Quits
<1>5. CASE Write(w)
  BY <1>0, <1>5 DEF Write, Done, WorkerAt, Quits
<1>6. CASE Dies(w)
  <2>1. worker[w] = "ensure" /\ worker' = [worker EXCEPT ![w] = "release"]
    BY <1>6 DEF Dies, Done, WorkerAt
  <2>2. worker'[w] = "release"
    BY <1>0, <2>1
  <2>3. ~running'
    <3>1. running' = (running /\ audioThread # w)
      BY <1>6 DEF Dies
    <3> QED
      BY <1>0, <3>1
  <2>4. audioThread' = audioThread
    BY <1>6 DEF Dies
  <2> QED
    BY <1>0, <2>1, <2>2, <2>3, <2>4 DEF Quits
<1>7. CASE HandleCommand(w)
  BY <1>0, <1>7 DEF HandleCommand, Done, WorkerAt, Quits
<1>8. CASE ApplyMuted(w)
  BY <1>0, <1>8 DEF ApplyMuted, Done, WorkerAt, Quits
<1>9. CASE ReleaseTrack(w)
  BY <1>0, <1>9 DEF ReleaseTrack, WorkerAt, Quits
<1>10. CASE Exit(w)
  BY <1>0, <1>10 DEF Exit, WorkerAt, Alive
<1> QED
  BY <1>1, <1>2, <1>3, <1>4, <1>5, <1>6, <1>7, <1>8, <1>9, <1>10 DEF WorkerStep

\* Nobody else's takes it back: start() waits for it, or refuses.
LEMMA OthersLetQuit ==
  ASSUME IInv, Next, NEW w \in Workers, ~WorkerStep(w), Quits(w)
  PROVE  worker'[w] = worker[w] /\ Quits(w)'
<1>0. audioThread = w /\ ~running /\ Alive(w)
  BY OneItem DEF Quits
<1>1. CASE OnAudio
  BY <1>0, <1>1 DEF OnAudio, Quits, Alive, lifecycle, threads
<1>2. CASE \E v \in BOOLEAN : SetMuted(v)
  BY <1>0, <1>2 DEF SetMuted, Quits, Alive, lifecycle, threads
<1>3. CASE \E p \in Producers : InCall(p)
  BY <1>0, <1>3 DEF InCall, Quits, Alive, lifecycle, threads
<1>4. ASSUME NEW v \in Workers, v # w, WorkerStep(v) PROVE worker'[w] = worker[w] /\ Quits(w)'
  <2>1. worker[v] = "dead"
    BY <1>0, <1>4, OneItem
  <2> QED
    BY <1>4, <2>1 DEF WorkerStep, Loop, Poll, WritePcm, EnsureTrack, Write, Dies, HandleCommand,
       ApplyMuted, ReleaseTrack, Exit
<1>5. CASE ServiceStep
  <2>1. ~Begin
    BY <1>0 DEF IInv, ServiceInv, Begin
  <2>2. /\ Start \/ Stop \/ Waited \/ ServiceClears \/ Interrupt \/ Joined
        /\ Lingers
    BY <1>0, <1>5, <2>1 DEF ServiceStep, Lingers
  <2> QED
    BY <1>0, <2>2 DEF Start, Stop, Waited, ServiceClears, Interrupt, Joined, lifecycle, Quits,
       Alive
<1> QED
  BY <1>1, <1>2, <1>3, <1>4, <1>5 DEF Next

\* A worker that was stopped, or that died, is never taken back and comes nearer to
\* its end with each step, whatever is queued and whoever calls start() meanwhile:
\* the part of WorkerEnds that asks nothing of the scheduler.
THEOREM WorkersGetDone == Spec => StoppedWorkerEnds
<1> DEFINE A == \A w \in Workers : Quits(w) =>
                  \/ worker'[w] = worker[w] /\ Quits(w)'
                  \/ StepsLeft[worker'[w]] < StepsLeft[worker[w]] /\ (Alive(w)' => Quits(w)')
<1>1. IInv /\ Next => A
  BY QuittingNears, OthersLetQuit
<1> HIDE DEF A
<1>2. IInv /\ [Next]_vars => [A]_vars
  BY <1>1
<1>3. Spec => [][A]_vars
  BY <1>2, AlwaysIInv, PTL DEF Spec
<1> QED
  BY <1>3 DEF StoppedWorkerEnds, A

\* The sets of the property and the predicates of the invariant say the same.
LEMMA SoundMeans ==
  /\ \A b : b \in QueuedSound <=> Queued(b, audioQueue)
  /\ \A b : b \in SoundToCome <=> Queued(b, audioQueue) \/ WorkHas(b)
<1>1. \A b : b \in QueuedSound <=> Queued(b, audioQueue)
  BY DEF QueuedSound, Arrays, Elements, Queued
<1>2. \A b : b \in Arrays({work["reader"]}) <=> WorkHas(b)
  BY DEF Arrays, WorkHas
<1> QED
  BY <1>1, <1>2 DEF SoundToCome

\* A step may only queue the sound the read thread has in hand.
NoNewSound ==
  /\ \A b : Queued(b, audioQueue') => Queued(b, audioQueue) \/ WorkHas(b)
  /\ \A b : WorkHas(b)' => WorkHas(b)

\* A step of a producer queues what it has, or nothing.
LEMMA CallAddsNoSound ==
  ASSUME IInv, NEW p \in Producers, InCall(p)
  PROVE  NoNewSound
<1>0. audioQueue \in Seq(Work) /\ work \in [Producers -> Work \cup {Nothing}]
  BY DEF IInv, TypeOK
<1>1. /\ ~IsPcm(work["ui"])
      /\ at[p] \in {"offer", "reoffer"} => work[p] \in Work
  BY Kinds DEF IInv, ProducerInv, Producers, IsPcm
<1>2. work'["reader"] \in {work["reader"], Nothing}
  BY <1>0 DEF InCall, CheckRunning, Measure, Trim, Scan, Remove, Offer, Clear, Cleared, Reoffer,
     Return, Drop, Producers
<1>3. \A b : WorkHas(b)' => WorkHas(b)
  BY <1>2, Kinds DEF WorkHas, IsPcm
<1>4. \/ audioQueue' = audioQueue
      \/ at[p] \in {"offer", "reoffer"} /\ audioQueue' = Append(audioQueue, work[p])
      \/ \E i \in SoundAt : audioQueue' = Without(i)
      \/ ClearOne
  BY DEF InCall, CheckRunning, Measure, Trim, Scan, Remove, Offer, Clear, Cleared, Reoffer
<1>5. CASE at[p] \in {"offer", "reoffer"} /\ audioQueue' = Append(audioQueue, work[p])
  <2>1. \A b : Queued(b, audioQueue') =>
                 Queued(b, audioQueue) \/ (IsPcm(work[p]) /\ work[p].buffer = b)
    BY <1>0, <1>1, <1>5, Appended
  <2> QED
    BY <1>1, <1>3, <2>1 DEF WorkHas, Producers, NoNewSound
<1>6. CASE \E i \in SoundAt : audioQueue' = Without(i)
  BY <1>0, <1>3, <1>6, Taken DEF NoNewSound
<1>7. CASE ClearOne
  BY <1>3, <1>7, FrontLeaves DEF NoNewSound, ClearOne
<1>8. CASE audioQueue' = audioQueue
  BY <1>3, <1>8 DEF NoNewSound
<1> QED
  BY <1>4, <1>5, <1>6, <1>7, <1>8

\* While the player is muted onAudio() ignores PCM, so nobody has new sound.
LEMMA MutedAddsNoSound ==
  ASSUME IInv, muted, [Next]_vars
  PROVE  NoNewSound
<1>1. ASSUME audioQueue' = audioQueue, work'["reader"] = work["reader"] PROVE NoNewSound
  BY <1>1 DEF NoNewSound, WorkHas
<1>2. CASE OnAudio
  <2>1. PICK d \in Types : OnCommand(d)
    BY <1>2 DEF OnAudio, OnPcm
  <2>2. work'["reader"] = [kind |-> "command", type |-> d] /\ audioQueue' = audioQueue
    BY <1>2, <2>1 DEF OnAudio, OnCommand, Call, IInv, TypeOK, Producers
  <2>3. ~IsPcm(work'["reader"])
    BY <2>2, NewWorks, Kinds DEF IsPcm
  <2> QED
    BY <2>2, <2>3 DEF NoNewSound, WorkHas
<1>3. CASE \E v \in BOOLEAN : SetMuted(v)
  <2>1. audioQueue' = audioQueue /\ work'["reader"] = work["reader"]
    BY <1>3 DEF SetMuted, Call, IInv, TypeOK, Producers
  <2> QED
    BY <1>1, <2>1
<1>4. ASSUME NEW w \in Workers, WorkerStep(w) PROVE NoNewSound
  <2>1. work' = work
    BY <1>4 DEF WorkerStep
  <2>2. CASE audioQueue # <<>> /\ audioQueue' = Tail(audioQueue) /\ Forget(Head(audioQueue))
    BY <2>1, <2>2, FrontLeaves DEF NoNewSound, WorkHas
  <2>3. CASE audioQueue' = audioQueue
    BY <1>1, <2>1, <2>3
  <2> QED
    BY <1>4, <2>2, <2>3 DEF WorkerStep, Loop, Poll, WritePcm, EnsureTrack, Write, Dies,
       HandleCommand, ApplyMuted, ReleaseTrack, Exit
<1>5. CASE ServiceStep
  <2>1. work' = work
    BY <1>5 DEF ServiceStep
  <2>2. CASE ServiceClears
    BY <2>1, <2>2, FrontLeaves DEF ServiceClears, ClearOne, NoNewSound, WorkHas
  <2>3. CASE Start \/ Stop \/ Waited \/ Begin \/ Interrupt \/ Joined
    BY <1>1, <2>1, <2>3 DEF Start, Stop, Waited, Begin, Interrupt, Joined
  <2> QED
    BY <1>5, <2>2, <2>3 DEF ServiceStep
<1>6. CASE UNCHANGED vars
  BY <1>1, <1>6 DEF vars, calls
<1> QED
  BY <1>2, <1>3, <1>4, <1>5, <1>6, CallAddsNoSound DEF Next

\* While the player is muted the sound that is still to come only gets less, and
\* every chunk that is dropped is gone: the reason why the purge of setMuted(true)
\* ends, for any number of arrays (MuteSettles).
THEOREM PurgeEnds == Spec => PurgeGetsThrough
<1> DEFINE A == muted /\ muted' =>
                  /\ SoundToCome' \subseteq SoundToCome
                  /\ (QueuedSound \ QueuedSound') \cap SoundToCome' = {}
<1>1. ASSUME IInv, Next, muted
      PROVE  /\ SoundToCome' \subseteq SoundToCome
             /\ (QueuedSound \ QueuedSound') \cap SoundToCome' = {}
  <2>1. NoNewSound
    BY <1>1, MutedAddsNoSound
  <2>2. /\ \A b : b \in QueuedSound' <=> Queued(b, audioQueue')
        /\ \A b : b \in SoundToCome' <=> Queued(b, audioQueue') \/ WorkHas(b)'
    <3>1. \A b : b \in QueuedSound' <=> Queued(b, audioQueue')
      BY DEF QueuedSound, Arrays, Elements, Queued
    <3>2. \A b : b \in Arrays({work["reader"]})' <=> WorkHas(b)'
      BY DEF Arrays, WorkHas
    <3> QED
      BY <3>1, <3>2 DEF SoundToCome
  <2>3. \A b : WorkHas(b) => b \in Buffers
    BY Kinds DEF WorkHas, IsPcm
  <2>4. \A b : WorkHas(b) => ~Queued(b, audioQueue)
    BY <1>1, <2>3 DEF IInv, BufferInv
  <2> QED
    BY <2>1, <2>2, <2>4, SoundMeans DEF NoNewSound
<1>2. IInv /\ Next => A
  BY <1>1
<1> HIDE DEF A
<1>3. IInv /\ [Next]_vars => [A]_vars
  BY <1>2
<1>4. Spec => [][A]_vars
  BY <1>3, AlwaysIInv, PTL DEF Spec
<1> QED
  BY <1>4 DEF PurgeGetsThrough, A
=============================================================================
