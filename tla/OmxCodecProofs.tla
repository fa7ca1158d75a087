--------------------------- MODULE OmxCodecProofs ---------------------------
(***************************************************************************)
(* Proofs about OmxCodec for any sets of codecs and buffers: its           *)
(* invariants, and that it implements FrameFeed.                           *)
(***************************************************************************)
EXTENDS OmxCodec, TLAPS, FiniteSetTheorems

\* The thread of a codec that exists: it is initialized after its decoder was
\* made, it stops when it was told to, and it lends nothing after it ended.
StageInv ==
  \A c \in live :
    /\ thread[c] # "none"
    /\ thread[c] = "start" <=> status[c] \in {"unset", "nocodec"}
    /\ status[c] = "nocodec" => crashed
    /\ c \in initialized => thread[c] \notin {"start", "ready"}
    /\ thread[c] \in {"stopping", "ended"} => c \in quit
    /\ thread[c] = "ended" => lent[c] = {}

\* What the caller has done to the codec it holds.
CallInv ==
  /\ cur \in live \cup {NoCodec}
  /\ cur # NoCodec =>
       /\ cur \in quit <=> pc \in {"stopSource", "join", "release", "delete"}
       /\ cur \in sourceQuit <=> pc \in {"join", "release", "delete"}
       /\ pc \notin {"spawned", "waiting"} => cur \in initialized
       /\ pc \notin {"spawned", "waiting", "status"} => status[cur] = "ok"
       /\ pc \in {"release", "delete"} => thread[cur] = "ended"
       /\ pc \in {"spawned", "waiting", "status", "join", "release", "delete"}
            => pbuffers[cur] = <<>>
       /\ pc \in {"spawned", "waiting", "status"} => lent[cur] = {}

\* Only the codec the caller holds has frames.
IdleInv == \A c \in Codecs \ {cur} : pbuffers[c] = <<>> /\ lent[c] = {}

\* A queued buffer is in one place of one queue.
DistinctInv ==
  \A c \in Codecs :
    /\ \A i, j \in 1..Len(pbuffers[c]) : pbuffers[c][i] = pbuffers[c][j] => i = j
    /\ \A i \in 1..Len(pbuffers[c]) : pbuffers[c][i] # buffer

IInv ==
  /\ TypeOK /\ StageInv /\ CallInv /\ IdleInv /\ DistinctInv /\ BuffersOwned
  /\ TeardownIsOrdered /\ OnlyFailedInitOrphans

USE NoCodecAssumption, NoBufferAssumption

\* The elements of a queue after a push and after a pop.
LEMMA AppendElements ==
  ASSUME NEW S, NEW q \in Seq(S), NEW x \in S
  PROVE  Elements(Append(q, x)) = Elements(q) \cup {x}
BY DEF Elements

LEMMA TailElements ==
  ASSUME NEW S, NEW q \in Seq(S), q # <<>>,
         \A i, j \in 1..Len(q) : q[i] = q[j] => i = j
  PROVE  Elements(Tail(q)) = Elements(q) \ {Head(q)}
<1>1. Elements(Tail(q)) \subseteq Elements(q) \ {Head(q)}
  BY DEF Elements
<1>2. ASSUME NEW i \in 1..Len(q), q[i] # Head(q)
      PROVE  q[i] \in Elements(Tail(q))
  <2>1. i # 1 /\ i - 1 \in 1..Len(Tail(q)) /\ Tail(q)[i - 1] = q[i]
    BY <1>2
  <2> QED
    BY <2>1 DEF Elements
<1>3. Elements(q) \ {Head(q)} \subseteq Elements(Tail(q))
  <2> SUFFICES ASSUME NEW x \in Elements(q), x # Head(q)
               PROVE  x \in Elements(Tail(q))
    OBVIOUS
  <2>1. PICK i \in 1..Len(q) : x = q[i]
    BY DEF Elements
  <2> QED
    BY <2>1, <1>2
<1> QED
  BY <1>1, <1>3

LEMMA EmptyElements == Elements(<<>>) = {}
BY DEF Elements

\* At first there is no codec and no buffer.
LEMMA InitInv == Init => IInv
<1> SUFFICES ASSUME Init PROVE IInv
  OBVIOUS
<1>1. TypeOK
  <2>1. pbuffers \in [Codecs -> Seq(Buffers)] /\ lent \in [Codecs -> SUBSET Buffers]
    BY DEF Init
  <2>2. /\ status \in [Codecs -> Status] /\ thread \in [Codecs -> ThreadPc]
        /\ window \in [Codecs -> SUBSET {"surface", "codec", "decoder"}]
    BY DEF Init, ThreadPc, Status
  <2>3. /\ pc = "idle" /\ pc \in CallerPc /\ cur = NoCodec /\ buffer = NoBuffer
        /\ live = {} /\ initialized = {} /\ quit = {} /\ sourceQuit = {} /\ heap = {}
        /\ crashed \in BOOLEAN
    BY DEF Init, CallerPc
  <2> QED
    BY <2>1, <2>2, <2>3 DEF TypeOK
<1>2. StageInv /\ CallInv /\ IdleInv /\ DistinctInv
  BY DEF Init, StageInv, CallInv, IdleInv, DistinctInv
<1>3. BuffersOwned
  BY EmptyElements DEF Init, BuffersOwned, Holds
<1>4. TeardownIsOrdered /\ OnlyFailedInitOrphans
  BY DEF Init, TeardownIsOrdered, OnlyFailedInitOrphans
<1> QED
  BY <1>1, <1>2, <1>3, <1>4 DEF IInv

\* start() of the renderer makes a codec.
LEMMA CreateKeeps ==
  ASSUME IInv, NEW c \in Codecs, Create(c), ~crashed, UNCHANGED crashed
  PROVE  IInv'
<1> USE DEF IInv, caller, codec, source, Goto, Create
<1>1. TypeOK'
  BY DEF TypeOK, CallerPc, ThreadPc, Status
<1>2. StageInv'
  BY DEF TypeOK, StageInv
<1>3. CallInv'
  BY DEF TypeOK, CallInv, StageInv, IdleInv
<1>4. IdleInv'
  BY DEF TypeOK, IdleInv, CallInv
<1>5. DistinctInv'
  BY DEF TypeOK, DistinctInv, IdleInv, CallInv
<1>6. BuffersOwned'
  BY DEF TypeOK, BuffersOwned, Holds, DistinctInv, IdleInv, CallInv
<1>7. TeardownIsOrdered'
  BY DEF TypeOK, TeardownIsOrdered, CallInv, StageInv
<1>8. OnlyFailedInitOrphans'
  BY DEF TypeOK, OnlyFailedInitOrphans, Initializing, IdleInv, CallInv, StageInv, TeardownIsOrdered
<1> QED
  BY <1>1, <1>2, <1>3, <1>4, <1>5, <1>6, <1>7, <1>8

\* init() looks at the flag under codecMutex_.
LEMMA AwaitInitKeeps ==
  ASSUME IInv, AwaitInit, ~crashed, UNCHANGED crashed
  PROVE  IInv'
<1> USE DEF IInv, caller, codec, source, Goto, AwaitInit
<1>1. TypeOK'
  BY DEF TypeOK, CallerPc, ThreadPc, Status
<1>2. StageInv'
  BY DEF TypeOK, StageInv
<1>3. CallInv'
  BY DEF TypeOK, CallInv, StageInv
<1>4. IdleInv'
  BY DEF TypeOK, IdleInv, CallInv
<1>5. DistinctInv'
  BY DEF TypeOK, DistinctInv, IdleInv, CallInv
<1>6. BuffersOwned'
  BY DEF TypeOK, BuffersOwned, Holds, DistinctInv, IdleInv, CallInv
<1>7. TeardownIsOrdered'
  BY DEF TypeOK, TeardownIsOrdered, CallInv, StageInv
<1>8. OnlyFailedInitOrphans'
  BY DEF TypeOK, OnlyFailedInitOrphans, Initializing, IdleInv, CallInv, StageInv, TeardownIsOrdered
<1> QED
  BY <1>1, <1>2, <1>3, <1>4, <1>5, <1>6, <1>7, <1>8

\* init() returns, and a codec that failed is forgotten.
LEMMA InitReturnsKeeps ==
  ASSUME IInv, InitReturns, ~crashed, UNCHANGED crashed
  PROVE  IInv'
<1> USE DEF IInv, caller, codec, source, Goto, InitReturns
<1>1. TypeOK'
  BY DEF TypeOK, CallerPc, ThreadPc, Status
<1>2. StageInv'
  BY DEF TypeOK, StageInv
<1>3. CallInv'
  BY DEF TypeOK, CallInv, StageInv
<1>4. IdleInv'
  BY DEF TypeOK, IdleInv, CallInv
<1>5. DistinctInv'
  BY DEF TypeOK, DistinctInv, IdleInv, CallInv
<1>6. BuffersOwned'
  BY DEF TypeOK, BuffersOwned, Holds, DistinctInv, IdleInv, CallInv
<1>7. TeardownIsOrdered'
  BY DEF TypeOK, TeardownIsOrdered, CallInv, StageInv
<1>8. OnlyFailedInitOrphans'
  BY DEF TypeOK, OnlyFailedInitOrphans, Initializing, IdleInv, CallInv, StageInv, TeardownIsOrdered,
          Status
<1> QED
  BY <1>1, <1>2, <1>3, <1>4, <1>5, <1>6, <1>7, <1>8

\* mediaDecode() allocates a buffer.
LEMMA AllocateKeeps ==
  ASSUME IInv, NEW b \in Buffers, Allocate(b), ~crashed, UNCHANGED crashed
  PROVE  IInv'
<1> USE DEF IInv, caller, codec, source, Goto, Allocate
<1>1. TypeOK'
  BY DEF TypeOK, CallerPc, ThreadPc, Status
<1>2. StageInv'
  BY DEF TypeOK, StageInv
<1>3. CallInv'
  BY DEF TypeOK, CallInv, StageInv
<1>4. IdleInv'
  BY DEF TypeOK, IdleInv, CallInv
<1>5. DistinctInv'
  BY DEF TypeOK, DistinctInv, IdleInv, CallInv, BuffersOwned, Holds, Elements
<1>6. BuffersOwned'
  BY DEF TypeOK, BuffersOwned, Holds, DistinctInv, IdleInv, CallInv
<1>7. TeardownIsOrdered'
  BY DEF TypeOK, TeardownIsOrdered, CallInv, StageInv
<1>8. OnlyFailedInitOrphans'
  BY DEF TypeOK, OnlyFailedInitOrphans, Initializing, IdleInv, CallInv, StageInv, TeardownIsOrdered
<1> QED
  BY <1>1, <1>2, <1>3, <1>4, <1>5, <1>6, <1>7, <1>8

\* The buffer goes into the queue of the source.
LEMMA QueueBufferKeeps ==
  ASSUME IInv, QueueBuffer, ~crashed, UNCHANGED crashed
  PROVE  IInv'
<1> USE DEF IInv, caller, codec, source, Goto, QueueBuffer, Woken
<1>1. TypeOK'
  <2>1. buffer \in Buffers /\ cur \in Codecs
    BY DEF TypeOK
  <2>2. pbuffers' \in [Codecs -> Seq(Buffers)]
    <3>1. Append(pbuffers[cur], buffer) \in Seq(Buffers)
      BY <2>1 DEF TypeOK
    <3> QED
      BY <2>1, <3>1 DEF TypeOK
  <2>3. thread' \in [Codecs -> ThreadPc]
    BY <2>1 DEF TypeOK, ThreadPc
  <2> QED
    BY <2>2, <2>3 DEF TypeOK, CallerPc
<1>2. StageInv'
  BY DEF TypeOK, StageInv
<1>3. CallInv'
  BY DEF TypeOK, CallInv, StageInv
<1>4. IdleInv'
  BY DEF TypeOK, IdleInv, CallInv
<1>5. DistinctInv'
  <2>1. pbuffers' = [pbuffers EXCEPT ![cur] = Append(@, buffer)] /\ heap' = heap
    BY DEF CallInv, TypeOK
  <2>2. pbuffers[cur] \in Seq(Buffers) /\ buffer \in Buffers
    BY DEF TypeOK
  <2>3. \A i \in 1..Len(pbuffers[cur]) : pbuffers[cur][i] # buffer
    BY DEF DistinctInv, TypeOK
  <2> QED
    BY <2>1, <2>2, <2>3 DEF DistinctInv, TypeOK, IdleInv, CallInv
<1>6. BuffersOwned'
  <2>1. pbuffers' = [pbuffers EXCEPT ![cur] = Append(@, buffer)] /\ heap' = heap
    BY DEF CallInv, TypeOK
  <2>2. pbuffers[cur] \in Seq(Buffers) /\ buffer \in Buffers
    BY DEF TypeOK
  <2>3. cur \in Codecs /\ buffer' = NoBuffer /\ lent' = lent
    BY DEF TypeOK
  <2>4. Elements(pbuffers'[cur]) = Elements(pbuffers[cur]) \cup {buffer}
    <3>1. Elements(Append(pbuffers[cur], buffer)) = Elements(pbuffers[cur]) \cup {buffer}
      BY <2>2, AppendElements
    <3> QED
      BY <2>1, <2>3, <3>1 DEF TypeOK
  <2>5. \A c \in Codecs \ {cur} : pbuffers'[c] = pbuffers[c]
    BY <2>1 DEF TypeOK
  <2>7. \A b \in Buffers : b \in heap <=> \E c \in Codecs : Holds(c, b)'
    BY <2>2, <2>3, <2>4, <2>5 DEF BuffersOwned, Holds
  <2>8. \A d \in Codecs : NoBuffer \notin lent[d] /\ buffer \notin lent[d]
    BY DEF TypeOK, BuffersOwned
  <2>9. \A c, d \in Codecs : (Elements(pbuffers'[c]) \cup {NoBuffer}) \cap lent[d] = {}
    <3>1. \A c, d \in Codecs : Elements(pbuffers[c]) \cap lent[d] = {}
      BY DEF BuffersOwned
    <3> QED
      BY <2>4, <2>5, <2>8, <3>1
  <2> QED
    BY <2>1, <2>3, <2>7, <2>9 DEF BuffersOwned
<1>7. TeardownIsOrdered'
  BY DEF TypeOK, TeardownIsOrdered, CallInv, StageInv
<1>8. OnlyFailedInitOrphans'
  BY DEF TypeOK, OnlyFailedInitOrphans, Initializing, IdleInv, CallInv, StageInv, TeardownIsOrdered
<1> QED
  BY <1>1, <1>2, <1>3, <1>4, <1>5, <1>6, <1>7, <1>8

\* shutdown() raises the flag of the decoder thread.
LEMMA ShutdownKeeps ==
  ASSUME IInv, Shutdown, ~crashed, UNCHANGED crashed
  PROVE  IInv'
<1> USE DEF IInv, caller, codec, source, Goto, Shutdown
<1>1. TypeOK'
  BY DEF TypeOK, CallerPc, ThreadPc, Status
<1>2. StageInv'
  BY DEF TypeOK, StageInv
<1>3. CallInv'
  BY DEF TypeOK, CallInv, StageInv
<1>4. IdleInv'
  BY DEF TypeOK, IdleInv, CallInv
<1>5. DistinctInv'
  BY DEF TypeOK, DistinctInv, IdleInv, CallInv
<1>6. BuffersOwned'
  BY DEF TypeOK, BuffersOwned, Holds, DistinctInv, IdleInv, CallInv
<1>7. TeardownIsOrdered'
  BY DEF TypeOK, TeardownIsOrdered, CallInv, StageInv
<1>8. OnlyFailedInitOrphans'
  BY DEF TypeOK, OnlyFailedInitOrphans, Initializing, IdleInv, CallInv, StageInv, TeardownIsOrdered
<1> QED
  BY <1>1, <1>2, <1>3, <1>4, <1>5, <1>6, <1>7, <1>8

\* The source is stopped and its queue freed.
LEMMA StopSourceKeeps ==
  ASSUME IInv, StopSource, ~crashed, UNCHANGED crashed
  PROVE  IInv'
<1> USE DEF IInv, caller, codec, source, Goto, StopSource, SourceStop, Woken
<1>1. TypeOK'
  <2>1. pbuffers' \in [Codecs -> Seq(Buffers)]
    <3>1. <<>> \in Seq(Buffers)
      OBVIOUS
    <3>2. pbuffers' = pbuffers \/ pbuffers' = [pbuffers EXCEPT ![cur] = <<>>]
      OBVIOUS
    <3>3. pbuffers \in [Codecs -> Seq(Buffers)]
      BY DEF TypeOK
    <3> QED
      BY <3>1, <3>2, <3>3
  <2>2. thread' \in [Codecs -> ThreadPc]
    BY DEF TypeOK, ThreadPc
  <2> QED
    BY <2>1, <2>2 DEF TypeOK, CallerPc
<1>2. StageInv'
  BY DEF TypeOK, StageInv
<1>3. CallInv'
  BY DEF TypeOK, CallInv, StageInv
<1>4. IdleInv'
  BY DEF TypeOK, IdleInv, CallInv
<1>5. DistinctInv'
  BY DEF TypeOK, DistinctInv, IdleInv, CallInv
<1>6. BuffersOwned'
  <2>1. /\ heap' = heap \ Elements(pbuffers[cur])
        /\ pbuffers' = [pbuffers EXCEPT ![cur] = <<>>]
    BY DEF CallInv, TypeOK
  <2>2. /\ buffer = NoBuffer
        /\ \A c \in Codecs : lent[c] \cap Elements(pbuffers[cur]) = {}
    BY DEF BuffersOwned, TypeOK
  <2>3. \A c \in Codecs \ {cur} : Elements(pbuffers[c]) = {}
    BY EmptyElements DEF IdleInv
  <2>4. cur \in Codecs /\ buffer' = buffer /\ lent' = lent
    BY DEF TypeOK
  <2>5. \A c \in Codecs : Elements(pbuffers'[c]) = {}
    BY <2>1, <2>3, EmptyElements DEF TypeOK
  <2>6. \A b \in Buffers : b \in heap' <=> \E c \in Codecs : b \in lent[c]
    BY <2>1, <2>2, <2>3, <2>4 DEF BuffersOwned, Holds
  <2> QED
    BY <2>2, <2>4, <2>5, <2>6 DEF BuffersOwned, Holds
<1>7. TeardownIsOrdered'
  BY DEF TypeOK, TeardownIsOrdered, CallInv, StageInv
<1>8. OnlyFailedInitOrphans'
  BY DEF TypeOK, OnlyFailedInitOrphans, Initializing, IdleInv, CallInv, StageInv, TeardownIsOrdered
<1> QED
  BY <1>1, <1>2, <1>3, <1>4, <1>5, <1>6, <1>7, <1>8

\* The join of the decoder thread returns.
LEMMA JoinKeeps ==
  ASSUME IInv, Join, ~crashed, UNCHANGED crashed
  PROVE  IInv'
<1> USE DEF IInv, caller, codec, source, Goto, Join
<1>1. TypeOK'
  BY DEF TypeOK, CallerPc, ThreadPc, Status
<1>2. StageInv'
  BY DEF TypeOK, StageInv
<1>3. CallInv'
  BY DEF TypeOK, CallInv, StageInv
<1>4. IdleInv'
  BY DEF TypeOK, IdleInv, CallInv
<1>5. DistinctInv'
  BY DEF TypeOK, DistinctInv, IdleInv, CallInv
<1>6. BuffersOwned'
  BY DEF TypeOK, BuffersOwned, Holds, DistinctInv, IdleInv, CallInv
<1>7. TeardownIsOrdered'
  BY DEF TypeOK, TeardownIsOrdered, CallInv, StageInv
<1>8. OnlyFailedInitOrphans'
  BY DEF TypeOK, OnlyFailedInitOrphans, Initializing, IdleInv, CallInv, StageInv, TeardownIsOrdered
<1> QED
  BY <1>1, <1>2, <1>3, <1>4, <1>5, <1>6, <1>7, <1>8

\* The reference nativeSurfaceInit() took is dropped.
LEMMA ReleaseWindowKeeps ==
  ASSUME IInv, ReleaseWindow, ~crashed, UNCHANGED crashed
  PROVE  IInv'
<1> USE DEF IInv, caller, codec, source, Goto, ReleaseWindow
<1>1. TypeOK'
  BY DEF TypeOK, CallerPc, ThreadPc, Status
<1>2. StageInv'
  BY DEF TypeOK, StageInv
<1>3. CallInv'
  BY DEF TypeOK, CallInv, StageInv
<1>4. IdleInv'
  BY DEF TypeOK, IdleInv, CallInv
<1>5. DistinctInv'
  BY DEF TypeOK, DistinctInv, IdleInv, CallInv
<1>6. BuffersOwned'
  BY DEF TypeOK, BuffersOwned, Holds, DistinctInv, IdleInv, CallInv
<1>7. TeardownIsOrdered'
  BY DEF TypeOK, TeardownIsOrdered, CallInv, StageInv
<1>8. OnlyFailedInitOrphans'
  BY DEF TypeOK, OnlyFailedInitOrphans, Initializing, IdleInv, CallInv, StageInv, TeardownIsOrdered
<1> QED
  BY <1>1, <1>2, <1>3, <1>4, <1>5, <1>6, <1>7, <1>8

\* The codec and its decoder are deleted.
LEMMA DeleteKeeps ==
  ASSUME IInv, Delete, ~crashed, UNCHANGED crashed
  PROVE  IInv'
<1> USE DEF IInv, caller, codec, source, Goto, Delete
<1>1. TypeOK'
  BY DEF TypeOK, CallerPc, ThreadPc, Status
<1>2. StageInv'
  BY DEF TypeOK, StageInv
<1>3. CallInv'
  BY DEF TypeOK, CallInv, StageInv
<1>4. IdleInv'
  BY DEF TypeOK, IdleInv, CallInv, StageInv
<1>5. DistinctInv'
  BY DEF TypeOK, DistinctInv, IdleInv, CallInv
<1>6. BuffersOwned'
  BY DEF TypeOK, BuffersOwned, Holds, DistinctInv, IdleInv, CallInv
<1>7. TeardownIsOrdered'
  BY DEF TypeOK, TeardownIsOrdered, CallInv, StageInv
<1>8. OnlyFailedInitOrphans'
  BY DEF TypeOK, OnlyFailedInitOrphans, Initializing, IdleInv, CallInv, StageInv, TeardownIsOrdered
<1> QED
  BY <1>1, <1>2, <1>3, <1>4, <1>5, <1>6, <1>7, <1>8

\* The decoder thread makes its source and its decoder.
LEMMA SetupKeeps ==
  ASSUME IInv, NEW c \in Codecs, Setup(c), ~crashed, UNCHANGED crashed
  PROVE  IInv'
<1> USE DEF IInv, caller, codec, source, Goto, Setup
<1>1. TypeOK'
  BY DEF TypeOK, CallerPc, ThreadPc, Status
<1>2. StageInv'
  BY DEF TypeOK, StageInv
<1>3. CallInv'
  BY DEF TypeOK, CallInv, StageInv
<1>4. IdleInv'
  BY DEF TypeOK, IdleInv, CallInv
<1>5. DistinctInv'
  BY DEF TypeOK, DistinctInv, IdleInv, CallInv
<1>6. BuffersOwned'
  BY DEF TypeOK, BuffersOwned, Holds, DistinctInv, IdleInv, CallInv
<1>7. TeardownIsOrdered'
  BY DEF TypeOK, TeardownIsOrdered, CallInv, StageInv
<1>8. OnlyFailedInitOrphans'
  BY DEF TypeOK, OnlyFailedInitOrphans, Initializing, IdleInv, CallInv, StageInv, TeardownIsOrdered
<1> QED
  BY <1>1, <1>2, <1>3, <1>4, <1>5, <1>6, <1>7, <1>8

\* The decoder thread says that it is there.
LEMMA SetInitializedKeeps ==
  ASSUME IInv, NEW c \in Codecs, SetInitialized(c), ~crashed, UNCHANGED crashed
  PROVE  IInv'
<1> USE DEF IInv, caller, codec, source, Goto, SetInitialized
<1>1. TypeOK'
  BY DEF TypeOK, CallerPc, ThreadPc, Status
<1>2. StageInv'
  BY DEF TypeOK, StageInv
<1>3. CallInv'
  BY DEF TypeOK, CallInv, StageInv
<1>4. IdleInv'
  BY DEF TypeOK, IdleInv, CallInv
<1>5. DistinctInv'
  BY DEF TypeOK, DistinctInv, IdleInv, CallInv
<1>6. BuffersOwned'
  BY DEF TypeOK, BuffersOwned, Holds, DistinctInv, IdleInv, CallInv
<1>7. TeardownIsOrdered'
  BY DEF TypeOK, TeardownIsOrdered, CallInv, StageInv
<1>8. OnlyFailedInitOrphans'
  BY DEF TypeOK, OnlyFailedInitOrphans, Initializing, IdleInv, CallInv, StageInv, TeardownIsOrdered
<1> QED
  BY <1>1, <1>2, <1>3, <1>4, <1>5, <1>6, <1>7, <1>8

\* The decoder thread wakes init().
LEMMA NotifyKeeps ==
  ASSUME IInv, NEW c \in Codecs, Notify(c), ~crashed, UNCHANGED crashed
  PROVE  IInv'
<1> USE DEF IInv, caller, codec, source, Goto, Notify
<1>1. TypeOK'
  BY DEF TypeOK, CallerPc, ThreadPc, Status
<1>2. StageInv'
  BY DEF TypeOK, StageInv
<1>3. CallInv'
  BY DEF TypeOK, CallInv, StageInv
<1>4. IdleInv'
  BY DEF TypeOK, IdleInv, CallInv
<1>5. DistinctInv'
  BY DEF TypeOK, DistinctInv, IdleInv, CallInv
<1>6. BuffersOwned'
  BY DEF TypeOK, BuffersOwned, Holds, DistinctInv, IdleInv, CallInv
<1>7. TeardownIsOrdered'
  BY DEF TypeOK, TeardownIsOrdered, CallInv, StageInv
<1>8. OnlyFailedInitOrphans'
  BY DEF TypeOK, OnlyFailedInitOrphans, Initializing, IdleInv, CallInv, StageInv, TeardownIsOrdered
<1> QED
  BY <1>1, <1>2, <1>3, <1>4, <1>5, <1>6, <1>7, <1>8

\* The decoder thread looks at its flag.
LEMMA LoopKeeps ==
  ASSUME IInv, NEW c \in Codecs, Loop(c), ~crashed, UNCHANGED crashed
  PROVE  IInv'
<1> USE DEF IInv, caller, codec, source, Goto, Loop
<1>1. TypeOK'
  BY DEF TypeOK, CallerPc, ThreadPc, Status
<1>2. StageInv'
  BY DEF TypeOK, StageInv
<1>3. CallInv'
  BY DEF TypeOK, CallInv, StageInv
<1>4. IdleInv'
  BY DEF TypeOK, IdleInv, CallInv
<1>5. DistinctInv'
  BY DEF TypeOK, DistinctInv, IdleInv, CallInv
<1>6. BuffersOwned'
  BY DEF TypeOK, BuffersOwned, Holds, DistinctInv, IdleInv, CallInv
<1>7. TeardownIsOrdered'
  BY DEF TypeOK, TeardownIsOrdered, CallInv, StageInv
<1>8. OnlyFailedInitOrphans'
  BY DEF TypeOK, OnlyFailedInitOrphans, Initializing, IdleInv, CallInv, StageInv, TeardownIsOrdered
<1> QED
  BY <1>1, <1>2, <1>3, <1>4, <1>5, <1>6, <1>7, <1>8

\* OMXCodec asks its source for input.
LEMMA FillKeeps ==
  ASSUME IInv, NEW c \in Codecs, Fill(c), ~crashed, UNCHANGED crashed
  PROVE  IInv'
<1> USE DEF IInv, caller, codec, source, Goto, Fill
<1>1. TypeOK'
  BY DEF TypeOK, CallerPc, ThreadPc, Status
<1>2. StageInv'
  BY DEF TypeOK, StageInv
<1>3. CallInv'
  BY DEF TypeOK, CallInv, StageInv
<1>4. IdleInv'
  BY DEF TypeOK, IdleInv, CallInv
<1>5. DistinctInv'
  BY DEF TypeOK, DistinctInv, IdleInv, CallInv
<1>6. BuffersOwned'
  BY DEF TypeOK, BuffersOwned, Holds, DistinctInv, IdleInv, CallInv
<1>7. TeardownIsOrdered'
  BY DEF TypeOK, TeardownIsOrdered, CallInv, StageInv
<1>8. OnlyFailedInitOrphans'
  BY DEF TypeOK, OnlyFailedInitOrphans, Initializing, IdleInv, CallInv, StageInv, TeardownIsOrdered
<1> QED
  BY <1>1, <1>2, <1>3, <1>4, <1>5, <1>6, <1>7, <1>8

\* nextBuffer() lends the oldest buffer.
LEMMA NextBufferKeeps ==
  ASSUME IInv, NEW c \in Codecs, NextBuffer(c), ~crashed, UNCHANGED crashed
  PROVE  IInv'
<1> USE DEF IInv, caller, codec, source, Goto, NextBuffer
<1>1. TypeOK'
  <2>1. pbuffers[c] # <<>> =>
          Head(pbuffers[c]) \in Buffers /\ Tail(pbuffers[c]) \in Seq(Buffers)
    BY DEF TypeOK
  <2>2. pbuffers' \in [Codecs -> Seq(Buffers)]
    <3>1. pbuffers \in [Codecs -> Seq(Buffers)]
      BY DEF TypeOK
    <3>2. CASE pbuffers[c] = <<>> \/ c \in sourceQuit
      BY <3>1, <3>2
    <3>3. CASE pbuffers[c] # <<>> /\ c \notin sourceQuit
      BY <2>1, <3>1, <3>3
    <3> QED
      BY <3>2, <3>3
  <2>3. lent' \in [Codecs -> SUBSET Buffers]
    <3>1. lent \in [Codecs -> SUBSET Buffers]
      BY DEF TypeOK
    <3>2. CASE pbuffers[c] = <<>> \/ c \in sourceQuit
      BY <3>1, <3>2
    <3>3. CASE pbuffers[c] # <<>> /\ c \notin sourceQuit
      <4>1. lent' = [lent EXCEPT ![c] = @ \cup {Head(pbuffers[c])}]
        BY <3>3
      <4> QED
        BY ONLY <2>1, <3>1, <3>3, <4>1
    <3> QED
      BY <3>2, <3>3
  <2>4. thread' \in [Codecs -> ThreadPc]
    BY DEF TypeOK, ThreadPc
  <2> QED
    BY <2>2, <2>3, <2>4 DEF TypeOK
<1>2. StageInv'
  BY DEF TypeOK, StageInv
<1>3. CallInv'
  BY DEF TypeOK, CallInv, StageInv
<1>4. IdleInv'
  BY DEF TypeOK, IdleInv, CallInv
<1>5. DistinctInv'
  <2>1. CASE pbuffers[c] = <<>> \/ c \in sourceQuit
    BY <2>1 DEF DistinctInv
  <2>2. CASE pbuffers[c] # <<>> /\ c \notin sourceQuit
    <3>1. pbuffers' = [pbuffers EXCEPT ![c] = Tail(@)] /\ buffer' = buffer
      BY <2>2
    <3>2. pbuffers[c] \in Seq(Buffers)
      BY DEF TypeOK
    <3>3. \A i \in 1..Len(Tail(pbuffers[c])) :
            i + 1 \in 1..Len(pbuffers[c]) /\ Tail(pbuffers[c])[i] = pbuffers[c][i + 1]
      BY <2>2, <3>2
    <3> QED
      BY <3>1, <3>2, <3>3 DEF DistinctInv, TypeOK
  <2> QED
    BY <2>1, <2>2
<1>6. BuffersOwned'
  <2>1. CASE pbuffers[c] = <<>> \/ c \in sourceQuit
    BY <2>1 DEF BuffersOwned, Holds, TypeOK
  <2>2. CASE pbuffers[c] # <<>> /\ c \notin sourceQuit
    <3> DEFINE q == pbuffers[c]
    <3>1. /\ pbuffers' = [pbuffers EXCEPT ![c] = Tail(@)]
          /\ lent' = [lent EXCEPT ![c] = @ \cup {Head(q)}]
      BY <2>2
    <3>2. Head(q) \in Elements(q) /\ Head(q) # buffer
      BY <2>2 DEF TypeOK, DistinctInv, Elements
    <3>3. Elements(Tail(q)) = Elements(q) \ {Head(q)}
      BY <2>2, TailElements DEF TypeOK, DistinctInv
    <3>4. \A d \in Codecs \ {c} : Elements(pbuffers[d]) = {} /\ lent[d] = {}
      BY <2>2, EmptyElements DEF IdleInv
    <3>5. Elements(pbuffers'[c]) \cup lent'[c] = Elements(q) \cup lent[c]
      BY <3>1, <3>2, <3>3 DEF TypeOK
    <3>6. \A d \in Codecs \ {c} : pbuffers'[d] = pbuffers[d] /\ lent'[d] = lent[d]
      BY <3>1 DEF TypeOK
    <3>7. \A d \in Codecs : Elements(pbuffers'[d]) \cup lent'[d]
            = Elements(pbuffers[d]) \cup lent[d]
      BY <3>5, <3>6
    <3>8. (Elements(pbuffers'[c]) \cup {buffer}) \cap lent'[c] = {}
      BY <3>1, <3>2, <3>3 DEF BuffersOwned, TypeOK
    <3> QED
      BY <3>2, <3>4, <3>5, <3>6, <3>7, <3>8 DEF BuffersOwned, Holds
  <2> QED
    BY <2>1, <2>2
<1>7. TeardownIsOrdered'
  BY DEF TypeOK, TeardownIsOrdered, CallInv, StageInv
<1>8. OnlyFailedInitOrphans'
  BY DEF TypeOK, OnlyFailedInitOrphans, Initializing, IdleInv, CallInv, StageInv, TeardownIsOrdered
<1> QED
  BY <1>1, <1>2, <1>3, <1>4, <1>5, <1>6, <1>7, <1>8

\* nextBuffer() looks again after a second.
LEMMA WaitTimeoutKeeps ==
  ASSUME IInv, NEW c \in Codecs, WaitTimeout(c), ~crashed, UNCHANGED crashed
  PROVE  IInv'
<1> USE DEF IInv, caller, codec, source, Goto, WaitTimeout
<1>1. TypeOK'
  BY DEF TypeOK, CallerPc, ThreadPc, Status
<1>2. StageInv'
  BY DEF TypeOK, StageInv
<1>3. CallInv'
  BY DEF TypeOK, CallInv, StageInv
<1>4. IdleInv'
  BY DEF TypeOK, IdleInv, CallInv
<1>5. DistinctInv'
  BY DEF TypeOK, DistinctInv, IdleInv, CallInv
<1>6. BuffersOwned'
  BY DEF TypeOK, BuffersOwned, Holds, DistinctInv, IdleInv, CallInv
<1>7. TeardownIsOrdered'
  BY DEF TypeOK, TeardownIsOrdered, CallInv, StageInv
<1>8. OnlyFailedInitOrphans'
  BY DEF TypeOK, OnlyFailedInitOrphans, Initializing, IdleInv, CallInv, StageInv, TeardownIsOrdered
<1> QED
  BY <1>1, <1>2, <1>3, <1>4, <1>5, <1>6, <1>7, <1>8

\* OMXCodec gives one buffer back.
LEMMA ReturnInputKeeps ==
  ASSUME IInv, NEW c \in Codecs, NEW b \in Buffers, ReturnInput(c, b), ~crashed, UNCHANGED crashed
  PROVE  IInv'
<1> USE DEF IInv, caller, codec, source, Goto, ReturnInput
<1>1. TypeOK'
  BY DEF TypeOK, CallerPc, ThreadPc, Status
<1>2. StageInv'
  BY DEF TypeOK, StageInv
<1>3. CallInv'
  BY DEF TypeOK, CallInv, StageInv
<1>4. IdleInv'
  BY DEF TypeOK, IdleInv, CallInv
<1>5. DistinctInv'
  BY DEF TypeOK, DistinctInv, IdleInv, CallInv
<1>6. BuffersOwned'
  BY DEF TypeOK, BuffersOwned, Holds, DistinctInv, IdleInv, CallInv
<1>7. TeardownIsOrdered'
  BY DEF TypeOK, TeardownIsOrdered, CallInv, StageInv
<1>8. OnlyFailedInitOrphans'
  BY DEF TypeOK, OnlyFailedInitOrphans, Initializing, IdleInv, CallInv, StageInv, TeardownIsOrdered
<1> QED
  BY <1>1, <1>2, <1>3, <1>4, <1>5, <1>6, <1>7, <1>8

\* OMXCodec returns a picture.
LEMMA OutputKeeps ==
  ASSUME IInv, NEW c \in Codecs, Output(c), ~crashed, UNCHANGED crashed
  PROVE  IInv'
<1> USE DEF IInv, caller, codec, source, Goto, Output
<1>1. TypeOK'
  BY DEF TypeOK, CallerPc, ThreadPc, Status
<1>2. StageInv'
  BY DEF TypeOK, StageInv
<1>3. CallInv'
  BY DEF TypeOK, CallInv, StageInv
<1>4. IdleInv'
  BY DEF TypeOK, IdleInv, CallInv
<1>5. DistinctInv'
  BY DEF TypeOK, DistinctInv, IdleInv, CallInv
<1>6. BuffersOwned'
  BY DEF TypeOK, BuffersOwned, Holds, DistinctInv, IdleInv, CallInv
<1>7. TeardownIsOrdered'
  BY DEF TypeOK, TeardownIsOrdered, CallInv, StageInv
<1>8. OnlyFailedInitOrphans'
  BY DEF TypeOK, OnlyFailedInitOrphans, Initializing, IdleInv, CallInv, StageInv, TeardownIsOrdered
<1> QED
  BY <1>1, <1>2, <1>3, <1>4, <1>5, <1>6, <1>7, <1>8

\* OMXCodec returns an error.
LEMMA ReadFailsKeeps ==
  ASSUME IInv, NEW c \in Codecs, ReadFails(c), ~crashed, UNCHANGED crashed
  PROVE  IInv'
<1> USE DEF IInv, caller, codec, source, Goto, ReadFails
<1>1. TypeOK'
  BY DEF TypeOK, CallerPc, ThreadPc, Status
<1>2. StageInv'
  BY DEF TypeOK, StageInv
<1>3. CallInv'
  BY DEF TypeOK, CallInv, StageInv
<1>4. IdleInv'
  BY DEF TypeOK, IdleInv, CallInv
<1>5. DistinctInv'
  BY DEF TypeOK, DistinctInv, IdleInv, CallInv
<1>6. BuffersOwned'
  BY DEF TypeOK, BuffersOwned, Holds, DistinctInv, IdleInv, CallInv
<1>7. TeardownIsOrdered'
  BY DEF TypeOK, TeardownIsOrdered, CallInv, StageInv
<1>8. OnlyFailedInitOrphans'
  BY DEF TypeOK, OnlyFailedInitOrphans, Initializing, IdleInv, CallInv, StageInv, TeardownIsOrdered
<1> QED
  BY <1>1, <1>2, <1>3, <1>4, <1>5, <1>6, <1>7, <1>8

\* The picture is drawn.
LEMMA RenderKeeps ==
  ASSUME IInv, NEW c \in Codecs, Render(c), ~crashed, UNCHANGED crashed
  PROVE  IInv'
<1> USE DEF IInv, caller, codec, source, Goto, Render
<1>1. TypeOK'
  BY DEF TypeOK, CallerPc, ThreadPc, Status
<1>2. StageInv'
  BY DEF TypeOK, StageInv
<1>3. CallInv'
  BY DEF TypeOK, CallInv, StageInv
<1>4. IdleInv'
  BY DEF TypeOK, IdleInv, CallInv
<1>5. DistinctInv'
  BY DEF TypeOK, DistinctInv, IdleInv, CallInv
<1>6. BuffersOwned'
  BY DEF TypeOK, BuffersOwned, Holds, DistinctInv, IdleInv, CallInv
<1>7. TeardownIsOrdered'
  BY DEF TypeOK, TeardownIsOrdered, CallInv, StageInv
<1>8. OnlyFailedInitOrphans'
  BY DEF TypeOK, OnlyFailedInitOrphans, Initializing, IdleInv, CallInv, StageInv, TeardownIsOrdered
<1> QED
  BY <1>1, <1>2, <1>3, <1>4, <1>5, <1>6, <1>7, <1>8

\* OMXCodec gives all its buffers back.
LEMMA StopDecoderKeeps ==
  ASSUME IInv, NEW c \in Codecs, StopDecoder(c), ~crashed, UNCHANGED crashed
  PROVE  IInv'
<1> USE DEF IInv, caller, codec, source, Goto, StopDecoder
<1>1. TypeOK'
  BY DEF TypeOK, CallerPc, ThreadPc, Status
<1>2. StageInv'
  BY DEF TypeOK, StageInv
<1>3. CallInv'
  BY DEF TypeOK, CallInv, StageInv
<1>4. IdleInv'
  BY DEF TypeOK, IdleInv, CallInv
<1>5. DistinctInv'
  BY DEF TypeOK, DistinctInv, IdleInv, CallInv
<1>6. BuffersOwned'
  BY DEF TypeOK, BuffersOwned, Holds, DistinctInv, IdleInv, CallInv
<1>7. TeardownIsOrdered'
  BY DEF TypeOK, TeardownIsOrdered, CallInv, StageInv
<1>8. OnlyFailedInitOrphans'
  BY DEF TypeOK, OnlyFailedInitOrphans, Initializing, IdleInv, CallInv, StageInv, TeardownIsOrdered
<1> QED
  BY <1>1, <1>2, <1>3, <1>4, <1>5, <1>6, <1>7, <1>8

\* There is no decoder: the process crashes while the caller is inside init().
LEMMA NullCodecKeeps ==
  ASSUME IInv, NEW c \in Codecs, NullCodec(c), ~crashed
  PROVE  IInv'
<1> USE DEF IInv, caller, codec, source, NullCodec
<1>1. TypeOK'
  BY DEF TypeOK, Status
<1>2. c \in live /\ status[c] = "unset"
  BY DEF TypeOK, StageInv, TeardownIsOrdered
<1>3. c = cur /\ Initializing
  BY <1>2 DEF OnlyFailedInitOrphans, CallInv, StageInv, Initializing, TypeOK, CallerPc
<1>4. StageInv' /\ IdleInv' /\ DistinctInv' /\ TeardownIsOrdered'
  BY DEF TypeOK, StageInv, IdleInv, DistinctInv, TeardownIsOrdered
<1>5. CallInv'
  BY <1>3 DEF TypeOK, CallInv, Initializing
<1>6. BuffersOwned'
  BY DEF BuffersOwned, Holds
<1>7. OnlyFailedInitOrphans'
  BY <1>2, <1>3 DEF OnlyFailedInitOrphans, Initializing, TypeOK
<1> QED
  BY <1>1, <1>4, <1>5, <1>6, <1>7

\* The process crashes: nothing else changes.
LEMMA NullDecoderKeeps ==
  ASSUME IInv, NEW c \in Codecs, NullDecoder(c), ~crashed
  PROVE  IInv'
<1> USE DEF IInv, caller, codec, source, NullDecoder
<1>1. TypeOK' /\ StageInv' /\ CallInv' /\ IdleInv' /\ DistinctInv' /\ TeardownIsOrdered'
  BY DEF TypeOK, StageInv, CallInv, IdleInv, DistinctInv, TeardownIsOrdered
<1>2. BuffersOwned'
  BY DEF BuffersOwned, Holds
<1>3. OnlyFailedInitOrphans'
  BY DEF OnlyFailedInitOrphans, TeardownIsOrdered
<1> QED
  BY <1>1, <1>2, <1>3

\* A step that leaves the variables alone keeps the invariant.
LEMMA StutterKeeps == ASSUME IInv, UNCHANGED vars PROVE IInv'
<1> USE DEF IInv, vars, caller, codec, source
<1>1. TypeOK' /\ StageInv' /\ CallInv' /\ IdleInv' /\ DistinctInv'
  BY DEF TypeOK, StageInv, CallInv, IdleInv, DistinctInv
<1>2. BuffersOwned' /\ TeardownIsOrdered' /\ OnlyFailedInitOrphans'
  BY DEF BuffersOwned, Holds, TeardownIsOrdered, OnlyFailedInitOrphans, Initializing
<1> QED
  BY <1>1, <1>2

\* The invariant is inductive.
LEMMA Inductive == IInv /\ [Next]_vars => IInv'
<1> SUFFICES ASSUME IInv, [Next]_vars PROVE IInv'
  OBVIOUS
<1>1. CASE ~crashed /\ CallerStep /\ UNCHANGED crashed
  BY <1>1, CreateKeeps, AwaitInitKeeps, InitReturnsKeeps, AllocateKeeps, QueueBufferKeeps,
     ShutdownKeeps, StopSourceKeeps, JoinKeeps, ReleaseWindowKeeps, DeleteKeeps
     DEF CallerStep, Calls, CallGoesOn
<1>2. ASSUME NEW c \in Codecs, DecoderThread(c), ~crashed, UNCHANGED crashed
      PROVE  IInv'
  BY <1>2, SetupKeeps, SetInitializedKeeps, NotifyKeeps, LoopKeeps, FillKeeps,
     NextBufferKeeps, WaitTimeoutKeeps, ReturnInputKeeps, OutputKeeps, ReadFailsKeeps,
     RenderKeeps, StopDecoderKeeps DEF DecoderThread
<1>3. ASSUME NEW c \in Codecs, NullCodec(c) \/ NullDecoder(c), ~crashed
      PROVE  IInv'
  BY <1>3, NullCodecKeeps, NullDecoderKeeps
<1>4. CASE UNCHANGED vars
  BY <1>4, StutterKeeps
<1> QED
  BY <1>1, <1>2, <1>3, <1>4 DEF Next

LEMMA AlwaysIInv == Spec => []IInv
<1> QED
  BY InitInv, Inductive, PTL DEF Spec

(***************************************************************************)
(* Theorems.                                                               *)
(***************************************************************************)

\* Every variable keeps its type, and the caller's place says which codec and
\* which buffer it holds (OMXVideoCodec, the JNI layer).
THEOREM TypeCorrect == Spec => []TypeOK
<1>1. IInv => TypeOK
  BY DEF IInv
<1> QED
  BY AlwaysIInv, <1>1, PTL

\* No MediaBuffer leaks or is freed while the queue, OMXCodec or the caller has
\* it, whatever number of codecs comes and goes (OMXSource).
THEOREM BuffersSafe == Spec => []BuffersOwned
<1>1. IInv => BuffersOwned
  BY DEF IInv
<1> QED
  BY AlwaysIInv, <1>1, PTL

\* Nothing a running decoder thread uses is deleted or released under it
\* (OMXVideoCodec::shutdown).
THEOREM TeardownSafe == Spec => []TeardownIsOrdered
<1>1. IInv => TeardownIsOrdered
  BY DEF IInv
<1> QED
  BY AlwaysIInv, <1>1, PTL

\* A codec left behind is one whose init() failed (CarlinkitVideoRenderer.start).
THEOREM OrphansAreFailed == Spec => []OnlyFailedInitOrphans
<1>1. IInv => OnlyFailedInitOrphans
  BY DEF IInv
<1> QED
  BY AlwaysIInv, <1>1, PTL

(***************************************************************************)
(* OmxCodec implements FrameFeed.                                          *)
(***************************************************************************)
Waiting == IF cur = NoCodec THEN <<>> ELSE pbuffers[cur]
Decoding == UNION {lent[c] : c \in Codecs}

FeedStep == Feed!Next \/ UNCHANGED Feed!vars

\* A step that touches no frame and opens or closes nothing is a stutter.
LEMMA FeedStutters ==
  ASSUME Feeding' = Feeding, Waiting' = Waiting, lent' = lent
  PROVE  FeedStep
BY DEF FeedStep, Feed!vars, Waiting

\* A step that leaves the caller alone and what belongs to the frames.
LEMMA OtherStepStutters ==
  ASSUME pc' = pc, cur' = cur, sourceQuit' = sourceQuit, pbuffers' = pbuffers, lent' = lent
  PROVE  FeedStep
BY FeedStutters DEF Feeding, Waiting

\* What the caller does is a stutter, an Open, a Put or a Close.
LEMMA CallerFeeds ==
  ASSUME IInv, CallerStep
  PROVE  FeedStep
<1> USE DEF IInv, caller, codec, source
<1>1. ASSUME NEW c \in Codecs, Create(c) PROVE FeedStep
  <2>1. ~Feeding /\ ~Feeding'
    BY <1>1 DEF Create, Feeding
  <2>2. Waiting = <<>> /\ Waiting' = <<>>
    BY <1>1 DEF Create, Waiting, IdleInv
  <2> QED
    BY <1>1, <2>1, <2>2, FeedStutters DEF Create, Feeding
<1>2. CASE AwaitInit
  BY <1>2, FeedStutters DEF AwaitInit, Feeding, Waiting
<1>3. CASE InitReturns
  <2>1. Waiting = <<>> /\ Waiting' = <<>> /\ ~Feeding
    BY <1>3 DEF InitReturns, Waiting, CallInv, TypeOK, Feeding
  <2>2. \A c \in Codecs : lent[c] = {}
    BY <1>3 DEF InitReturns, CallInv, IdleInv, TypeOK
  <2>3. CASE Feeding'
    BY <1>3, <2>1, <2>2, <2>3 DEF InitReturns, FeedStep, Feed!Next, Feed!Open, Waiting
  <2>4. CASE ~Feeding'
    BY <1>3, <2>1, <2>4, FeedStutters DEF InitReturns, Feeding
  <2> QED
    BY <2>3, <2>4
<1>4. ASSUME NEW b \in Buffers, Allocate(b) PROVE FeedStep
  BY <1>4, FeedStutters DEF Allocate, Feeding, Waiting
<1>5. CASE QueueBuffer
  <2>1. /\ cur \in Codecs /\ cur \notin sourceQuit /\ buffer \in Buffers
        /\ pbuffers' = [pbuffers EXCEPT ![cur] = Append(@, buffer)]
    BY <1>5 DEF QueueBuffer, CallInv, TypeOK
  <2>2. Feeding /\ Feeding'
    BY <1>5, <2>1 DEF QueueBuffer, Feeding
  <2>3. Waiting' = Append(Waiting, buffer)
    BY <1>5, <2>1 DEF QueueBuffer, Waiting, TypeOK
  <2>4. /\ \A i \in 1..Len(Waiting) : Waiting[i] # buffer
        /\ buffer \notin Decoding
    BY <2>1 DEF Waiting, Decoding, DistinctInv, BuffersOwned
  <2>5. Feed!Put(buffer)
    BY <1>5, <2>2, <2>3, <2>4 DEF QueueBuffer, Feed!Put, Waiting, Decoding
  <2> QED
    BY <2>1, <2>5 DEF FeedStep, Feed!Next
<1>6. CASE Shutdown
  BY <1>6, FeedStutters DEF Shutdown, Feeding, Waiting, CallInv
<1>7. CASE StopSource
  <2>1. cur \in Codecs /\ cur \notin sourceQuit /\ sourceQuit' = sourceQuit \cup {cur}
    BY <1>7 DEF StopSource, SourceStop, CallInv, TypeOK
  <2>2. Feeding /\ ~Feeding'
    BY <1>7, <2>1 DEF StopSource, Feeding
  <2>3. Waiting' = <<>>
    BY <1>7, <2>1 DEF StopSource, SourceStop, Waiting, TypeOK
  <2>4. Feed!Close
    BY <1>7, <2>2, <2>3 DEF StopSource, Feed!Close, Waiting
  <2> QED
    BY <2>4 DEF FeedStep, Feed!Next
<1>8. CASE Join
  BY <1>8, FeedStutters DEF Join, Feeding, Waiting
<1>9. CASE ReleaseWindow
  BY <1>9, FeedStutters DEF ReleaseWindow, Feeding, Waiting
<1>10. CASE Delete
  <2>1. ~Feeding /\ ~Feeding'
    BY <1>10 DEF Delete, Feeding, CallInv
  <2>2. Waiting = <<>> /\ Waiting' = <<>>
    BY <1>10 DEF Delete, Waiting, CallInv, TypeOK
  <2> QED
    BY <1>10, <2>1, <2>2, FeedStutters DEF Delete, Feeding
<1> QED
  BY <1>1, <1>2, <1>3, <1>4, <1>5, <1>6, <1>7, <1>8, <1>9, <1>10
     DEF CallerStep, Calls, CallGoesOn

\* What a decoder thread does is a stutter, a Decode or a GiveBack.
LEMMA DecoderFeeds ==
  ASSUME IInv, NEW c \in Codecs, DecoderThread(c)
  PROVE  FeedStep
<1> USE DEF IInv, caller, codec, source
<1>1. CASE Setup(c) \/ SetInitialized(c) \/ Loop(c) \/ Fill(c) \/ WaitTimeout(c)
           \/ Output(c) \/ ReadFails(c) \/ Render(c)
  BY <1>1, OtherStepStutters
     DEF Setup, SetInitialized, Loop, Fill, WaitTimeout, Output, ReadFails, Render
<1>2. CASE Notify(c)
  BY <1>2, FeedStutters DEF Notify, Feeding, Waiting
<1>3. CASE NextBuffer(c)
  <2>1. CASE pbuffers[c] = <<>> \/ c \in sourceQuit
    BY <1>3, <2>1, OtherStepStutters DEF NextBuffer
  <2>2. CASE pbuffers[c] # <<>> /\ c \notin sourceQuit
    <3>1. c = cur /\ cur # NoCodec
      BY <2>2 DEF IdleInv
    <3>2. Feeding /\ Feeding'
      BY <1>3, <2>2, <3>1 DEF NextBuffer, Feeding, CallInv
    <3>3. Waiting = pbuffers[c] /\ Waiting' = Tail(Waiting)
      BY <1>3, <2>2, <3>1 DEF NextBuffer, Waiting, TypeOK
    <3>4. Decoding' = Decoding \cup {Head(Waiting)}
      <4>1. lent' = [lent EXCEPT ![c] = @ \cup {Head(Waiting)}]
        BY <1>3, <2>2, <3>3 DEF NextBuffer
      <4> QED
        BY <4>1 DEF Decoding, TypeOK
    <3>5. Feed!Decode
      BY <2>2, <3>2, <3>3, <3>4 DEF Feed!Decode, Waiting, Decoding
    <3> QED
      BY <3>5 DEF FeedStep, Feed!Next
  <2> QED
    BY <2>1, <2>2
<1>4. ASSUME NEW b \in Buffers, ReturnInput(c, b) PROVE FeedStep
  <2>1. Feeding' = Feeding /\ Waiting' = Waiting
    BY <1>4 DEF ReturnInput, Feeding, Waiting
  <2>2. Decoding' \subseteq Decoding
    BY <1>4 DEF ReturnInput, Decoding, TypeOK
  <2>3. Feed!GiveBack
    BY <2>1, <2>2 DEF Feed!GiveBack, Waiting, Decoding
  <2> QED
    BY <2>3 DEF FeedStep, Feed!Next
<1>5. CASE StopDecoder(c)
  <2>1. Feeding' = Feeding /\ Waiting' = Waiting
    BY <1>5 DEF StopDecoder, Goto, Feeding, Waiting
  <2>2. Decoding' \subseteq Decoding
    BY <1>5 DEF StopDecoder, Decoding, TypeOK
  <2>3. Feed!GiveBack
    BY <2>1, <2>2 DEF Feed!GiveBack, Waiting, Decoding
  <2> QED
    BY <2>3 DEF FeedStep, Feed!Next
<1> QED
  BY <1>1, <1>2, <1>3, <1>4, <1>5 DEF DecoderThread

\* The native video path keeps its promise to the renderer: frames are decoded
\* in the order they were queued and once, none after shutdown() stopped the
\* source, and no new feed opens before the last gave its frames back.
THEOREM ImplementsFeed == Spec => FeedsInOrder
<1>1. Init => Feed!Init
  BY DEF Init, Feed!Init, Feeding
<1>2. IInv /\ [Next]_vars => [Feed!Next]_(Feed!vars)
  <2> SUFFICES ASSUME IInv, [Next]_vars PROVE FeedStep
    BY DEF FeedStep
  <2>1. CASE CallerStep
    BY <2>1, CallerFeeds
  <2>2. ASSUME NEW c \in Codecs, DecoderThread(c) PROVE FeedStep
    BY <2>2, DecoderFeeds
  <2>3. ASSUME NEW c \in Codecs, NullCodec(c) \/ NullDecoder(c) PROVE FeedStep
    BY <2>3, OtherStepStutters DEF NullCodec, NullDecoder, caller, source
  <2>4. CASE UNCHANGED vars
    BY <2>4, OtherStepStutters DEF vars, caller, source
  <2> QED
    BY <2>1, <2>2, <2>3, <2>4 DEF Next
<1> QED
  BY AlwaysIInv, <1>1, <1>2, PTL DEF Spec, FeedsInOrder, Feed!Spec

(***************************************************************************)
(* Sleeping and waking up.                                                 *)
(***************************************************************************)

\* A thread that is past its setup has said so.
SaidInv == \A c \in live : thread[c] \notin {"start", "ready"} => c \in initialized

Awake == SaidInv /\ NoLostWakeup

\* The caller neither leaves a sleeper behind nor goes to sleep too late.
LEMMA CallerKeepsAwake ==
  ASSUME IInv, Awake, CallerStep
  PROVE  Awake'
<1> USE DEF IInv, caller, codec, source, Awake, SaidInv, NoLostWakeup, TypeOK
<1>1. ASSUME NEW c \in Codecs, Create(c) PROVE Awake'
  BY <1>1 DEF Create, CallInv
<1>2. CASE AwaitInit
  BY <1>2 DEF AwaitInit, CallInv, StageInv
<1>3. CASE InitReturns
  BY <1>3 DEF InitReturns
<1>4. ASSUME NEW b \in Buffers, Allocate(b) PROVE Awake'
  BY <1>4 DEF Allocate
<1>5. CASE QueueBuffer
  BY <1>5 DEF QueueBuffer, Woken
<1>6. CASE Shutdown
  BY <1>6 DEF Shutdown
<1>7. CASE StopSource
  <2>1. cur \in live /\ cur \in Codecs /\ thread \in [Codecs -> ThreadPc]
        /\ cur \in initialized /\ cur \notin sourceQuit
    BY <1>7 DEF StopSource, CallInv
  <2>2. thread[cur] \notin {"none", "start", "ready"}
    BY <2>1 DEF StageInv
  <2>3. /\ thread' = [thread EXCEPT ![cur] = IF @ = "waiting" THEN "next" ELSE @]
        /\ pbuffers' = [pbuffers EXCEPT ![cur] = <<>>]
        /\ sourceQuit' = sourceQuit \cup {cur} /\ UNCHANGED <<cur, live, initialized>>
        /\ pc' = "join"
    BY <1>7, <2>1 DEF StopSource, SourceStop, Woken
  <2> QED
    BY <2>1, <2>2, <2>3
<1>8. CASE Join \/ ReleaseWindow
  BY <1>8 DEF Join, ReleaseWindow
<1>9. CASE Delete
  BY <1>9 DEF Delete, CallInv
<1> QED
  BY <1>1, <1>2, <1>3, <1>4, <1>5, <1>6, <1>7, <1>8, <1>9
     DEF CallerStep, Calls, CallGoesOn

\* Nor does the decoder thread.
LEMMA DecoderKeepsAwake ==
  ASSUME IInv, Awake, NEW c \in Codecs, DecoderThread(c)
  PROVE  Awake'
<1>0. /\ thread \in [Codecs -> ThreadPc] /\ pbuffers \in [Codecs -> Seq(Buffers)]
      /\ live \subseteq Codecs
      /\ pc \in {"waiting", "join"} => cur \in Codecs
      /\ pc = "join" => cur \in sourceQuit
  BY DEF IInv, TypeOK, CallInv
<1> USE <1>0 DEF caller, codec, source, Awake, SaidInv, NoLostWakeup, Goto
<1>1. CASE Setup(c) \/ SetInitialized(c)
  BY <1>1 DEF Setup, SetInitialized
<1>2. CASE Notify(c)
  BY <1>2 DEF Notify
<1>3. CASE Loop(c) \/ Fill(c)
  BY <1>3 DEF Loop, Fill
<1>4. CASE NextBuffer(c)
  BY <1>4 DEF NextBuffer
<1>5. CASE WaitTimeout(c) \/ Output(c) \/ ReadFails(c) \/ Render(c)
  BY <1>5 DEF WaitTimeout, Output, ReadFails, Render
<1>6. ASSUME NEW b \in Buffers, ReturnInput(c, b) PROVE Awake'
  BY <1>6 DEF ReturnInput
<1>7. CASE StopDecoder(c)
  BY <1>7 DEF StopDecoder
<1> QED
  BY <1>1, <1>2, <1>3, <1>4, <1>5, <1>6, <1>7 DEF DecoderThread

\* Nobody sleeps through what he waits for: no notification of init(), of a frame
\* or of the end of the source falls between a look at the state and the sleep
\* (OMXVideoCodec::init, OMXSource::nextBuffer, queueBuffer, stop).
THEOREM SleepersAreWoken == Spec => []NoLostWakeup
<1>1. Init => Awake
  BY DEF Init, Awake, SaidInv, NoLostWakeup
<1>2. IInv /\ Awake /\ [Next]_vars => Awake'
  <2> SUFFICES ASSUME IInv, Awake, [Next]_vars PROVE Awake'
    OBVIOUS
  <2>1. CASE CallerStep
    BY <2>1, CallerKeepsAwake
  <2>2. ASSUME NEW c \in Codecs, DecoderThread(c) PROVE Awake'
    BY <2>2, DecoderKeepsAwake
  <2>3. ASSUME NEW c \in Codecs, NullCodec(c) \/ NullDecoder(c) PROVE Awake'
    BY <2>3 DEF NullCodec, NullDecoder, caller, codec, source, Awake, SaidInv, NoLostWakeup
  <2>4. CASE UNCHANGED vars
    BY <2>4 DEF vars, caller, codec, source, Awake, SaidInv, NoLostWakeup
  <2> QED
    BY <2>1, <2>2, <2>3, <2>4 DEF Next
<1>3. Awake => NoLostWakeup
  BY DEF Awake
<1> QED
  BY AlwaysIInv, <1>1, <1>2, <1>3, PTL DEF Spec

\* A decoder thread that init() or shutdown() waits for cannot go round for ever.
THEOREM ThreadsGetNearer == Spec => ThreadNears
<1> DEFINE A == \A c \in Codecs :
                  DecoderThread(c) /\ (\/ thread[c] \in {"start", "ready", "notify"}
                                       \/ c \in quit /\ c \in sourceQuit)
                    => Nearer(c)
<1>1. ASSUME IInv PROVE A
  <2> SUFFICES ASSUME NEW c \in Codecs, DecoderThread(c),
                      \/ thread[c] \in {"start", "ready", "notify"}
                      \/ c \in quit /\ c \in sourceQuit
               PROVE  Nearer(c)
    OBVIOUS
  <2> USE <1>1 DEF IInv, TypeOK, Goto, Distance
  <2>1. CASE Setup(c) \/ SetInitialized(c) \/ Notify(c)
    BY <2>1 DEF Setup, SetInitialized, Notify, Nearer
  <2>2. CASE Loop(c) \/ Fill(c) \/ WaitTimeout(c)
    BY <2>2 DEF Loop, Fill, WaitTimeout, Nearer
  <2>3. CASE NextBuffer(c)
    BY <2>3 DEF NextBuffer, Nearer
  <2>4. CASE Output(c) \/ ReadFails(c) \/ Render(c) \/ StopDecoder(c)
    BY <2>4 DEF Output, ReadFails, Render, StopDecoder, Nearer
  <2>5. ASSUME NEW b \in Buffers, ReturnInput(c, b) PROVE Nearer(c)
    <3>1. lent'[c] = lent[c] \ {b} /\ b \in lent[c] /\ thread' = thread
      BY <2>5 DEF ReturnInput
    <3> QED
      BY <3>1 DEF Nearer
  <2> QED
    BY <2>1, <2>2, <2>3, <2>4, <2>5 DEF DecoderThread
<1> HIDE DEF A
<1>2. IInv => [A]_vars
  BY <1>1
<1>3. Spec => [][A]_vars
  BY AlwaysIInv, <1>2, PTL
<1> QED
  BY <1>3 DEF ThreadNears, A

\* There is an end to giving back: the buffers that are lent are finitely many.
LEMMA LentIsFinite == Spec => [](\A c \in Codecs : IsFiniteSet(lent[c]))
<1> DEFINE Finite == \A c \in Codecs : IsFiniteSet(lent[c])
           HeapFinite == IsFiniteSet(heap)
<1>1. Init => HeapFinite
  BY FS_EmptySet DEF Init
<1>2. HeapFinite /\ [Next]_vars => HeapFinite'
  <2> SUFFICES ASSUME HeapFinite, [Next]_vars PROVE HeapFinite'
    OBVIOUS
  <2>1. heap' \subseteq heap \/ \E b : heap' = heap \cup {b}
    BY DEF Next, CallerStep, Calls, CallGoesOn, DecoderThread, Create, AwaitInit,
           InitReturns, Allocate, QueueBuffer, Shutdown, StopSource, SourceStop, Join,
           ReleaseWindow, Delete, Setup, SetInitialized, Notify, Loop, Fill, NextBuffer,
           WaitTimeout, ReturnInput, Output, ReadFails, Render, StopDecoder, NullCodec,
           NullDecoder, vars
  <2> QED
    BY <2>1, FS_Subset, FS_AddElement
<1>3. IInv /\ HeapFinite => Finite
  <2> SUFFICES ASSUME IInv, HeapFinite PROVE \A c \in Codecs : IsFiniteSet(lent[c])
    OBVIOUS
  <2>1. \A c \in Codecs : lent[c] \subseteq heap
    BY DEF IInv, TypeOK, BuffersOwned, Holds
  <2> QED
    BY <2>1, FS_Subset
<1> HIDE DEF Finite, HeapFinite
<1>4. Spec => []Finite
  BY AlwaysIInv, <1>1, <1>2, <1>3, PTL DEF Spec
<1> QED
  BY <1>4 DEF Finite
=============================================================================
