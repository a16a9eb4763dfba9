-------------------------- MODULE SessionReadProofs --------------------------
(***************************************************************************)
(* HandleRead keeps one read chain and posts what the client sent, for     *)
(* every finite set of threads, every stream and every way to cut it.      *)
(*                                                                         *)
(* OneReadChain is inductive with the types of the variables it counts:    *)
(* a thread that is in the loop is the whole chain, so nothing is armed,   *)
(* and each branch hands the chain on exactly once or ends it. This holds  *)
(* with a strand and without one.                                          *)
(*                                                                         *)
(* FramesExact is about the bytes, until two handlers overlap. What has    *)
(* been stored, what the running handler still holds and what has not been *)
(* read yet are together the bytes of the frames not posted (NothingLost). *)
(* When the head is complete, its bytes can only be those of the next      *)
(* frame, and the body that follows is cut off at that frame's length.     *)
(* From the same invariant, each step is one of FrameReader or not seen.   *)
(***************************************************************************)
EXTENDS SessionRead, TLAPS, FiniteSetTheorems, SequenceTheorems, WellFoundedInduction

(* The variables OneReadChain counts; the buffers play no part in it.       *)
ChainType ==
  /\ armed \in Nat
  /\ pc \in [Threads -> {"idle", "loop", "set_flag"}]
  /\ over \in BOOLEAN

IInv == ChainType /\ OneReadChain

Running == {t \in Threads : InLoop(t)}

(* The set of running loops is finite, so its size is a number.             *)
LEMMA RunningFinite ==
  ASSUME ChainType
  PROVE  IsFiniteSet(Running) /\ Cardinality(Running) \in Nat
<1>1. IsFiniteSet(Running)
  BY SessionReadAssumption, FS_Subset DEF Running, SessionReadAssumption
<1> QED
  BY <1>1, FS_CardinalityType

(* A completion (an idle thread enters the loop) adds one running loop.     *)
LEMMA EnterLoop ==
  ASSUME ChainType, NEW t \in Threads, pc[t] = "idle",
         pc' = [pc EXCEPT ![t] = "loop"]
  PROVE  Cardinality(Running') = Cardinality(Running) + 1
<1>1. Running' = Running \cup {t} /\ t \notin Running
  BY DEF ChainType, Running, InLoop
<1> QED
  BY <1>1, RunningFinite, FS_AddElement

(* A branch that returns takes its loop away.                               *)
LEMMA LeaveLoop ==
  ASSUME ChainType, NEW t \in Threads, pc[t] = "loop",
         NEW to \in {"idle", "set_flag"}, pc' = [pc EXCEPT ![t] = to]
  PROVE  /\ Cardinality(Running') = Cardinality(Running) - 1
         /\ Cardinality(Running) >= 1
<1>1. Running' = Running \ {t} /\ t \in Running
  BY DEF ChainType, Running, InLoop
<1>2. Cardinality(Running \ {t}) = Cardinality(Running) - 1
  BY <1>1, RunningFinite, FS_RemoveElement
<1>3. Cardinality(Running) # 0
  BY <1>1, RunningFinite, FS_EmptySet
<1> QED
  BY <1>1, <1>2, <1>3, RunningFinite

(* A step that leaves everybody in or out of the loop keeps the count.      *)
LEMMA LoopsUnchanged ==
  ASSUME ChainType, \A t \in Threads : InLoop(t) <=> InLoop(t)'
  PROVE  Running' = Running
BY DEF Running

(* A branch that re-arms and returns passes the chain on to the new read.   *)
LEMMA ReArmKeepsChain ==
  ASSUME IInv, NEW t \in Threads, InLoop(t), NEW to \in {"idle", "set_flag"},
         ReArm(t, to), over' = over
  PROVE  IInv'
<1>1. ChainType'
  BY DEF IInv, ChainType, ReArm
<1>2. Cardinality(Running') = Cardinality(Running) - 1
  BY LeaveLoop DEF IInv, InLoop, ReArm
<1>3. armed + Cardinality(Running) = armed' + Cardinality(Running')
  BY <1>2, RunningFinite DEF IInv, ChainType, ReArm
<1> QED
  BY <1>1, <1>3 DEF IInv, OneReadChain, Running

(* A branch that ends the session takes the chain with it.                  *)
LEMMA EndOfChain ==
  ASSUME IInv, NEW t \in Threads, InLoop(t),
         pc' = [pc EXCEPT ![t] = "idle"], over' = TRUE, armed' = armed
  PROVE  IInv'
<1>1. ChainType'
  BY DEF IInv, ChainType
<1>2. Cardinality(Running') = Cardinality(Running) - 1 /\ Cardinality(Running) >= 1
  BY LeaveLoop DEF IInv, InLoop
<1>3. armed + Cardinality(Running) = 1
  BY <1>2, RunningFinite DEF IInv, ChainType, OneReadChain, Running
<1>4. armed' + Cardinality(Running') = 0
  BY <1>2, <1>3, RunningFinite DEF IInv, ChainType
<1> QED
  BY <1>1, <1>4 DEF IInv, OneReadChain, Running

(* Posting goes on in the loop, or reads again when no bytes are left.      *)
LEMMA PostKeepsChain ==
  ASSUME IInv, NEW t \in Threads, InLoop(t), NEW message, NEW rest,
         PostAndGoOn(t, message, rest)
  PROVE  IInv'
<1>1. CASE rest = <<>>
  BY <1>1, ReArmKeepsChain DEF PostAndGoOn
<1>2. CASE rest # <<>>
  <2>1. UNCHANGED <<armed, pc, over>>
    BY <1>2 DEF PostAndGoOn
  <2> QED
    BY <2>1 DEF IInv, ChainType, OneReadChain, InLoop
<1> QED
  BY <1>1, <1>2

LEMMA ChainInit == Init => IInv
<1> SUFFICES ASSUME Init PROVE IInv
  OBVIOUS
<1>1. ChainType
  BY DEF Init, ChainType
<1>2. {t \in Threads : InLoop(t)} = {}
  BY DEF Init, InLoop
<1>3. Cardinality({t \in Threads : InLoop(t)}) = 0
  BY <1>2, FS_EmptySet
<1> QED
  BY <1>1, <1>3 DEF IInv, OneReadChain, Init

LEMMA ChainStep == IInv /\ [Next]_vars => IInv'
<1> SUFFICES ASSUME IInv, [Next]_vars PROVE IInv'
  OBVIOUS
<1>1. ASSUME NEW t \in Threads, ReadCompletes(t) PROVE IInv'
  <2>1. ChainType'
    BY <1>1 DEF IInv, ChainType, ReadCompletes
  <2>2. Cardinality(Running') = Cardinality(Running) + 1
    BY <1>1, EnterLoop DEF IInv, ReadCompletes
  <2>3. armed + Cardinality(Running) = armed' + Cardinality(Running')
    BY <1>1, <2>2, RunningFinite DEF IInv, ChainType, ReadCompletes
  <2>4. over' = over
    BY <1>1 DEF ReadCompletes
  <2> QED
    BY <2>1, <2>3, <2>4 DEF IInv, OneReadChain, Running
<1>2. ASSUME NEW t \in Threads, ReadFails(t) PROVE IInv'
  <2>1. ChainType' /\ over' = TRUE /\ armed' = armed - 1 /\ armed >= 1
    BY <1>2 DEF IInv, ChainType, ReadFails
  <2>2. Running' = Running
    BY <1>2, LoopsUnchanged DEF IInv, ReadFails, InLoop
  <2>3. armed + Cardinality(Running) = 1
    BY <2>1, RunningFinite DEF IInv, ChainType, OneReadChain, Running
  <2>4. armed' + Cardinality(Running') = 0
    BY <2>1, <2>2, <2>3, RunningFinite DEF IInv, ChainType
  <2> QED
    BY <2>1, <2>4 DEF IInv, OneReadChain, Running
<1>3. ASSUME NEW t \in Threads, PartialHead(t) PROVE IInv'
  BY <1>3, ReArmKeepsChain DEF PartialHead
<1>4. ASSUME NEW t \in Threads, RejectHeader(t) PROVE IInv'
  BY <1>4, EndOfChain DEF RejectHeader, HeadComplete
<1>5. ASSUME NEW t \in Threads, AllocationThrows(t) PROVE IInv'
  BY <1>5, EndOfChain DEF AllocationThrows, HeadComplete
<1>6. ASSUME NEW t \in Threads, PartialBody(t) PROVE IInv'
  BY <1>6, ReArmKeepsChain DEF PartialBody, HeadComplete
<1>7. ASSUME NEW t \in Threads, SetFlag(t) PROVE IInv'
  <2>1. UNCHANGED <<armed, over>> /\ ChainType'
    BY <1>7 DEF IInv, ChainType, SetFlag
  <2>2. Running' = Running
    BY <1>7, LoopsUnchanged DEF IInv, ChainType, SetFlag, InLoop
  <2> QED
    BY <2>1, <2>2 DEF IInv, OneReadChain, Running
<1>8. ASSUME NEW t \in Threads, WholeBody(t) PROVE IInv'
  <2>1. PICK h \in Header(WholeHead(t)) :
          PostAndGoOn(t, [id |-> h.id, len |-> h.len, data |-> SubSeq(AfterHead(t), 1, h.len)],
                         Rest(AfterHead(t), h.len))
    BY <1>8 DEF WholeBody
  <2> QED
    BY <1>8, <2>1, PostKeepsChain DEF WholeBody, HeadComplete
<1>9. ASSUME NEW t \in Threads, MoreBody(t) PROVE IInv'
  BY <1>9, ReArmKeepsChain DEF MoreBody
<1>10. ASSUME NEW t \in Threads, BodyComplete(t) PROVE IInv'
  BY <1>10, PostKeepsChain DEF BodyComplete
<1>11. CASE WriteFails
  BY <1>11 DEF IInv, ChainType, OneReadChain, InLoop, WriteFails
<1>12. CASE Finished \/ UNCHANGED vars
  BY <1>12 DEF IInv, ChainType, OneReadChain, InLoop, Finished, vars
<1> QED
  BY <1>1, <1>2, <1>3, <1>4, <1>5, <1>6, <1>7, <1>8, <1>9, <1>10, <1>11, <1>12
     DEF Next, HandleRead

(* HandleRead re-arms exactly once on each path that goes on reading: for   *)
(* any number of threads a session has one outstanding read or running      *)
(* loop until it is over, and none afterwards.                              *)
THEOREM ReadChainIsOne == Spec => []OneReadChain
<1>1. IInv => OneReadChain
  BY DEF IInv
<1> QED
  BY <1>1, ChainInit, ChainStep, PTL DEF Spec
-----------------------------------------------------------------------------
(* Sequences: two ways of cutting one sequence at the same place agree.     *)
LEMMA SameCut ==
  ASSUME NEW S, NEW a \in Seq(S), NEW b \in Seq(S), NEW c \in Seq(S), NEW d \in Seq(S),
         Len(a) = Len(c), a \o b = c \o d
  PROVE  a = c /\ b = d
<1>1. Len(a) \in Nat /\ Len(b) \in Nat /\ Len(d) \in Nat
  BY LenProperties
<1>2. \A i \in 1..Len(a) : (a \o b)[i] = a[i] /\ (c \o d)[i] = c[i]
  BY <1>1, ConcatProperties
<1>3. \A i \in 1..Len(a) : a[i] = c[i]
  BY <1>2
<1>4. a = c
  BY <1>3, SeqEqual
<1> QED
  BY <1>4, ConcatSimplifications

(* A prefix of a sequence and what Rest leaves of it.                       *)
LEMMA PrefixAndRest ==
  ASSUME NEW S, NEW s \in Seq(S), NEW n \in 0..Len(s)
  PROVE  /\ SubSeq(s, 1, n) \in Seq(S) /\ Len(SubSeq(s, 1, n)) = n
         /\ Rest(s, n) \in Seq(S) /\ Len(Rest(s, n)) = Len(s) - n
         /\ SubSeq(s, 1, n) \o Rest(s, n) = s
<1>1. Len(s) \in Nat /\ \A i \in 1..Len(s) : s[i] \in S
  BY LenProperties, ElementOfSeq
<1>2. SubSeq(s, 1, n) \in Seq(S) /\ Len(SubSeq(s, 1, n)) = n
  BY <1>1, SubSeqProperties
<1>3. Rest(s, n) \in Seq(S) /\ Len(Rest(s, n)) = Len(s) - n
  BY <1>1, SubSeqProperties DEF Rest
<1>4. SubSeq(s, 1, n) \o SubSeq(s, n + 1, Len(s)) = SubSeq(s, 1, Len(s))
  <2>1. 1 \in 1..Len(s) + 1 /\ n \in 1 - 1..Len(s) /\ Len(s) \in n..Len(s)
    BY <1>1
  <2> QED
    BY <2>1, ConcatAdjacentSubSeq
<1>5. SubSeq(s, 1, Len(s)) = s
  BY SubSeqFull
<1> QED
  BY <1>2, <1>3, <1>4, <1>5 DEF Rest

(* Induction: a set of numbers with zero and each one's successor has all.  *)
LEMMA EveryNatural ==
  ASSUME NEW T, 0 \in T, \A n \in Nat : n \in T => n + 1 \in T
  PROVE  Nat \subseteq T
<1> DEFINE Missing == {n \in Nat : n \notin T}
           Smaller == {pair \in Nat \X Nat : pair[1] < pair[2]}
<1>1. IsWellFoundedOn(Smaller, Nat)
  BY NatLessThanWellFounded DEF OpToRel
<1>2. ASSUME Missing # {} PROVE FALSE
  <2>1. PICK x \in Missing : \A y \in Missing : <<y, x>> \notin Smaller
    <3> HIDE DEF Smaller
    <3> QED
      BY <1>1, <1>2, WFMin
  <2>2. x # 0 /\ x - 1 \in Nat
    BY <2>1
  <2>3. x - 1 \notin Missing
    <3>1. <<x - 1, x>> \in Smaller
      BY <2>2
    <3> QED
      BY <2>1, <3>1
  <2> QED
    BY <2>1, <2>2, <2>3
<1> QED
  BY <1>2

-----------------------------------------------------------------------------
(* The bytes of a stream.                                                   *)

Byte == Nat \X Nat

LEMMA StreamType ==
  ASSUME stream \in Streams
  PROVE  /\ stream \in Seq([id : Int, len : Int \ {-1}])
         /\ Len(stream) \in Nat
         /\ \A k \in 1..Len(stream) : stream[k] \in [id : Int, len : Int \ {-1}]
<1>1. stream \in Seq([id : Int, len : Int \ {-1}])
  BY SessionReadAssumption DEF SessionReadAssumption
<1> QED
  BY <1>1, LenProperties, ElementOfSeq

LEMMA FrameHeadType ==
  ASSUME NEW k \in Nat
  PROVE  FrameHead(k) \in Seq(Byte) /\ Len(FrameHead(k)) = HEAD_TOTAL_LEN
BY SessionReadAssumption DEF SessionReadAssumption, FrameHead, Byte

(* The head of a frame tells which frame it is the head of.                 *)
LEMMA FrameHeadsDiffer ==
  ASSUME NEW j \in Nat, NEW k \in Nat, FrameHead(j) = FrameHead(k)
  PROVE  j = k
<1>1. FrameHead(j)[1] = <<j, 1>> /\ FrameHead(k)[1] = <<k, 1>>
  BY SessionReadAssumption DEF SessionReadAssumption, FrameHead
<1> QED
  BY <1>1

LEMMA NotBelowZero ==
  ASSUME NEW n \in Int
  PROVE  Max({0, n}) = IF n > 0 THEN n ELSE 0
<1> DEFINE m == IF n > 0 THEN n ELSE 0
<1>1. m \in {0, n} /\ \A y \in {0, n} : m >= y
  OBVIOUS
<1>2. PICK z \in {0, n} : z = Max({0, n}) /\ \A y \in {0, n} : z >= y
  BY <1>1 DEF Max
<1> QED
  BY <1>2

LEMMA BodyType ==
  ASSUME stream \in Streams, NEW k \in 1..Len(stream)
  PROVE  /\ Body(k) \in Seq(Byte)
         /\ stream[k].len >= 0 => Len(Body(k)) = stream[k].len
<1>1. stream[k].len \in Int /\ k \in Nat
  BY StreamType
<1> DEFINE size == Max({0, stream[k].len})
<1>2. size \in Nat /\ (stream[k].len >= 0 => size = stream[k].len)
  BY <1>1, NotBelowZero
<1>3. Body(k) = [j \in 1..size |-> <<k, HEAD_TOTAL_LEN + j>>]
  BY DEF Body
<1> HIDE DEF size
<1>4. \A j \in 1..size : <<k, HEAD_TOTAL_LEN + j>> \in Byte
  BY <1>1, <1>2, SessionReadAssumption DEF SessionReadAssumption, Byte
<1> QED
  BY <1>2, <1>3, <1>4

(* The bytes of the frame that is the m-th from the end.                    *)
FrameBytes(m) == FrameHead(Len(stream) - m + 1) \o Body(Len(stream) - m + 1)

(* The recursive definition of Bytes is met by a function.                  *)
LEMMA BytesExist ==
  ASSUME stream \in Streams
  PROVE  Bytes = [m \in 0..Len(stream) |-> IF m = 0 THEN <<>> ELSE FrameBytes(m) \o Bytes[m - 1]]
<1> DEFINE Meets(f, n) == f = [m \in 0..n |-> IF m = 0 THEN <<>> ELSE FrameBytes(m) \o f[m - 1]]
           T == {n \in Nat : \E f : Meets(f, n)}
<1>1. 0 \in T
  <2>1. Meets([m \in 0..0 |-> <<>>], 0)
    OBVIOUS
  <2> QED
    BY <2>1
<1>2. ASSUME NEW n \in Nat, n \in T PROVE n + 1 \in T
  <2>1. PICK f : Meets(f, n)
    BY <1>2
  <2> DEFINE g == [m \in 0..n + 1 |-> IF m <= n THEN f[m] ELSE FrameBytes(m) \o f[n]]
  <2>2. ASSUME NEW m \in 0..n + 1
        PROVE  g[m] = IF m = 0 THEN <<>> ELSE FrameBytes(m) \o g[m - 1]
    <3>1. CASE m = 0
      BY <2>1, <3>1
    <3>2. CASE m # 0 /\ m <= n
      <4>1. g[m] = f[m] /\ g[m - 1] = f[m - 1] /\ m \in 0..n
        BY <3>2
      <4>2. f[m] = FrameBytes(m) \o f[m - 1]
        BY <2>1, <3>2, <4>1
      <4> QED
        BY <3>2, <4>1, <4>2
    <3>3. CASE m = n + 1
      <4>1. m \in 0..n + 1 /\ ~(m <= n) /\ m # 0
        BY <3>3
      <4>2. g[m] = FrameBytes(m) \o f[n]
        BY <4>1
      <4>3. m - 1 = n /\ n \in 0..n + 1
        BY <3>3
      <4>4. g[m - 1] = f[n]
        BY <4>3
      <4> QED
        BY <4>1, <4>2, <4>4
    <3> QED
      BY <3>1, <3>2, <3>3
  <2>3. Meets(g, n + 1)
    BY <2>2
  <2>4. \E h : Meets(h, n + 1)
    <3> HIDE DEF g
    <3> QED
      BY <2>3
  <2>5. n + 1 \in Nat
    OBVIOUS
  <2> QED
    BY <2>4, <2>5, Zenon
<1>3. Nat \subseteq T
  <2> HIDE DEF T
  <2> QED
    BY <1>1, <1>2, EveryNatural
<1>4. \E f : Meets(f, Len(stream))
  BY <1>3, StreamType
<1> QED
  BY <1>4 DEF Bytes, FrameBytes

(* Bytes unfolds by the next frame.                                         *)
LEMMA BytesUnfold ==
  ASSUME stream \in Streams
  PROVE  /\ Bytes[0] = <<>>
         /\ \A k \in 1..Len(stream) :
              Bytes[Len(stream) - (k - 1)] = FrameHead(k) \o Body(k) \o Bytes[Len(stream) - k]
<1>1. Bytes[0] = <<>>
  BY BytesExist, StreamType
<1>2. ASSUME NEW k \in 1..Len(stream)
      PROVE  Bytes[Len(stream) - (k - 1)] = FrameHead(k) \o Body(k) \o Bytes[Len(stream) - k]
  <2> DEFINE m == Len(stream) - (k - 1)
  <2>1. m \in 0..Len(stream) /\ m # 0 /\ m - 1 = Len(stream) - k /\ Len(stream) - m + 1 = k
    BY StreamType
  <2> HIDE DEF m
  <2>2. Bytes[m] = FrameBytes(m) \o Bytes[m - 1]
    BY <2>1, BytesExist
  <2>3. FrameBytes(m) = FrameHead(k) \o Body(k)
    BY <2>1 DEF FrameBytes
  <2>4. Bytes[m] = FrameHead(k) \o Body(k) \o Bytes[Len(stream) - k]
    BY <2>1, <2>2, <2>3
  <2> QED
    BY <2>4 DEF m
<1> QED
  BY <1>1, <1>2

LEMMA BytesType ==
  ASSUME stream \in Streams
  PROVE  \A m \in 0..Len(stream) : Bytes[m] \in Seq(Byte)
<1> DEFINE T == {m \in Nat : m <= Len(stream) => Bytes[m] \in Seq(Byte)}
<1>1. 0 \in T
  BY BytesUnfold, EmptySeq
<1>2. ASSUME NEW m \in Nat, m \in T PROVE m + 1 \in T
  <2>1. SUFFICES ASSUME m + 1 <= Len(stream) PROVE Bytes[m + 1] \in Seq(Byte)
    OBVIOUS
  <2>2. Bytes[m] \in Seq(Byte)
    BY <1>2, <2>1, StreamType
  <2> DEFINE k == Len(stream) - m
  <2>3. k \in 1..Len(stream) /\ Len(stream) - (k - 1) = m + 1 /\ Len(stream) - k = m
    BY <2>1, StreamType
  <2> HIDE DEF k
  <2>4. Bytes[m + 1] = FrameHead(k) \o Body(k) \o Bytes[m]
    BY <2>3, BytesUnfold
  <2>5. FrameHead(k) \in Seq(Byte) /\ Body(k) \in Seq(Byte)
    <3>1. k \in Nat
      BY <2>3, StreamType
    <3> QED
      BY <2>3, <3>1, FrameHeadType, BodyType
  <2> QED
    BY <2>2, <2>4, <2>5, ConcatProperties
<1>3. Nat \subseteq T
  <2> HIDE DEF T
  <2> QED
    BY <1>1, <1>2, EveryNatural
<1> QED
  BY <1>3

LEMMA BytesStay ==
  ASSUME stream' = stream
  PROVE  Bytes' = Bytes
BY DEF Bytes, Body, FrameHead
-----------------------------------------------------------------------------
(* FramesExact: the bytes that have been stored, those a running handler    *)
(* still has to look at, and those not read yet are, in this order, the     *)
(* bytes of the frames that have not been posted.                           *)

AwaitsBody(t) == b_head_parse \/ pc[t] = "set_flag"

(* What has been stored of the frame being read. When its head is complete  *)
(* the head's buffer is of no interest any more.                            *)
Stored(t) ==
  IF AwaitsBody(t) THEN FrameHead(count + 1) \o node.data ELSE head

(* No other thread than t is in a handler.                                  *)
Alone(t) == \A u \in Threads : pc[u] # "idle" => u = t

BufferType ==
  /\ stream \in Streams
  /\ wire \in Seq(Byte) /\ chunk \in [Threads -> Seq(Byte)] /\ head \in Seq(Byte)
  /\ node \in [id : Int, len : Int, data : Seq(Byte)]
  /\ b_head_parse \in BOOLEAN
  /\ pc \in [Threads -> {"idle", "loop", "set_flag"}]

AtMostOneActive ==
  \A t, u \in Threads : pc[t] # "idle" /\ pc[u] # "idle" => t = u

ChunkInLoop == \A t \in Threads : ~InLoop(t) => chunk[t] = <<>>

(* What is known of the frame being read.                                   *)
KnownSoFar(t) ==
  IF AwaitsBody(t)
  THEN /\ count < Len(stream) /\ Valid(stream[count + 1])
       /\ node.id = stream[count + 1].id /\ node.len = stream[count + 1].len
       /\ Len(node.data) < node.len
  ELSE Len(head) < HEAD_TOTAL_LEN

NothingLost(t) == Stored(t) \o chunk[t] \o wire = Bytes[Len(stream) - count]

Posted ==
  /\ posted \in Seq([id : Int, data : Seq(Byte)])
  /\ count = Len(posted) /\ count <= Len(stream)
  /\ \A i \in 1..count : posted[i] = [id |-> stream[i].id, data |-> Body(i)]

Parsing == over \/ \A t \in Threads : Alone(t) => KnownSoFar(t) /\ NothingLost(t)

ReadInv == BufferType /\ AtMostOneActive /\ ChunkInLoop /\ Posted /\ Parsing

(* With the read chain, which says that nothing is parsed after the end.    *)
FrameInv == IInv /\ (overlapped \/ ReadInv)

LEMMA FrameInit == Init => FrameInv
<1> SUFFICES ASSUME Init PROVE FrameInv
  OBVIOUS
<1>1. stream \in Streams /\ Len(stream) \in Nat
  BY StreamType DEF Init
<1>2. BufferType
  <2>1. wire \in Seq(Byte)
    BY <1>1, BytesType DEF Init
  <2>2. <<>> \in Seq(Byte)
    BY EmptySeq
  <2>3. chunk \in [Threads -> Seq(Byte)]
    BY <2>2 DEF Init
  <2>4. node \in [id : Int, len : Int, data : Seq(Byte)]
    BY <2>2 DEF Init
  <2>5. head \in Seq(Byte) /\ pc \in [Threads -> {"idle", "loop", "set_flag"}]
    BY <2>2 DEF Init
  <2> QED
    BY <1>1, <2>1, <2>3, <2>4, <2>5 DEF Init, BufferType
<1>3. AtMostOneActive /\ ChunkInLoop
  BY DEF Init, AtMostOneActive, ChunkInLoop
<1>4. Posted
  BY <1>1 DEF Init, Posted
<1>5. ASSUME NEW t \in Threads PROVE KnownSoFar(t) /\ NothingLost(t)
  <2>1. ~AwaitsBody(t) /\ Stored(t) = <<>> /\ chunk[t] = <<>> /\ Len(stream) - count = Len(stream)
    BY <1>1 DEF Init, AwaitsBody, Stored
  <2>2. KnownSoFar(t)
    BY <2>1, SessionReadAssumption DEF Init, KnownSoFar, SessionReadAssumption
  <2>3. <<>> \o <<>> \o wire = wire
    BY <1>2, EmptySeq, ConcatEmptySeq DEF BufferType
  <2> QED
    BY <2>1, <2>2, <2>3 DEF Init, NothingLost
<1> QED
  BY <1>2, <1>3, <1>4, <1>5, ChainInit DEF FrameInv, ReadInv, Parsing

(* A running loop, or an outstanding read, is proof that the session goes   *)
(* on.                                                                      *)
LEMMA NotOver ==
  ASSUME IInv
  PROVE  /\ armed > 0 => ~over
         /\ \A t \in Threads : InLoop(t) => ~over
<1>1. Cardinality(Running) \in Nat /\ armed \in Nat /\ over \in BOOLEAN
  BY RunningFinite DEF IInv, ChainType
<1>2. over => armed + Cardinality(Running) = 0
  BY DEF IInv, OneReadChain, Running
<1>3. armed > 0 => ~over
  BY <1>1, <1>2
<1>4. ASSUME NEW t \in Threads, InLoop(t), over PROVE FALSE
  <2>1. Cardinality(Running) = 0
    BY <1>1, <1>2, <1>4
  <2>2. Running = {}
    BY <2>1, RunningFinite, FS_EmptySet DEF IInv
  <2> QED
    BY <1>4, <2>2 DEF Running
<1> QED
  BY <1>3, <1>4

(* What a handler in the loop knows.                                        *)
LEMMA InTheLoop ==
  ASSUME IInv, ReadInv, NEW t \in Threads, InLoop(t)
  PROVE  /\ ~over /\ Alone(t) /\ KnownSoFar(t) /\ NothingLost(t)
         /\ AwaitsBody(t) = b_head_parse
         /\ stream \in Streams /\ Len(stream) \in Nat /\ count \in 0..Len(stream)
         /\ chunk[t] \in Seq(Byte) /\ wire \in Seq(Byte) /\ head \in Seq(Byte)
<1>1. ~over
  BY NotOver
<1>2. Alone(t)
  BY DEF ReadInv, AtMostOneActive, Alone, InLoop
<1>3. KnownSoFar(t) /\ NothingLost(t)
  BY <1>1, <1>2 DEF ReadInv, Parsing
<1>4. AwaitsBody(t) = b_head_parse
  BY DEF AwaitsBody, InLoop, ReadInv, BufferType
<1>5. stream \in Streams /\ Len(stream) \in Nat
  BY StreamType DEF ReadInv, BufferType
<1>6. count \in 0..Len(stream)
  BY <1>5, LenProperties DEF ReadInv, Posted
<1> QED
  BY <1>1, <1>2, <1>3, <1>4, <1>5, <1>6 DEF ReadInv, BufferType

(* A handler that returns leaves nobody in the loop and no bytes behind.    *)
LEMMA Returning ==
  ASSUME IInv, ReadInv, NEW t \in Threads, InLoop(t),
         NEW to \in {"idle", "set_flag"}, pc' = [pc EXCEPT ![t] = to],
         chunk' = [chunk EXCEPT ![t] = <<>>]
  PROVE  /\ pc' \in [Threads -> {"idle", "loop", "set_flag"}]
         /\ chunk' \in [Threads -> Seq(Byte)]
         /\ AtMostOneActive' /\ ChunkInLoop'
         /\ \A u \in Threads : chunk'[u] = <<>>
         /\ \A u \in Threads : pc'[u] = IF u = t THEN to ELSE "idle"
<1>1. pc \in [Threads -> {"idle", "loop", "set_flag"}] /\ chunk \in [Threads -> Seq(Byte)]
  BY DEF ReadInv, BufferType
<1>2. \A u \in Threads : u # t => pc[u] = "idle" /\ chunk[u] = <<>>
  BY InTheLoop DEF Alone, ReadInv, ChunkInLoop, InLoop
<1>3. <<>> \in Seq(Byte)
  BY EmptySeq
<1>4. chunk' \in [Threads -> Seq(Byte)] /\ \A u \in Threads : chunk'[u] = <<>>
  BY <1>1, <1>2, <1>3
<1>5. /\ pc' \in [Threads -> {"idle", "loop", "set_flag"}]
      /\ \A u \in Threads : pc'[u] = IF u = t THEN to ELSE "idle"
  BY <1>1, <1>2
<1>6. AtMostOneActive'
  BY <1>5 DEF AtMostOneActive
<1>7. ChunkInLoop'
  BY <1>4 DEF ChunkInLoop
<1> QED
  BY <1>4, <1>5, <1>6, <1>7

(* Concatenation of bytes. The predicates have names so that the provers    *)
(* can be told which instance a step needs.                                 *)
Assoc(a, b, c) == (a \o b) \o c = a \o (b \o c)
CutAlike(a, b, c, d) == Len(a) = Len(c) /\ a \o b = c \o d => a = c /\ b = d

LEMMA Joining == \A a, b, c \in Seq(Byte) : Assoc(a, b, c)
BY ConcatAssociative DEF Assoc

LEMMA CutBytes == \A a, b, c, d \in Seq(Byte) : CutAlike(a, b, c, d)
BY SameCut DEF CutAlike

(* Stored bytes, a chunk and the bytes not read yet are the same bytes when *)
(* the chunk is cut after n of its own.                                     *)
CutAgrees(a, s, n, w) == (a \o SubSeq(s, 1, n)) \o (Rest(s, n) \o w) = a \o s \o w

LEMMA CutChunk ==
  ASSUME NEW a \in Seq(Byte), NEW s \in Seq(Byte), NEW w \in Seq(Byte), NEW n \in 0..Len(s)
  PROVE  /\ a \o SubSeq(s, 1, n) \in Seq(Byte)
         /\ Len(a \o SubSeq(s, 1, n)) = Len(a) + n
         /\ Rest(s, n) \in Seq(Byte) /\ Rest(s, n) \o w \in Seq(Byte)
         /\ CutAgrees(a, s, n, w)
<1> DEFINE p == SubSeq(s, 1, n)
           r == Rest(s, n)
           ap == a \o p
<1>1. p \in Seq(Byte) /\ Len(p) = n /\ r \in Seq(Byte) /\ p \o r = s
  BY PrefixAndRest
<1> HIDE DEF p, r
<1>2. ap \in Seq(Byte) /\ Len(ap) = Len(a) + n /\ r \o w \in Seq(Byte)
  BY <1>1, ConcatProperties
<1>3. ap \o r = a \o s
  <2>1. Assoc(a, p, r)
    BY <1>1, Joining, Zenon
  <2> QED
    BY <1>1, <2>1, Zenon DEF Assoc
<1> HIDE DEF ap
<1>4. ap \o (r \o w) = (ap \o r) \o w
  <2>1. Assoc(ap, r, w)
    BY <1>1, <1>2, Joining, Zenon
  <2> QED
    BY <2>1, Zenon DEF Assoc
<1>5. ap \o (r \o w) = a \o s \o w
  BY <1>3, <1>4, Zenon
<1> QED
  BY <1>1, <1>2, <1>5, Zenon DEF CutAgrees, ap, p, r

(* A complete head is the head of the next frame, and what follows it in    *)
(* the chunk begins that frame's body.                                      *)
LEMMA HeadDecoded ==
  ASSUME IInv, ReadInv, NEW t \in Threads, HeadComplete(t)
  PROVE  /\ count + 1 \in 1..Len(stream)
         /\ Header(WholeHead(t)) = {stream[count + 1]}
         /\ AfterHead(t) \in Seq(Byte)
         /\ AfterHead(t) \o wire = Body(count + 1) \o Bytes[Len(stream) - (count + 1)]
         /\ FrameHead(count + 1) \o (AfterHead(t) \o wire) = Bytes[Len(stream) - count]
<1>1. InLoop(t) /\ ~b_head_parse
  BY DEF HeadComplete
<1>2. /\ KnownSoFar(t) /\ NothingLost(t) /\ AwaitsBody(t) = FALSE
      /\ stream \in Streams /\ Len(stream) \in Nat /\ count \in 0..Len(stream)
      /\ chunk[t] \in Seq(Byte) /\ wire \in Seq(Byte) /\ head \in Seq(Byte)
  BY <1>1, InTheLoop
<1>3. HeadRemain \in 0..Len(chunk[t])
  <2>1. Len(head) \in Nat /\ Len(chunk[t]) \in Nat /\ HEAD_TOTAL_LEN \in Nat
    BY <1>2, LenProperties, SessionReadAssumption DEF SessionReadAssumption
  <2>2. Len(head) < HEAD_TOTAL_LEN /\ Len(chunk[t]) + Len(head) >= HEAD_TOTAL_LEN
    BY <1>2 DEF KnownSoFar, HeadComplete
  <2> QED
    BY <2>1, <2>2 DEF HeadRemain
<1>4. /\ WholeHead(t) \in Seq(Byte) /\ Len(WholeHead(t)) = Len(head) + HeadRemain
      /\ AfterHead(t) \in Seq(Byte) /\ AfterHead(t) \o wire \in Seq(Byte)
      /\ WholeHead(t) \o (AfterHead(t) \o wire) = head \o chunk[t] \o wire
  <2>1. /\ WholeHead(t) \in Seq(Byte) /\ Len(WholeHead(t)) = Len(head) + HeadRemain
        /\ AfterHead(t) \in Seq(Byte) /\ AfterHead(t) \o wire \in Seq(Byte)
    BY <1>2, <1>3, CutChunk DEF WholeHead, AfterHead
  <2>2. CutAgrees(head, chunk[t], HeadRemain, wire)
    BY <1>2, <1>3, CutChunk, Zenon
  <2> QED
    BY <2>1, <2>2 DEF CutAgrees, WholeHead, AfterHead
<1>5. Len(WholeHead(t)) = HEAD_TOTAL_LEN
  BY <1>2, <1>4, LenProperties, SessionReadAssumption DEF HeadRemain, SessionReadAssumption
<1>6. WholeHead(t) \o (AfterHead(t) \o wire) = Bytes[Len(stream) - count]
  BY <1>2, <1>4 DEF NothingLost, Stored
<1>7. count # Len(stream)
  <2>1. SUFFICES ASSUME count = Len(stream) PROVE FALSE
    OBVIOUS
  <2>2. Bytes[Len(stream) - count] = <<>>
    BY <1>2, <2>1, BytesUnfold
  <2>3. WholeHead(t) = <<>>
    BY <1>4, <1>6, <2>2, ConcatEqualIffEmpty
  <2> QED
    BY <1>5, <2>3, EmptySeq, SessionReadAssumption DEF SessionReadAssumption
<1> DEFINE k == count + 1
<1>8. k \in 1..Len(stream) /\ k \in Nat /\ Len(stream) - k \in 0..Len(stream)
  BY <1>2, <1>7
<1>9. /\ FrameHead(k) \in Seq(Byte) /\ Len(FrameHead(k)) = HEAD_TOTAL_LEN
      /\ Body(k) \in Seq(Byte) /\ Bytes[Len(stream) - k] \in Seq(Byte)
  BY <1>2, <1>8, FrameHeadType, BodyType, BytesType
<1>10. Body(k) \o Bytes[Len(stream) - k] \in Seq(Byte)
  BY <1>9, ConcatProperties
<1>11. Bytes[Len(stream) - count] = FrameHead(k) \o (Body(k) \o Bytes[Len(stream) - k])
  <2>1. Bytes[Len(stream) - (k - 1)] = FrameHead(k) \o Body(k) \o Bytes[Len(stream) - k]
    BY <1>2, <1>8, BytesUnfold
  <2>2. k - 1 = count
    BY <1>2
  <2>3. Assoc(FrameHead(k), Body(k), Bytes[Len(stream) - k])
    BY <1>9, Joining, Zenon
  <2> QED
    BY <2>1, <2>2, <2>3 DEF Assoc
<1>12. /\ WholeHead(t) = FrameHead(k)
       /\ AfterHead(t) \o wire = Body(k) \o Bytes[Len(stream) - k]
  <2> HIDE DEF k
  <2>1. WholeHead(t) \o (AfterHead(t) \o wire) = FrameHead(k) \o (Body(k) \o Bytes[Len(stream) - k])
    BY <1>6, <1>11
  <2>2. Len(WholeHead(t)) = Len(FrameHead(k))
    BY <1>5, <1>9
  <2>3. CutAlike(WholeHead(t), AfterHead(t) \o wire, FrameHead(k), Body(k) \o Bytes[Len(stream) - k])
    BY <1>4, <1>9, <1>10, CutBytes, Zenon
  <2> QED
    BY <2>1, <2>2, <2>3, Zenon DEF CutAlike
<1>13. Header(WholeHead(t)) = {stream[k]}
  <2>1. {i \in 1..Len(stream) : WholeHead(t) = FrameHead(i)} = {k}
    <3>1. \A i \in 1..Len(stream) : i \in Nat /\ (FrameHead(k) = FrameHead(i) => k = i)
      BY <1>2, <1>8, FrameHeadsDiffer
    <3> HIDE DEF k
    <3> QED
      BY <1>8, <1>12, <3>1
  <2> HIDE DEF k
  <2> QED
    BY <1>8, <1>12, <2>1 DEF Header
<1> QED
  BY <1>4, <1>6, <1>8, <1>12, <1>13

(* Posting the frame that was being read leaves the parser at the start of  *)
(* the next one, with the bytes that follow.                                *)
LEMMA FramePosted ==
  ASSUME IInv, ReadInv, NEW t \in Threads, InLoop(t), NEW rest \in Seq(Byte), NEW message,
         count + 1 \in 1..Len(stream),
         message = [id |-> stream[count + 1].id, len |-> stream[count + 1].len,
                    data |-> Body(count + 1)],
         rest \o wire = Bytes[Len(stream) - (count + 1)],
         PostAndGoOn(t, message, rest)
  PROVE  ReadInv'
<1>1. /\ Alone(t) /\ stream \in Streams /\ Len(stream) \in Nat /\ count \in 0..Len(stream)
      /\ wire \in Seq(Byte)
  BY InTheLoop
<1>2. UNCHANGED <<stream, wire, over>> /\ head' = <<>> /\ b_head_parse' = FALSE
      /\ count' = count + 1 /\ node' = message
  BY DEF PostAndGoOn, deployment
<1>3. Body(count + 1) \in Seq(Byte) /\ stream[count + 1].id \in Int /\ stream[count + 1].len \in Int
  BY <1>1, BodyType, StreamType
<1>4. /\ pc' \in [Threads -> {"idle", "loop", "set_flag"}] /\ chunk' \in [Threads -> Seq(Byte)]
      /\ AtMostOneActive' /\ ChunkInLoop'
      /\ \A u \in Threads : Alone(u)' => chunk'[u] = rest /\ pc'[u] # "set_flag"
  <2>1. CASE rest = <<>>
    <3>1. pc' = [pc EXCEPT ![t] = "idle"] /\ chunk' = [chunk EXCEPT ![t] = <<>>]
      BY <2>1 DEF PostAndGoOn, ReArm
    <3> QED
      BY <2>1, <3>1, Returning
  <2>2. CASE rest # <<>>
    <3>1. pc' = pc /\ chunk' = [chunk EXCEPT ![t] = rest]
      BY <2>2 DEF PostAndGoOn
    <3>2. pc' \in [Threads -> {"idle", "loop", "set_flag"}] /\ chunk' \in [Threads -> Seq(Byte)]
      BY <3>1 DEF ReadInv, BufferType
    <3>3. AtMostOneActive'
      BY <3>1 DEF ReadInv, AtMostOneActive
    <3>4. ChunkInLoop'
      BY <3>1 DEF ReadInv, BufferType, ChunkInLoop, InLoop
    <3>5. ASSUME NEW u \in Threads, Alone(u)' PROVE chunk'[u] = rest /\ pc'[u] # "set_flag"
      <4>1. u = t
        BY <3>1, <3>5 DEF Alone, InLoop
      <4> QED
        BY <3>1, <4>1 DEF InLoop, ReadInv, BufferType
    <3> QED
      BY <3>2, <3>3, <3>4, <3>5
  <2> QED
    BY <2>1, <2>2
<1>5. BufferType'
  <2>1. head' \in Seq(Byte)
    BY <1>2, EmptySeq
  <2>2. node' \in [id : Int, len : Int, data : Seq(Byte)]
    BY <1>2, <1>3
  <2> QED
    BY <1>1, <1>2, <1>4, <2>1, <2>2 DEF BufferType
<1>6. Posted'
  <2> DEFINE new == [id |-> message.id, data |-> message.data]
  <2>1. new = [id |-> stream[count + 1].id, data |-> Body(count + 1)]
    OBVIOUS
  <2>2. posted' = Append(posted, new)
    BY DEF PostAndGoOn
  <2> HIDE DEF new
  <2>3. new \in [id : Int, data : Seq(Byte)] /\ posted \in Seq([id : Int, data : Seq(Byte)])
    BY <1>3, <2>1 DEF ReadInv, Posted
  <2>4. /\ posted' \in Seq([id : Int, data : Seq(Byte)]) /\ Len(posted') = Len(posted) + 1
        /\ \A i \in 1..Len(posted) : posted'[i] = posted[i]
        /\ posted'[Len(posted) + 1] = new
    BY <2>2, <2>3, AppendProperties
  <2>5. count = Len(posted) /\ \A i \in 1..count : posted[i] = [id |-> stream[i].id, data |-> Body(i)]
    BY DEF ReadInv, Posted
  <2>6. count' = Len(posted)' /\ count' <= Len(stream)'
    BY <1>1, <1>2, <2>4, <2>5
  <2>7. \A i : Body(i)' = Body(i)
    BY <1>2 DEF Body
  <2>8. ASSUME NEW i \in 1..count' PROVE posted'[i] = [id |-> stream'[i].id, data |-> Body(i)']
    <3>1. i \in 1..count \/ i = count + 1
      BY <1>1, <1>2
    <3>2. CASE i \in 1..count
      BY <1>2, <2>4, <2>5, <2>7, <3>2
    <3>3. CASE i = count + 1
      BY <1>2, <2>1, <2>4, <2>5, <2>7, <3>3
    <3> QED
      BY <3>1, <3>2, <3>3
  <2> QED
    BY <2>4, <2>6, <2>8 DEF Posted
<1>7. ASSUME NEW u \in Threads, Alone(u)' PROVE KnownSoFar(u)' /\ NothingLost(u)'
  <2>1. AwaitsBody(u)' = FALSE /\ Stored(u)' = <<>> /\ chunk'[u] = rest
    BY <1>2, <1>4, <1>7 DEF AwaitsBody, Stored
  <2>2. KnownSoFar(u)'
    BY <1>2, <2>1, SessionReadAssumption DEF KnownSoFar, SessionReadAssumption
  <2>3. <<>> \o rest = rest
    BY ConcatEmptySeq
  <2>4. Bytes' = Bytes
    BY <1>2, BytesStay
  <2>5. Stored(u)' \o chunk'[u] \o wire' = Bytes[Len(stream) - (count + 1)]
    BY <1>2, <2>1, <2>3
  <2>6. (Bytes[Len(stream) - count])' = Bytes[Len(stream) - (count + 1)]
    BY <1>2, <2>4
  <2> QED
    BY <2>2, <2>5, <2>6 DEF NothingLost
<1> QED
  BY <1>4, <1>5, <1>6, <1>7 DEF ReadInv, Parsing

(* A handler that returns with what it has seen stored.                     *)
LEMMA StoredAndReArmed ==
  ASSUME IInv, ReadInv, NEW t \in Threads, InLoop(t), NEW to \in {"idle", "set_flag"},
         ReArm(t, to), UNCHANGED <<stream, wire, over, posted, count, b_head_parse>>,
         head' \in Seq(Byte), node' \in [id : Int, len : Int, data : Seq(Byte)],
         KnownSoFar(t)',
         Stored(t)' \in Seq(Byte), Stored(t)' \o wire = Bytes[Len(stream) - count]
  PROVE  ReadInv'
<1>1. pc' = [pc EXCEPT ![t] = to] /\ chunk' = [chunk EXCEPT ![t] = <<>>]
  BY DEF ReArm
<1>2. /\ pc' \in [Threads -> {"idle", "loop", "set_flag"}] /\ chunk' \in [Threads -> Seq(Byte)]
      /\ AtMostOneActive' /\ ChunkInLoop'
      /\ \A u \in Threads : chunk'[u] = <<>>
      /\ \A u \in Threads : pc'[u] = IF u = t THEN to ELSE "idle"
  BY <1>1, Returning
<1>3. BufferType'
  BY <1>2 DEF ReadInv, BufferType
<1>4. Posted'
  <2>1. \A i : Body(i)' = Body(i)
    BY DEF Body
  <2> QED
    BY <2>1 DEF ReadInv, Posted
<1>5. ASSUME NEW u \in Threads, Alone(u)' PROVE KnownSoFar(u)' /\ NothingLost(u)'
  <2>1. AwaitsBody(u)' = AwaitsBody(t)'
    BY <1>2, <1>5 DEF AwaitsBody, Alone, ReadInv, BufferType
  <2>2. Stored(u)' = Stored(t)' /\ KnownSoFar(u)' = KnownSoFar(t)'
    BY <2>1 DEF Stored, KnownSoFar
  <2>3. Stored(t)' \o <<>> = Stored(t)'
    BY ConcatEmptySeq
  <2>4. Bytes' = Bytes
    BY BytesStay
  <2>5. Stored(u)' \o chunk'[u] \o wire' = Bytes[Len(stream) - count]
    BY <1>2, <2>2, <2>3
  <2>6. (Bytes[Len(stream) - count])' = Bytes[Len(stream) - count]
    BY <2>4
  <2> QED
    BY <2>2, <2>5, <2>6 DEF NothingLost
<1> QED
  BY <1>2, <1>3, <1>4, <1>5 DEF ReadInv, Parsing

-----------------------------------------------------------------------------
(* The steps of the handler.                                                *)

LEMMA PartialHeadStores ==
  ASSUME IInv, ReadInv, NEW t \in Threads, PartialHead(t)
  PROVE  ReadInv'
<1>1. /\ InLoop(t) /\ ~b_head_parse /\ ReArm(t, "idle") /\ head' = head \o chunk[t]
      /\ Len(chunk[t]) + Len(head) < HEAD_TOTAL_LEN
      /\ UNCHANGED <<stream, wire, over, posted, count, b_head_parse, node>>
  BY DEF PartialHead, deployment
<1>2. /\ NothingLost(t) /\ AwaitsBody(t) = FALSE
      /\ chunk[t] \in Seq(Byte) /\ wire \in Seq(Byte) /\ head \in Seq(Byte)
  BY <1>1, InTheLoop
<1>3. head' \in Seq(Byte) /\ Len(head') = Len(head) + Len(chunk[t])
  BY <1>1, <1>2, ConcatProperties
<1>4. pc'[t] = "idle"
  BY <1>1 DEF ReArm, ReadInv, BufferType
<1>5. AwaitsBody(t)' = FALSE
  BY <1>1, <1>4 DEF AwaitsBody
<1>6. Stored(t)' = head' /\ KnownSoFar(t)'
  <2>1. Len(head') < HEAD_TOTAL_LEN
    BY <1>1, <1>2, <1>3, LenProperties
  <2> QED
    BY <1>5, <2>1 DEF Stored, KnownSoFar
<1>7. Stored(t)' \o wire = Bytes[Len(stream) - count]
  BY <1>1, <1>2, <1>6 DEF NothingLost, Stored
<1>8. node' \in [id : Int, len : Int, data : Seq(Byte)]
  BY <1>1 DEF ReadInv, BufferType
<1> QED
  BY <1>1, <1>3, <1>6, <1>7, <1>8, StoredAndReArmed

LEMMA PartialBodyStores ==
  ASSUME IInv, ReadInv, NEW t \in Threads, PartialBody(t)
  PROVE  ReadInv'
<1> DEFINE k == count + 1
<1>1. /\ HeadComplete(t) /\ InLoop(t) /\ ReArm(t, "set_flag")
      /\ UNCHANGED <<stream, wire, over, posted, count, b_head_parse, head>>
  BY DEF PartialBody, HeadComplete, deployment
<1>2. /\ k \in 1..Len(stream) /\ Header(WholeHead(t)) = {stream[k]}
      /\ AfterHead(t) \in Seq(Byte)
      /\ FrameHead(k) \o (AfterHead(t) \o wire) = Bytes[Len(stream) - count]
  BY <1>1, HeadDecoded
<1>3. stream \in Streams /\ Len(stream) \in Nat /\ count \in 0..Len(stream) /\ wire \in Seq(Byte)
  BY <1>1, InTheLoop
<1>4. /\ Valid(stream[k]) /\ Len(AfterHead(t)) < stream[k].len
      /\ node' = [id |-> stream[k].id, len |-> stream[k].len, data |-> AfterHead(t)]
  BY <1>2 DEF PartialBody
<1>5. node' \in [id : Int, len : Int, data : Seq(Byte)]
  BY <1>2, <1>3, <1>4, StreamType
<1>6. AwaitsBody(t)' = TRUE
  BY <1>1 DEF AwaitsBody, ReArm, ReadInv, BufferType
<1>7. Stored(t)' = FrameHead(k) \o AfterHead(t)
  <2>1. FrameHead(count + 1)' = FrameHead(k)
    BY <1>1 DEF FrameHead
  <2> QED
    BY <1>4, <1>6, <2>1 DEF Stored
<1>8. KnownSoFar(t)'
  BY <1>1, <1>2, <1>3, <1>4, <1>6 DEF KnownSoFar, Valid
<1>9. FrameHead(k) \in Seq(Byte)
  BY <1>2, <1>3, FrameHeadType
<1>10. Stored(t)' \in Seq(Byte)
  BY <1>2, <1>7, <1>9, ConcatProperties
<1>11. (FrameHead(k) \o AfterHead(t)) \o wire = FrameHead(k) \o (AfterHead(t) \o wire)
  <2>1. Assoc(FrameHead(k), AfterHead(t), wire)
    BY <1>2, <1>3, <1>9, Joining, Zenon
  <2> QED
    BY <2>1 DEF Assoc
<1>12. Stored(t)' \o wire = Bytes[Len(stream) - count]
  BY <1>2, <1>7, <1>11
<1>13. head' \in Seq(Byte)
  BY <1>1 DEF ReadInv, BufferType
<1> QED
  BY <1>1, <1>5, <1>8, <1>10, <1>12, <1>13, StoredAndReArmed

LEMMA SetFlagKeeps ==
  ASSUME IInv, ReadInv, NEW t \in Threads, SetFlag(t)
  PROVE  ReadInv'
<1>1. /\ pc[t] = "set_flag" /\ b_head_parse' = TRUE /\ pc' = [pc EXCEPT ![t] = "idle"]
      /\ UNCHANGED <<stream, wire, chunk, head, node, over, posted, count>>
  BY DEF SetFlag, deployment
<1>2. \A u \in Threads : u # t => pc[u] = "idle"
  BY <1>1 DEF ReadInv, AtMostOneActive
<1>3. \A u \in Threads : chunk[u] = <<>> /\ pc'[u] = "idle"
  BY <1>1, <1>2 DEF ReadInv, ChunkInLoop, InLoop, BufferType
<1>4. BufferType' /\ AtMostOneActive' /\ ChunkInLoop'
  BY <1>1, <1>3 DEF ReadInv, BufferType, AtMostOneActive, ChunkInLoop
<1>5. Posted'
  <2>1. \A i : Body(i)' = Body(i)
    BY <1>1 DEF Body
  <2> QED
    BY <1>1, <2>1 DEF ReadInv, Posted
<1>6. ASSUME ~over, NEW u \in Threads PROVE KnownSoFar(u)' /\ NothingLost(u)'
  <2>1. AwaitsBody(t) /\ KnownSoFar(t) /\ NothingLost(t)
    BY <1>1, <1>2, <1>6 DEF ReadInv, Parsing, Alone, AwaitsBody
  <2>2. AwaitsBody(u)'
    BY <1>1 DEF AwaitsBody
  <2>3. FrameHead(count + 1)' = FrameHead(count + 1)
    BY <1>1 DEF FrameHead
  <2>4. Stored(u)' = Stored(t)
    BY <1>1, <2>1, <2>2, <2>3 DEF Stored
  <2>5. KnownSoFar(u)'
    BY <1>1, <2>1, <2>2 DEF KnownSoFar, Valid
  <2>6. Bytes' = Bytes
    BY <1>1, BytesStay
  <2>7. NothingLost(u)'
    BY <1>1, <1>3, <2>1, <2>4, <2>6 DEF NothingLost
  <2> QED
    BY <2>5, <2>7
<1> QED
  BY <1>1, <1>4, <1>5, <1>6 DEF ReadInv, Parsing

(* The first n bytes of s complete the body of frame k that begins with a,  *)
(* and the frames after it follow.                                          *)
Completes(k, a, s, n, w) ==
  /\ a \o SubSeq(s, 1, n) = Body(k)
  /\ Rest(s, n) \in Seq(Byte)
  /\ Rest(s, n) \o w = Bytes[Len(stream) - k]

(* A body of the right length at the front of the bytes is the frame's.     *)
LEMMA BodyInFront ==
  ASSUME stream \in Streams, NEW k \in 1..Len(stream), stream[k].len >= 0,
         NEW a \in Seq(Byte), NEW s \in Seq(Byte), NEW w \in Seq(Byte), NEW n \in 0..Len(s),
         Len(a) + n = stream[k].len,
         a \o s \o w = Body(k) \o Bytes[Len(stream) - k]
  PROVE  Completes(k, a, s, n, w)
<1> DEFINE front == a \o SubSeq(s, 1, n)
           back == Rest(s, n) \o w
           left == Bytes[Len(stream) - k]
<1>1. /\ front \in Seq(Byte) /\ Len(front) = stream[k].len
      /\ Rest(s, n) \in Seq(Byte) /\ back \in Seq(Byte)
      /\ front \o back = Body(k) \o left
  <2>1. /\ front \in Seq(Byte) /\ Len(front) = Len(a) + n
        /\ Rest(s, n) \in Seq(Byte) /\ back \in Seq(Byte)
        /\ front \o back = a \o s \o w
    <3>1. /\ front \in Seq(Byte) /\ Len(front) = Len(a) + n
          /\ Rest(s, n) \in Seq(Byte) /\ back \in Seq(Byte)
      BY CutChunk
    <3>2. CutAgrees(a, s, n, w)
      BY CutChunk, Zenon
    <3> QED
      BY <3>1, <3>2 DEF CutAgrees
  <2> QED
    BY <2>1
<1>2. Body(k) \in Seq(Byte) /\ Len(Body(k)) = stream[k].len
  BY BodyType
<1>3. left \in Seq(Byte)
  <2>1. Len(stream) - k \in 0..Len(stream)
    BY StreamType
  <2> QED
    BY <2>1, BytesType
<1>4. front = Body(k) /\ back = left
  <2> HIDE DEF front, back, left
  <2>1. Len(front) = Len(Body(k))
    BY <1>1, <1>2
  <2>2. CutAlike(front, back, Body(k), left)
    BY <1>1, <1>2, <1>3, CutBytes, Zenon
  <2> QED
    BY <1>1, <2>1, <2>2, Zenon DEF CutAlike
<1> QED
  BY <1>1, <1>4 DEF Completes

LEMMA WholeBodyPosts ==
  ASSUME IInv, ReadInv, NEW t \in Threads, WholeBody(t)
  PROVE  ReadInv'
<1> DEFINE k == count + 1
           frame == stream[k]
           body == SubSeq(AfterHead(t), 1, frame.len)
           rest == Rest(AfterHead(t), frame.len)
<1>1. HeadComplete(t) /\ InLoop(t)
  BY DEF WholeBody, HeadComplete
<1>2. /\ k \in 1..Len(stream) /\ Header(WholeHead(t)) = {frame}
      /\ AfterHead(t) \in Seq(Byte)
      /\ AfterHead(t) \o wire = Body(k) \o Bytes[Len(stream) - k]
  BY <1>1, HeadDecoded
<1>3. stream \in Streams /\ wire \in Seq(Byte) /\ frame.len \in Int
  BY <1>1, <1>2, InTheLoop, StreamType
<1>4. /\ frame.len >= 0 /\ Len(AfterHead(t)) >= frame.len
      /\ PostAndGoOn(t, [id |-> frame.id, len |-> frame.len, data |-> body], rest)
  BY <1>2 DEF WholeBody
<1>5. body = Body(k) /\ rest \in Seq(Byte) /\ rest \o wire = Bytes[Len(stream) - k]
  <2>1. frame.len \in 0..Len(AfterHead(t))
    BY <1>2, <1>3, <1>4, LenProperties
  <2>2. <<>> \in Seq(Byte) /\ Len(<<>>) + frame.len = frame.len
    BY <1>3, EmptySeq
  <2>3. <<>> \o AfterHead(t) = AfterHead(t)
    BY <1>2, ConcatEmptySeq
  <2>4. <<>> \o body = Body(k) /\ rest \in Seq(Byte) /\ rest \o wire = Bytes[Len(stream) - k]
    <3>1. stream \in Streams /\ k \in 1..Len(stream) /\ stream[k].len >= 0
      BY <1>2, <1>3, <1>4
    <3>2. <<>> \o AfterHead(t) \o wire = Body(k) \o Bytes[Len(stream) - k]
      BY <1>2, <2>3
    <3>3. Completes(k, <<>>, AfterHead(t), frame.len, wire)
      BY <1>2, <1>3, <2>1, <2>2, <3>1, <3>2, BodyInFront, Zenon
    <3> QED
      BY <3>3 DEF Completes
  <2>5. body \in Seq(Byte)
    BY <1>2, <2>1, PrefixAndRest
  <2>6. <<>> \o body = body
    BY <2>5, ConcatEmptySeq
  <2> QED
    BY <2>4, <2>6
<1> HIDE DEF body, rest
<1>6. PostAndGoOn(t, [id |-> frame.id, len |-> frame.len, data |-> Body(k)], rest)
  BY <1>4, <1>5
<1> QED
  BY <1>1, <1>2, <1>5, <1>6, FramePosted

(* The bytes of the frame being read that are not stored, and all after it. *)
BodyGoesOn(t) ==
  node.data \o chunk[t] \o wire = Body(count + 1) \o Bytes[Len(stream) - (count + 1)]

(* What a handler in the loop knows when the head has been parsed before.   *)
LEMMA InTheBody ==
  ASSUME IInv, ReadInv, NEW t \in Threads, InLoop(t), b_head_parse
  PROVE  /\ count + 1 \in 1..Len(stream) /\ Valid(stream[count + 1]) /\ stream[count + 1].len >= 0
         /\ node.id = stream[count + 1].id /\ node.len = stream[count + 1].len
         /\ node \in [id : Int, len : Int, data : Seq(Byte)] /\ Len(node.data) \in Nat
         /\ Len(node.data) < node.len
         /\ BodyGoesOn(t)
         /\ FrameHead(count + 1) \in Seq(Byte)
<1>1. /\ KnownSoFar(t) /\ NothingLost(t) /\ AwaitsBody(t)
      /\ stream \in Streams /\ Len(stream) \in Nat /\ count \in 0..Len(stream)
      /\ chunk[t] \in Seq(Byte) /\ wire \in Seq(Byte)
  BY InTheLoop
<1>2. node \in [id : Int, len : Int, data : Seq(Byte)] /\ node.data \in Seq(Byte)
  BY DEF ReadInv, BufferType
<1>3. /\ count + 1 \in 1..Len(stream) /\ Valid(stream[count + 1])
      /\ node.id = stream[count + 1].id /\ node.len = stream[count + 1].len
      /\ Len(node.data) < node.len
  BY <1>1 DEF KnownSoFar
<1>4. Len(node.data) \in Nat /\ stream[count + 1].len >= 0
  BY <1>2, <1>3, LenProperties
<1> DEFINE k == count + 1
           h == FrameHead(k)
           d == node.data
           c == chunk[t]
           left == Body(k) \o Bytes[Len(stream) - k]
<1>5. h \in Seq(Byte) /\ Body(k) \in Seq(Byte) /\ Bytes[Len(stream) - k] \in Seq(Byte)
  <2>1. k \in Nat /\ Len(stream) - k \in 0..Len(stream)
    BY <1>1, <1>3
  <2> QED
    BY <1>1, <1>3, <2>1, FrameHeadType, BodyType, BytesType
<1>6. left \in Seq(Byte)
  BY <1>5, ConcatProperties
<1>7. Bytes[Len(stream) - count] = h \o left
  <2>1. Bytes[Len(stream) - (k - 1)] = h \o Body(k) \o Bytes[Len(stream) - k]
    BY <1>1, <1>3, BytesUnfold
  <2>2. k - 1 = count
    BY <1>1
  <2>3. h \o Body(k) \o Bytes[Len(stream) - k] = h \o left
    <3>1. Assoc(h, Body(k), Bytes[Len(stream) - k])
      BY <1>5, Joining, Zenon
    <3> QED
      BY <3>1 DEF Assoc
  <2> QED
    BY <2>1, <2>2, <2>3
<1>8. (h \o d) \o c \o wire = h \o left
  BY <1>1, <1>7 DEF NothingLost, Stored
<1> HIDE DEF h, d, c, left
<1>9. d \in Seq(Byte) /\ c \in Seq(Byte) /\ wire \in Seq(Byte)
  BY <1>1, <1>2 DEF d, c
<1>10. d \o c \in Seq(Byte) /\ d \o c \o wire \in Seq(Byte)
  BY <1>9, ConcatProperties
<1>11. (h \o d) \o c = h \o (d \o c)
  <2>1. Assoc(h, d, c)
    BY <1>5, <1>9, Joining, Zenon
  <2> QED
    BY <2>1 DEF Assoc
<1>12. (h \o (d \o c)) \o wire = h \o (d \o c \o wire)
  <2>1. Assoc(h, d \o c, wire)
    BY <1>5, <1>9, <1>10, Joining, Zenon
  <2> QED
    BY <2>1 DEF Assoc
<1>13. h \o (d \o c \o wire) = h \o left
  BY <1>8, <1>11, <1>12, Zenon
<1>14. d \o c \o wire = left
  <2>1. CutAlike(h, d \o c \o wire, h, left)
    BY <1>5, <1>6, <1>10, CutBytes, Zenon
  <2> QED
    BY <1>13, <2>1, Zenon DEF CutAlike
<1> QED
  BY <1>2, <1>3, <1>4, <1>5, <1>14 DEF BodyGoesOn, h, d, c, left

LEMMA MoreBodyStores ==
  ASSUME IInv, ReadInv, NEW t \in Threads, MoreBody(t)
  PROVE  ReadInv'
<1> DEFINE k == count + 1
<1>1. /\ InLoop(t) /\ b_head_parse /\ Len(chunk[t]) < BodyRemain /\ ReArm(t, "idle")
      /\ node' = [node EXCEPT !.data = @ \o chunk[t]]
      /\ UNCHANGED <<stream, wire, over, posted, count, b_head_parse, head>>
  BY DEF MoreBody, deployment
<1>2. /\ AwaitsBody(t) /\ NothingLost(t) /\ chunk[t] \in Seq(Byte) /\ wire \in Seq(Byte)
  BY <1>1, InTheLoop
<1>3. /\ k \in 1..Len(stream) /\ Valid(stream[k])
      /\ node.id = stream[k].id /\ node.len = stream[k].len
      /\ node \in [id : Int, len : Int, data : Seq(Byte)] /\ Len(node.data) \in Nat
      /\ FrameHead(k) \in Seq(Byte)
  BY <1>1, InTheBody
<1>4. node.data \in Seq(Byte)
  BY <1>3
<1>5. node.data \o chunk[t] \in Seq(Byte) /\ Len(node.data \o chunk[t]) = Len(node.data) + Len(chunk[t])
  BY <1>2, <1>4, ConcatProperties
<1>6. /\ node' \in [id : Int, len : Int, data : Seq(Byte)]
      /\ node'.data = node.data \o chunk[t] /\ node'.id = node.id /\ node'.len = node.len
  BY <1>1, <1>3, <1>5
<1>7. AwaitsBody(t)' = TRUE
  BY <1>1 DEF AwaitsBody
<1>8. Stored(t)' = FrameHead(k) \o (node.data \o chunk[t])
  <2>1. FrameHead(count + 1)' = FrameHead(k)
    BY <1>1 DEF FrameHead
  <2> QED
    BY <1>6, <1>7, <2>1 DEF Stored
<1>9. Stored(t)' \in Seq(Byte)
  BY <1>3, <1>5, <1>8, ConcatProperties
<1>10. Len(node'.data) < node'.len
  BY <1>1, <1>2, <1>3, <1>5, <1>6, LenProperties DEF BodyRemain
<1>11. KnownSoFar(t)'
  BY <1>1, <1>2, <1>3, <1>6, <1>7, <1>10, InTheLoop DEF KnownSoFar, Valid
<1>12. Stored(t)' \o wire = Bytes[Len(stream) - count]
  <2>1. (FrameHead(k) \o node.data) \o chunk[t] = FrameHead(k) \o (node.data \o chunk[t])
    <3>1. Assoc(FrameHead(k), node.data, chunk[t])
      BY <1>2, <1>3, <1>4, Joining, Zenon
    <3> QED
      BY <3>1 DEF Assoc
  <2>2. (FrameHead(k) \o node.data) \o chunk[t] \o wire = Bytes[Len(stream) - count]
    BY <1>2 DEF NothingLost, Stored
  <2> QED
    BY <1>8, <2>1, <2>2, Zenon
<1>13. head' \in Seq(Byte)
  BY <1>1 DEF ReadInv, BufferType
<1> QED
  BY <1>1, <1>6, <1>9, <1>11, <1>12, <1>13, StoredAndReArmed

LEMMA BodyCompletePosts ==
  ASSUME IInv, ReadInv, NEW t \in Threads, BodyComplete(t)
  PROVE  ReadInv'
<1> DEFINE k == count + 1
           body == node.data \o SubSeq(chunk[t], 1, BodyRemain)
           rest == Rest(chunk[t], BodyRemain)
<1>1. /\ InLoop(t) /\ b_head_parse /\ Len(chunk[t]) >= BodyRemain
      /\ PostAndGoOn(t, [node EXCEPT !.data = body], rest)
  BY DEF BodyComplete
<1>2. chunk[t] \in Seq(Byte) /\ wire \in Seq(Byte) /\ stream \in Streams
  BY <1>1, InTheLoop
<1>3. /\ k \in 1..Len(stream) /\ Valid(stream[k]) /\ stream[k].len >= 0
      /\ node.id = stream[k].id /\ node.len = stream[k].len
      /\ node \in [id : Int, len : Int, data : Seq(Byte)] /\ Len(node.data) \in Nat
      /\ Len(node.data) < node.len
  BY <1>1, InTheBody
<1>4. BodyRemain \in 0..Len(chunk[t]) /\ Len(node.data) + BodyRemain = stream[k].len
  <2>1. Len(chunk[t]) \in Nat
    BY <1>2, LenProperties
  <2>2. Len(node.data) \in Nat /\ node.len = stream[k].len /\ Len(node.data) < node.len /\ node.len \in Int
    BY <1>3
  <2> HIDE DEF k
  <2> QED
    BY <1>1, <2>1, <2>2 DEF BodyRemain
<1>5. node.data \in Seq(Byte)
  BY <1>3
<1>6. node.data \o chunk[t] \o wire = Body(k) \o Bytes[Len(stream) - k]
  <2>1. BodyGoesOn(t)
    BY <1>1, InTheBody, Zenon
  <2> QED
    BY <2>1 DEF BodyGoesOn
<1>7. body = Body(k) /\ rest \in Seq(Byte) /\ rest \o wire = Bytes[Len(stream) - k]
  <2>1. stream \in Streams /\ k \in 1..Len(stream) /\ stream[k].len >= 0
    BY <1>2, <1>3
  <2>2. Completes(k, node.data, chunk[t], BodyRemain, wire)
    BY <1>2, <1>4, <1>5, <1>6, <2>1, BodyInFront, Zenon
  <2> QED
    BY <2>2 DEF Completes
<1> HIDE DEF body, rest
<1>8. [node EXCEPT !.data = body] = [id |-> stream[k].id, len |-> stream[k].len, data |-> Body(k)]
  BY <1>3, <1>7
<1> QED
  BY <1>1, <1>3, <1>7, <1>8, FramePosted

(* Bytes arrive: the chunk is cut off the front of the wire. Where handlers *)
(* do not overlap, nobody is in one.                                        *)
LEMMA ReadBegins ==
  ASSUME IInv, ReadInv, NEW t \in Threads, ReadCompletes(t), ~overlapped'
  PROVE  ReadInv'
<1>1. /\ armed > 0 /\ pc' = [pc EXCEPT ![t] = "loop"]
      /\ UNCHANGED <<stream, head, node, b_head_parse, over, posted, count>>
  BY DEF ReadCompletes, deployment, parse
<1>2. \A u \in Threads : pc[u] = "idle" /\ chunk[u] = <<>>
  <2>1. Quiet
    BY DEF ReadCompletes, StrandFree
  <2> QED
    BY <2>1 DEF Quiet, ReadInv, ChunkInLoop, InLoop
<1>3. /\ wire \in Seq(Byte) /\ head \in Seq(Byte) /\ node.data \in Seq(Byte)
      /\ chunk \in [Threads -> Seq(Byte)]
      /\ stream \in Streams /\ Len(stream) \in Nat /\ Len(wire) \in Nat
  BY StreamType, LenProperties DEF ReadInv, BufferType
<1>4. PICK n \in 1..Len(wire) :
        chunk' = [chunk EXCEPT ![t] = SubSeq(wire, 1, n)] /\ wire' = Rest(wire, n)
  BY DEF ReadCompletes, Rest
<1>5. n \in 0..Len(wire)
  BY <1>3, <1>4
<1>6. /\ SubSeq(wire, 1, n) \in Seq(Byte) /\ wire' \in Seq(Byte)
      /\ SubSeq(wire, 1, n) \o wire' = wire
  BY <1>3, <1>4, <1>5, PrefixAndRest
<1>7. /\ pc' \in [Threads -> {"idle", "loop", "set_flag"}] /\ chunk' \in [Threads -> Seq(Byte)]
      /\ \A u \in Threads : IF u = t THEN pc'[u] = "loop" /\ chunk'[u] = SubSeq(wire, 1, n)
                                     ELSE pc'[u] = "idle" /\ chunk'[u] = <<>>
  BY <1>1, <1>2, <1>3, <1>4, <1>6 DEF ReadInv, BufferType
<1>8. BufferType'
  BY <1>1, <1>6, <1>7 DEF ReadInv, BufferType
<1>9. AtMostOneActive' /\ ChunkInLoop'
  BY <1>7 DEF AtMostOneActive, ChunkInLoop, InLoop
<1>10. Posted'
  <2>1. \A i : Body(i)' = Body(i)
    BY <1>1 DEF Body
  <2> QED
    BY <1>1, <2>1 DEF ReadInv, Posted
<1>11. ASSUME ~over, NEW u \in Threads, Alone(u)' PROVE KnownSoFar(u)' /\ NothingLost(u)'
  <2>1. u = t
    BY <1>7, <1>11 DEF Alone
  <2>2. KnownSoFar(t) /\ NothingLost(t) /\ AwaitsBody(t) = b_head_parse
    BY <1>2, <1>11 DEF ReadInv, Parsing, Alone, AwaitsBody, BufferType
  <2>3. AwaitsBody(t)' = b_head_parse
    BY <1>1, <1>7 DEF AwaitsBody, ReadInv, BufferType
  <2>4. FrameHead(count + 1)' = FrameHead(count + 1)
    BY <1>1 DEF FrameHead
  <2>5. Stored(t)' = Stored(t)
    BY <1>1, <2>2, <2>3, <2>4 DEF Stored
  <2>6. KnownSoFar(t)'
    BY <1>1, <2>2, <2>3 DEF KnownSoFar, Valid
  <2>7. Stored(t) \in Seq(Byte)
    <3>1. CASE AwaitsBody(t)
      <4>1. FrameHead(count + 1) \in Seq(Byte)
        <5>1. count + 1 \in Nat
          BY LenProperties DEF ReadInv, Posted
        <5> QED
          BY <5>1, FrameHeadType
      <4> QED
        BY <1>3, <3>1, <4>1, ConcatProperties DEF Stored
    <3>2. CASE ~AwaitsBody(t)
      BY <1>3, <3>2 DEF Stored
    <3> QED
      BY <3>1, <3>2
  <2>8. Stored(t) \o SubSeq(wire, 1, n) \o wire' = Stored(t) \o wire
    <3>1. Assoc(Stored(t), SubSeq(wire, 1, n), wire')
      BY <1>6, <2>7, Joining, Zenon
    <3> QED
      BY <1>6, <3>1, Zenon DEF Assoc
  <2>9. Stored(t) \o wire = Bytes[Len(stream) - count]
    <3>1. Stored(t) \o <<>> = Stored(t)
      BY <2>7, ConcatEmptySeq
    <3> QED
      BY <1>2, <2>2, <3>1 DEF NothingLost
  <2>10. Bytes' = Bytes
    BY <1>1, BytesStay
  <2>11. NothingLost(t)'
    BY <1>1, <1>7, <2>5, <2>8, <2>9, <2>10 DEF NothingLost
  <2> QED
    BY <2>1, <2>6, <2>11
<1> QED
  BY <1>1, <1>8, <1>9, <1>10, <1>11 DEF ReadInv, Parsing

(* A session that ends owes nothing any more but what it has posted.        *)
LEMMA SessionEnds ==
  ASSUME ReadInv, over' = TRUE, UNCHANGED <<deployment, wire, parse, posted, count>>,
         pc' \in [Threads -> {"idle", "loop", "set_flag"}], chunk' \in [Threads -> Seq(Byte)],
         AtMostOneActive', ChunkInLoop'
  PROVE  ReadInv'
<1>1. BufferType'
  BY DEF ReadInv, BufferType, deployment, parse
<1>2. \A i : Body(i)' = Body(i)
  BY DEF Body, deployment
<1>3. Posted'
  BY <1>2 DEF ReadInv, Posted, deployment
<1> QED
  BY <1>1, <1>3 DEF ReadInv, Parsing

LEMMA HandlerKeepsReadInv ==
  ASSUME IInv, ReadInv, NEW t \in Threads, HandleRead(t)
  PROVE  ReadInv'
<1>1. ASSUME InLoop(t), over' = TRUE, pc' = [pc EXCEPT ![t] = "idle"],
             chunk' = [chunk EXCEPT ![t] = <<>>],
             UNCHANGED <<deployment, wire, parse, posted, count>>
      PROVE  ReadInv'
  <2>1. /\ pc' \in [Threads -> {"idle", "loop", "set_flag"}] /\ chunk' \in [Threads -> Seq(Byte)]
        /\ AtMostOneActive' /\ ChunkInLoop'
    BY <1>1, Returning
  <2> QED
    BY <1>1, <2>1, SessionEnds
<1>2. CASE RejectHeader(t)
  BY <1>1, <1>2 DEF RejectHeader, HeadComplete
<1>3. CASE AllocationThrows(t)
  BY <1>1, <1>3 DEF AllocationThrows, HeadComplete
<1> QED
  BY <1>2, <1>3, PartialHeadStores, PartialBodyStores, SetFlagKeeps, WholeBodyPosts,
     MoreBodyStores, BodyCompletePosts DEF HandleRead

(* A step that leaves the reader alone.                                     *)
LEMMA ReaderUnchanged ==
  ASSUME ReadInv, UNCHANGED <<deployment, wire, pc, chunk, parse, over, posted, count>>
  PROVE  ReadInv'
<1>1. BufferType' /\ AtMostOneActive' /\ ChunkInLoop'
  BY DEF ReadInv, BufferType, AtMostOneActive, ChunkInLoop, InLoop, deployment, parse
<1>2. \A i : Body(i)' = Body(i) /\ FrameHead(i)' = FrameHead(i)
  BY DEF Body, FrameHead, deployment
<1>3. Posted'
  BY <1>2 DEF ReadInv, Posted, deployment
<1>4. Bytes' = Bytes
  BY BytesStay DEF deployment
<1>5. \A t \in Threads : /\ Alone(t)' = Alone(t) /\ KnownSoFar(t)' = KnownSoFar(t)
                         /\ NothingLost(t)' = NothingLost(t)
  BY <1>2, <1>4 DEF Alone, KnownSoFar, NothingLost, Stored, AwaitsBody, Valid, deployment, parse
<1> QED
  BY <1>1, <1>3, <1>5 DEF ReadInv, Parsing

LEMMA FrameStep == FrameInv /\ [Next]_vars => FrameInv'
<1> SUFFICES ASSUME FrameInv, [Next]_vars PROVE FrameInv'
  OBVIOUS
<1>1. IInv /\ IInv'
  BY ChainStep DEF FrameInv
<1>2. overlapped => overlapped'
  BY DEF Next, ReadCompletes, ReadFails, HandleRead, PartialHead, RejectHeader, AllocationThrows,
         PartialBody, SetFlag, WholeBody, MoreBody, BodyComplete, PostAndGoOn, WriteFails,
         Finished, vars
<1>3. SUFFICES ASSUME ~overlapped' PROVE ReadInv'
  BY <1>1 DEF FrameInv
<1>4. ReadInv
  BY <1>2, <1>3 DEF FrameInv
<1>5. ASSUME NEW t \in Threads, ReadCompletes(t) PROVE ReadInv'
  BY <1>1, <1>3, <1>4, <1>5, ReadBegins
<1>6. ASSUME NEW t \in Threads, ReadFails(t) PROVE ReadInv'
  <2>1. over' = TRUE /\ UNCHANGED <<deployment, wire, pc, chunk, parse, posted, count>>
    BY <1>6 DEF ReadFails
  <2>2. /\ pc' \in [Threads -> {"idle", "loop", "set_flag"}] /\ chunk' \in [Threads -> Seq(Byte)]
        /\ AtMostOneActive' /\ ChunkInLoop'
    BY <1>4, <2>1 DEF ReadInv, BufferType, AtMostOneActive, ChunkInLoop, InLoop
  <2> QED
    BY <1>4, <2>1, <2>2, SessionEnds
<1>7. ASSUME NEW t \in Threads, HandleRead(t) PROVE ReadInv'
  BY <1>1, <1>4, <1>7, HandlerKeepsReadInv
<1>8. CASE WriteFails \/ Finished \/ UNCHANGED vars
  <2>1. UNCHANGED <<deployment, wire, pc, chunk, parse, over, posted, count>>
    BY <1>8 DEF WriteFails, Finished, vars, deployment, parse
  <2> QED
    BY <1>4, <2>1, ReaderUnchanged
<1> QED
  BY <1>5, <1>6, <1>7, <1>8 DEF Next

(* For every stream, every way in which its bytes arrive and any number of  *)
(* threads, HandleRead posts the frames the client sent, each with its own  *)
(* id and body and in order, as long as no two handlers have overlapped.    *)
THEOREM FramesPostedExactly == Spec => []FramesExact
<1>1. FrameInv => FramesExact
  BY DEF FrameInv, ReadInv, Posted, FramesExact
<1> QED
  BY <1>1, FrameInit, FrameStep, PTL DEF Spec

-----------------------------------------------------------------------------
(* The refinement of FrameReader.                                           *)

LEMMA HandlerRefines ==
  ASSUME IInv, ReadInv, NEW t \in Threads, HandleRead(t)
  PROVE  Abstract!Next \/ UNCHANGED Abstract!vars
<1> DEFINE k == count + 1
<1>1. CASE PartialHead(t) \/ PartialBody(t) \/ SetFlag(t) \/ MoreBody(t)
  BY <1>1 DEF PartialHead, PartialBody, SetFlag, MoreBody, deployment, Abstract!vars
<1>2. ASSUME HeadComplete(t)
      PROVE  /\ ~over /\ count < Len(stream) /\ count \in Nat
             /\ Header(WholeHead(t)) = {stream[k]}
             /\ stream[k] \in [id : Int, len : Int \ {-1}]
  <2>1. InLoop(t)
    BY <1>2 DEF HeadComplete
  <2>2. ~over /\ count \in 0..Len(stream) /\ Len(stream) \in Nat /\ stream \in Streams
    BY <2>1, InTheLoop
  <2>3. k \in 1..Len(stream) /\ Header(WholeHead(t)) = {stream[k]}
    BY <1>2, HeadDecoded
  <2> QED
    BY <2>2, <2>3, StreamType
<1>3. CASE RejectHeader(t) \/ AllocationThrows(t)
  <2>1. HeadComplete(t) /\ over' = TRUE /\ UNCHANGED <<stream, count, closed>>
    BY <1>3 DEF RejectHeader, AllocationThrows, deployment
  <2>2. ~Valid(stream[k]) \/ stream[k].len < 0
    BY <1>2, <1>3, <2>1 DEF RejectHeader, AllocationThrows
  <2>3. ~Abstract!InRange(stream[k])
    BY <2>2, SessionReadAssumption DEF Valid, Abstract!InRange, SessionReadAssumption
  <2> QED
    BY <1>2, <2>1, <2>3 DEF Abstract!Next, Abstract!RejectFrame
<1>4. CASE WholeBody(t)
  <2>1. HeadComplete(t) /\ count' = count + 1 /\ UNCHANGED <<stream, closed, over>>
    BY <1>4 DEF WholeBody, PostAndGoOn, deployment
  <2>2. Valid(stream[k]) /\ stream[k].len >= 0
    BY <1>2, <1>4, <2>1 DEF WholeBody
  <2>3. Abstract!InRange(stream[k])
    BY <1>2, <2>1, <2>2, SessionReadAssumption DEF Valid, Abstract!InRange, SessionReadAssumption
  <2> QED
    BY <1>2, <2>1, <2>3 DEF Abstract!Next, Abstract!PostFrame
<1>5. CASE BodyComplete(t)
  <2>1. /\ InLoop(t) /\ b_head_parse
        /\ count' = count + 1 /\ UNCHANGED <<stream, closed, over>>
    BY <1>5 DEF BodyComplete, PostAndGoOn, deployment
  <2>2. ~over /\ count \in 0..Len(stream) /\ Len(stream) \in Nat /\ stream \in Streams
    BY <2>1, InTheLoop
  <2>3. k \in 1..Len(stream) /\ Valid(stream[k]) /\ stream[k].len >= 0
    BY <2>1, InTheBody
  <2>4. Abstract!InRange(stream[k])
    BY <2>2, <2>3, StreamType, SessionReadAssumption
       DEF Valid, Abstract!InRange, SessionReadAssumption
  <2> QED
    BY <2>1, <2>2, <2>3, <2>4 DEF Abstract!Next, Abstract!PostFrame
<1> QED
  BY <1>1, <1>3, <1>4, <1>5 DEF HandleRead

LEMMA StepRefines ==
  ASSUME FrameInv, [Next]_vars
  PROVE  [overlapped' \/ Abstract!Next]_(Abstract!vars)
<1>1. IInv
  BY DEF FrameInv
<1>2. overlapped => overlapped'
  BY DEF Next, ReadCompletes, ReadFails, HandleRead, PartialHead, RejectHeader, AllocationThrows,
         PartialBody, SetFlag, WholeBody, MoreBody, BodyComplete, PostAndGoOn, WriteFails,
         Finished, vars
<1>3. SUFFICES ASSUME ~overlapped' PROVE Abstract!Next \/ UNCHANGED Abstract!vars
  OBVIOUS
<1>4. ReadInv
  BY <1>2, <1>3 DEF FrameInv
<1>5. ASSUME NEW t \in Threads, ReadCompletes(t) PROVE UNCHANGED Abstract!vars
  BY <1>5 DEF ReadCompletes, deployment, Abstract!vars
<1>6. ASSUME NEW t \in Threads, ReadFails(t) PROVE Abstract!Next
  <2>1. ~over
    BY <1>1, <1>6, NotOver DEF ReadFails
  <2> QED
    BY <1>6, <2>1 DEF ReadFails, deployment, Abstract!Next, Abstract!ConnectionEnds
<1>7. ASSUME NEW t \in Threads, HandleRead(t) PROVE Abstract!Next \/ UNCHANGED Abstract!vars
  BY <1>1, <1>4, <1>7, HandlerRefines
<1>8. CASE WriteFails
  BY <1>8 DEF WriteFails, deployment, Abstract!Next, Abstract!SocketCloses
<1>9. CASE Finished \/ UNCHANGED vars
  BY <1>9 DEF Finished, vars, Abstract!vars
<1> QED
  BY <1>5, <1>6, <1>7, <1>8, <1>9 DEF Next

(* HandleRead keeps the promise of FrameReader for every stream: until two  *)
(* handlers overlap, each of its steps posts the next frame of the client,  *)
(* rejects it because it is out of range, ends with the connection, or is   *)
(* not seen.                                                                *)
THEOREM ImplementsFrameReader == Spec => RefinesFrameReader
<1>1. Init => Abstract!Init
  BY DEF Init, Abstract!Init
<1>2. FrameInv /\ [Next]_vars => [overlapped' \/ Abstract!Next]_(Abstract!vars)
  BY StepRefines
<1> QED
  BY <1>1, <1>2, FrameInit, FrameStep, PTL DEF Spec, RefinesFrameReader
=============================================================================
