----------------------- MODULE CoroutineSessionProofs -----------------------
(***************************************************************************)
(* The lifetime of a coroutine's session, and the safety part of its       *)
(* refinement of FrameReader, for every limit and every stream without a   *)
(* frame of length -1 (CoroutineAssumption).                               *)
(*                                                                         *)
(* The invariant follows the registration: between the spawn and its own   *)
(* end the coroutine is covered by the accept handler and then by the      *)
(* registry, which only EndSession (the coroutine's end) and a failed      *)
(* write clear. The refinement needs in addition that a failed write has   *)
(* closed the socket, and what HeadRead has established of the frame whose *)
(* body is awaited.                                                        *)
(***************************************************************************)
EXTENDS CoroutineSession, TLAPS, SequenceTheorems

(* What the proofs need of the types.                                       *)
CoroutineType ==
  /\ stream \in Seq([id : Int, len : Int \ {-1}])
  /\ count \in Nat
  /\ accept \in {"pending", "inserting", "returned"}
  /\ co \in {"none", "loop", "head", "body", "ended", "dangling"}
  /\ closed \in BOOLEAN

(* Before the spawn there is no coroutine; after it somebody holds the      *)
(* session, or a write has failed.                                          *)
Covered ==
  /\ accept = "pending" <=> co = "none"
  /\ Reading => accept # "returned" \/ registered \/ wfailed

FailureClosed == wfailed => closed

(* The frame whose body is awaited has passed the tests of its head.        *)
BodyOfFrame ==
  co = "body" => /\ count < Len(stream)
                 /\ InRange(stream[count + 1])
                 /\ stream[count + 1].len >= 0

IInv == CoroutineType /\ Covered /\ FailureClosed /\ BodyOfFrame

LEMMA InvInit == Init => IInv
<1> SUFFICES ASSUME Init PROVE IInv
  OBVIOUS
<1>1. stream \in Seq([id : Int, len : Int \ {-1}])
  BY Zenon, CoroutineAssumption DEF Init, CoroutineAssumption
<1>2. CoroutineType
  BY <1>1 DEF Init, CoroutineType
<1>3. Covered /\ FailureClosed /\ BodyOfFrame
  BY DEF Init, Covered, FailureClosed, BodyOfFrame, Reading
<1> QED
  BY <1>2, <1>3 DEF IInv

LEMMA TypeStep == IInv /\ [Next]_vars => CoroutineType'
<1> SUFFICES ASSUME IInv, [Next]_vars PROVE CoroutineType'
  OBVIOUS
<1> USE DEF IInv, CoroutineType
<1>1. CASE HandleAccept
  BY <1>1 DEF HandleAccept, Start, Insert, client, send
<1>2. CASE Coroutine
  <2>1. UNCHANGED <<stream, accept>> /\ count' \in {count, count + 1}
    <3>1. CASE LoopTest \/ ResumeDangling
      BY <3>1 DEF LoopTest, ResumeDangling, client, refs
    <3>2. CASE HeadRead
      BY <3>2 DEF HeadRead, client
    <3>3. CASE BodyRead
      BY <3>3 DEF BodyRead
    <3> QED
      BY <1>2, <3>1, <3>2, <3>3 DEF Coroutine
  <2>2. co' \in {"none", "loop", "head", "body", "ended", "dangling"}
    BY <1>2 DEF Coroutine, LoopTest, HeadRead, BodyRead, ResumeDangling, EndSession
  <2>3. closed' \in BOOLEAN
    <3>1. CASE LoopTest \/ ResumeDangling
      BY <3>1 DEF LoopTest, ResumeDangling
    <3>2. CASE HeadRead \/ BodyRead
      BY <3>2, Zenon DEF HeadRead, BodyRead, EndSession
    <3> QED
      BY <1>2, <3>1, <3>2 DEF Coroutine
  <2> QED
    BY <2>1, <2>2, <2>3
<1>3. CASE ReadThrows
  BY <1>3 DEF ReadThrows, EndSession, client, send
<1>4. CASE DealMsg
  BY <1>4 DEF DealMsg, client, refs
<1>5. CASE HandleWrite
  BY <1>5 DEF HandleWrite, WriteCompletes, WriteFails, client, refs
<1>6. CASE Finished \/ UNCHANGED vars
  BY <1>6 DEF Finished, vars, client, refs
<1> QED
  BY <1>1, <1>2, <1>3, <1>4, <1>5, <1>6 DEF Next

LEMMA CoveredStep == IInv /\ [Next]_vars => Covered' /\ FailureClosed'
<1> SUFFICES ASSUME IInv, [Next]_vars PROVE Covered' /\ FailureClosed'
  OBVIOUS
<1> USE DEF IInv, CoroutineType, Covered, FailureClosed, Reading
<1>1. CASE HandleAccept
  BY <1>1 DEF HandleAccept, Start, Insert, send
<1>2. CASE Coroutine
  BY <1>2 DEF Coroutine, LoopTest, HeadRead, BodyRead, ResumeDangling, EndSession,
              refs, send
<1>3. CASE ReadThrows
  BY <1>3 DEF ReadThrows, EndSession, send
<1>4. CASE DealMsg
  BY <1>4 DEF DealMsg, refs
<1>5. CASE HandleWrite
  BY <1>5 DEF HandleWrite, WriteCompletes, WriteFails, refs
<1>6. CASE Finished \/ UNCHANGED vars
  BY <1>6 DEF Finished, vars, refs, send
<1> QED
  BY <1>1, <1>2, <1>3, <1>4, <1>5, <1>6 DEF Next

LEMMA BodyStep == IInv /\ [Next]_vars => BodyOfFrame'
<1> SUFFICES ASSUME IInv, [Next]_vars PROVE BodyOfFrame'
  OBVIOUS
<1> USE DEF IInv, BodyOfFrame, InRange
<1>1. CASE HandleAccept
  BY <1>1 DEF HandleAccept, Start, Insert, client
<1>2. CASE Coroutine
  BY <1>2 DEF Coroutine, LoopTest, HeadRead, BodyRead, ResumeDangling, EndSession, client
<1>3. CASE ReadThrows
  BY <1>3 DEF ReadThrows, EndSession
<1>4. CASE DealMsg
  BY <1>4 DEF DealMsg, client
<1>5. CASE HandleWrite
  BY <1>5 DEF HandleWrite, WriteCompletes, WriteFails, client
<1>6. CASE Finished \/ UNCHANGED vars
  BY <1>6 DEF Finished, vars, client
<1> QED
  BY <1>1, <1>2, <1>3, <1>4, <1>5, <1>6 DEF Next

LEMMA InvStep == IInv /\ [Next]_vars => IInv'
BY TypeStep, CoveredStep, BodyStep DEF IInv

LEMMA InvAlways == Spec => []IInv
BY InvInit, InvStep, PTL DEF Spec

(* The registry keeps the session of a running coroutine, whose lambda      *)
(* holds only `this`: it can be resumed after the session's destruction     *)
(* only when a write has failed before. Streams with a frame of length -1,  *)
(* whose reading is undefined, are outside CoroutineAssumption.             *)
THEOREM CoroutineIsKept == Spec => []CoroutineKeepsSession
<1>1. IInv => CoroutineKeepsSession
  BY DEF IInv, Covered, CoroutineKeepsSession, Alive
<1> QED
  BY <1>1, InvAlways, PTL

LEMMA AbstractInit == Init => Abstract!Init
BY DEF Init, Abstract!Init, Over

LEMMA AbstractStep == IInv /\ [Next]_vars => [Abstract!Next]_(Abstract!vars)
<1> SUFFICES ASSUME IInv, [Next]_vars PROVE [Abstract!Next]_(Abstract!vars)
  OBVIOUS
<1> USE DEF IInv, CoroutineType, Over, Abstract!vars, Abstract!Next
<1>1. CASE HandleAccept
  BY <1>1 DEF HandleAccept, Start, Insert, client, Covered
<1>2. CASE LoopTest
  BY <1>2 DEF LoopTest, client, Abstract!ConnectionEnds
<1>3. CASE HeadRead
  <2>1. CASE ~InRange(stream[count + 1]) /\ EndSession(FALSE)
    BY <1>3, <2>1 DEF HeadRead, EndSession, client, InRange,
                      Abstract!RejectFrame, Abstract!InRange
  <2>2. CASE EndSession(TRUE)
    BY <1>3, <2>2 DEF HeadRead, EndSession, client, Abstract!ConnectionEnds
  <2>3. CASE co' = "body" /\ closed' = closed
    BY <1>3, <2>3 DEF HeadRead, client
  <2> QED
    BY <1>3, <2>1, <2>2, <2>3 DEF HeadRead
<1>4. CASE BodyRead
  <2>1. CASE EndSession(TRUE) /\ UNCHANGED count
    BY <1>4, <2>1 DEF BodyRead, EndSession, Abstract!ConnectionEnds
  <2>2. CASE co' = "loop" /\ count' = count + 1 /\ closed' = closed
    <3>0. count + 1 \in 1..Len(stream)
      BY <1>4 DEF BodyRead, BodyOfFrame
    <3>1. stream[count + 1] \in [id : Int, len : Int \ {-1}]
      BY <3>0, ElementOfSeq
    <3>2. Abstract!InRange(stream[count + 1])
      BY <1>4, <3>1, CoroutineAssumption
         DEF BodyRead, BodyOfFrame, InRange, Abstract!InRange, CoroutineAssumption
    <3> QED
      BY <1>4, <2>2, <3>2 DEF BodyRead, BodyOfFrame, Abstract!PostFrame
  <2> QED
    BY <1>4, <2>1, <2>2 DEF BodyRead
<1>5. CASE ResumeDangling
  BY <1>5 DEF ResumeDangling, client, Covered, Reading, Alive, FailureClosed,
              Abstract!ConnectionEnds
<1>6. CASE ReadThrows
  BY <1>6 DEF ReadThrows, EndSession, client, Abstract!ConnectionEnds
<1>7. CASE DealMsg
  BY <1>7 DEF DealMsg, client
<1>8. CASE WriteCompletes
  BY <1>8 DEF WriteCompletes, client
<1>9. CASE WriteFails
  BY <1>9 DEF WriteFails, client, Abstract!SocketCloses
<1>10. CASE Finished \/ UNCHANGED vars
  BY <1>10 DEF Finished, vars, client
<1> QED
  BY <1>1, <1>2, <1>3, <1>4, <1>5, <1>6, <1>7, <1>8, <1>9, <1>10
     DEF Next, Coroutine, HandleWrite

(* The coroutine implements FrameReader: for any stream in which no frame   *)
(* has the length -1, of which the code makes a read into a buffer of       *)
(* SIZE_MAX bytes, its posts, its ends and its closes are those of the      *)
(* abstract reader.                                                         *)
THEOREM CoroutineImplementsFrameReader == Spec => RefinesFrameReader
<1> QED
  BY AbstractInit, AbstractStep, InvAlways, PTL DEF Spec, RefinesFrameReader, Abstract!Spec
=============================================================================
