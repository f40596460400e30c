----------------------------- MODULE RelayProofs -----------------------------
(***************************************************************************)
(* Proofs about Relay, for every stream, queue and socket size: what the   *)
(* target has, the queue, the chunk in the reader's hand and the socket    *)
(* are consecutive pieces of the stream, so a relay that ends well has     *)
(* delivered all that the source wrote; and while the target is late the   *)
(* source is read until queue and socket are full.                         *)
(***************************************************************************)
EXTENDS Relay, TLAPS

(* Taking the head of a sequence, and appending to one.                    *)
LEMMA TailFacts ==
  ASSUME NEW S, NEW s \in Seq(S), s # <<>>
  PROVE  /\ Tail(s) \in Seq(S) /\ Len(Tail(s)) = Len(s) - 1 /\ Len(s) >= 1
         /\ Head(s) = s[1] /\ Head(s) \in S
         /\ \A i \in 1 .. Len(Tail(s)) : Tail(s)[i] = s[i + 1]
  OBVIOUS

LEMMA AppendFacts ==
  ASSUME NEW S, NEW s \in Seq(S), NEW e \in S
  PROVE  /\ Append(s, e) \in Seq(S) /\ Len(Append(s, e)) = Len(s) + 1
         /\ \A i \in 1 .. Len(s) : Append(s, e)[i] = s[i]
         /\ Append(s, e)[Len(s) + 1] = e
  OBVIOUS

LEMMA InitConsecutive == Init => Consecutive
  BY RelayAssumption DEF Init, Consecutive, TypeOK, Delivered, Queued, Held, Wired, Counted, Closing, InHand, Ended

(* A chunk moves from the queue to the target.                             *)
LEMMA DrainKeeps == Consecutive /\ Drain => Consecutive'
<1>. SUFFICES ASSUME Consecutive, Drain PROVE Consecutive'
  OBVIOUS
<1>. USE RelayAssumption DEF Consecutive, TypeOK
<1>1. /\ queue' \in Seq(1 .. Total) /\ Len(queue') = Len(queue) - 1 /\ Len(queue) >= 1
      /\ Head(queue) = queue[1] /\ Head(queue) \in 1 .. Total
      /\ \A i \in 1 .. Len(queue') : queue'[i] = queue[i + 1]
  BY TailFacts DEF Drain
<1>2. /\ got' \in Seq(1 .. Total) /\ Len(got') = Len(got) + 1
      /\ \A i \in 1 .. Len(got) : got'[i] = got[i]
      /\ got'[Len(got) + 1] = Head(queue)
  BY <1>1, AppendFacts DEF Drain
<1>3. TypeOK'
  <2>1. unread' \in 0 .. Socket
    BY DEF Drain
  <2>. QED
    BY <1>1, <1>2, <2>1 DEF Drain
<1>4. Len(got) \in Nat /\ Len(queue) \in Nat /\ Len(wire) \in Nat /\ sent \in Nat
  OBVIOUS
<1>5. InHand' = InHand /\ InHand \in {0, 1} /\ UNCHANGED <<task, reader, src, sent, wire, held>>
  BY DEF InHand, Drain
<1>6. ASSUME NEW i \in 1 .. Len(got') PROVE got'[i] = i
  <2>1. CASE i \in 1 .. Len(got)
    <3>1. got[i] = i
      BY <2>1 DEF Delivered
    <3>. QED
      BY <1>2, <2>1, <3>1
  <2>2. CASE i = Len(got) + 1
    BY <1>1, <1>2, <1>4, <2>2 DEF Queued
  <2>. QED
    BY <1>2, <1>4, <2>1, <2>2
<1>7. ASSUME NEW i \in 1 .. Len(queue') PROVE queue'[i] = Len(got') + i
  <2>1. i + 1 \in 1 .. Len(queue)
    BY <1>1, <1>4
  <2>2. queue[i + 1] = Len(got) + (i + 1)
    BY <2>1 DEF Queued
  <2>. QED
    BY <1>1, <1>2, <1>4, <2>1, <2>2
<1>8. Held'
  BY <1>1, <1>2, <1>4, <1>5 DEF Held
<1>9. Len(got') + Len(queue') = Len(got) + Len(queue)
  BY <1>1, <1>2, <1>4
<1>10. Wired'
  BY <1>9, <1>5 DEF Wired
<1>11. got' # <<>>
  BY <1>2, <1>4
<1>12. Counted' /\ Closing'
  BY <1>9, <1>5, <1>11 DEF Counted, Closing, Drain
<1>13. Delivered'
  BY <1>6 DEF Delivered
<1>14. Queued'
  BY <1>7 DEF Queued
<1>. HIDE DEF TypeOK
<1>. QED
  BY <1>3, <1>8, <1>10, <1>12, <1>13, <1>14

(* A chunk moves from the socket to the reader's hand.                     *)
LEMMA ReadKeeps == Consecutive /\ Read => Consecutive'
<1>. SUFFICES ASSUME Consecutive, Read PROVE Consecutive'
  OBVIOUS
<1>. USE RelayAssumption DEF Consecutive, TypeOK
<1>1. /\ wire' \in Seq(1 .. Total) /\ Len(wire') = Len(wire) - 1 /\ Len(wire) >= 1
      /\ held' = wire[1] /\ held' \in 1 .. Total
      /\ \A i \in 1 .. Len(wire') : wire'[i] = wire[i + 1]
  BY TailFacts DEF Read, CanRead
<1>2. TypeOK'
  BY <1>1 DEF Read, CanRead
<1>3. Delivered' /\ Queued'
  BY DEF Read, CanRead, Delivered, Queued
<1>4. InHand = 0 /\ InHand' = 1
  BY DEF InHand, Read, CanRead
<1>5. Held'
  BY <1>1, <1>4 DEF Held, Wired, Read, CanRead
<1>6. Wired'
  BY <1>1, <1>4 DEF Wired, Read, CanRead
<1>7. Counted' /\ Closing'
  BY <1>1, <1>4 DEF Counted, Closing, Read, CanRead
<1>. QED
  BY <1>2, <1>3, <1>5, <1>6, <1>7

(* A chunk moves from the reader's hand to the queue.                      *)
LEMMA EnqueueKeeps == Consecutive /\ Enqueue => Consecutive'
<1>. SUFFICES ASSUME Consecutive, Enqueue PROVE Consecutive'
  OBVIOUS
<1>. USE RelayAssumption DEF Consecutive, TypeOK
<1>1. InHand = 1 /\ InHand' = 0 /\ held = Len(got) + Len(queue) + 1
  BY DEF InHand, Enqueue, CanEnqueue, Held
<1>2. held \in 1 .. Total
  BY <1>1 DEF Counted, Enqueue, CanEnqueue
<1>3. /\ queue' \in Seq(1 .. Total) /\ Len(queue') = Len(queue) + 1
      /\ \A i \in 1 .. Len(queue) : queue'[i] = queue[i]
      /\ queue'[Len(queue) + 1] = held
  BY <1>2, AppendFacts DEF Enqueue, CanEnqueue
<1>4. TypeOK'
  BY <1>3 DEF Enqueue, CanEnqueue
<1>5. Delivered' /\ Held'
  BY DEF Enqueue, CanEnqueue, Delivered, Held
<1>6. Len(got) \in Nat /\ Len(queue) \in Nat /\ Len(wire) \in Nat /\ sent \in Nat
  OBVIOUS
<1>7. ASSUME NEW i \in 1 .. Len(queue') PROVE queue'[i] = Len(got') + i
  <2>1. CASE i \in 1 .. Len(queue)
    <3>1. queue[i] = Len(got) + i
      BY <2>1 DEF Queued
    <3>2. got' = got
      BY DEF Enqueue, CanEnqueue
    <3>. QED
      BY <1>3, <2>1, <3>1, <3>2
  <2>2. CASE i = Len(queue) + 1
    BY <1>1, <1>3, <1>6, <2>2 DEF Enqueue, CanEnqueue
  <2>. QED
    BY <1>3, <1>6, <2>1, <2>2
<1>8. Len(got') + Len(queue') + InHand' = Len(got) + Len(queue) + InHand
  BY <1>1, <1>3, <1>6 DEF Enqueue, CanEnqueue
<1>9. Wired'
  BY <1>8 DEF Wired, Enqueue, CanEnqueue
<1>10. Counted' /\ Closing'
  BY <1>1, <1>3, <1>6, <1>8 DEF Counted, Closing, Enqueue, CanEnqueue, Ended
<1>. QED
  BY <1>4, <1>5, <1>7, <1>9, <1>10 DEF Queued

(* The source writes a chunk.                                              *)
LEMMA WriteKeeps == Consecutive /\ SourceWrites => Consecutive'
<1>. SUFFICES ASSUME Consecutive, SourceWrites PROVE Consecutive'
  OBVIOUS
<1>. USE RelayAssumption DEF Consecutive, TypeOK
<1>1. sent + 1 \in 1 .. Total
  BY DEF SourceWrites
<1>2. /\ wire' \in Seq(1 .. Total) /\ Len(wire') = Len(wire) + 1
      /\ \A i \in 1 .. Len(wire) : wire'[i] = wire[i]
      /\ wire'[Len(wire) + 1] = sent + 1
  BY <1>1, AppendFacts DEF SourceWrites
<1>3. TypeOK'
  BY <1>1, <1>2 DEF SourceWrites
<1>4. Delivered' /\ Queued' /\ Held' /\ InHand' = InHand
  BY DEF SourceWrites, Delivered, Queued, Held, InHand
<1>5. Len(got) \in Nat /\ Len(queue) \in Nat /\ Len(wire) \in Nat /\ sent \in Nat /\ InHand \in {0, 1}
  BY DEF InHand
<1>6. ASSUME reader \in {"read", "send"}, NEW i \in 1 .. Len(wire')
      PROVE  wire'[i] = Len(got) + Len(queue) + InHand + i
  <2>1. CASE i \in 1 .. Len(wire)
    <3>1. wire[i] = Len(got) + Len(queue) + InHand + i
      BY <1>6, <2>1 DEF Wired
    <3>. QED
      BY <1>2, <2>1, <3>1
  <2>2. CASE i = Len(wire) + 1
    <3>1. Len(got) + Len(queue) + InHand + Len(wire) = sent
      BY <1>6 DEF Counted
    <3>. QED
      BY <1>2, <1>5, <2>2, <3>1
  <2>. QED
    BY <1>2, <1>5, <2>1, <2>2
<1>7. Wired'
  BY <1>4, <1>6 DEF Wired, SourceWrites
<1>8. Counted'
  BY <1>2, <1>4, <1>5 DEF Counted, Closing, SourceWrites
<1>9. Closing'
  BY DEF Counted, Closing, SourceWrites
<1>. QED
  BY <1>3, <1>4, <1>7, <1>8, <1>9

(* Every other step leaves the chunks where they are.                      *)
LEMMA ControlKeeps ==
  ASSUME Consecutive, UNCHANGED <<sent, wire, held, queue, got>>,
         AcceptSource \/ AcceptTarget \/ WriteFails \/ Finish \/ DropRelay \/ ReadEnds \/ ReaderAborted
           \/ SourceCloses \/ SourceBreaks \/ TargetReads \/ TargetBreaks
  PROVE  Consecutive'
<1>. USE DEF Consecutive
<1>0. unread' \in 0 .. Socket
  <2>1. Socket \in Nat /\ unread \in 0 .. Socket
    BY RelayAssumption DEF TypeOK
  <2>. QED
    BY <2>1 DEF AcceptSource, AcceptTarget, WriteFails, Finish, DropRelay, ReadEnds, ReaderAborted,
                SourceCloses, SourceBreaks, TargetReads, TargetBreaks
<1>1. TypeOK'
  BY <1>0 DEF TypeOK, Ended, AcceptSource, AcceptTarget, WriteFails, Finish, DropRelay, ReadEnds, ReaderAborted,
              SourceCloses, SourceBreaks, TargetReads, TargetBreaks
<1>2. Delivered' /\ Queued'
  BY DEF Delivered, Queued
<1>3. CASE AcceptSource
  <2>1. Len(wire) = 0 /\ Len(got) = 0 /\ Len(queue) = 0 /\ sent = 0
    BY <1>3 DEF TypeOK, Closing, Counted, AcceptSource
  <2>. QED
    BY <1>1, <1>2, <1>3, <2>1 DEF Held, Wired, Counted, Closing, AcceptSource, InHand, TypeOK
<1>4. CASE ReadEnds \/ ReaderAborted
  BY <1>1, <1>2, <1>4 DEF Held, Wired, Counted, Closing, ReadEnds, ReaderAborted, InHand, TypeOK, Ended
<1>5. CASE Finish
  BY <1>1, <1>2, <1>5 DEF Held, Wired, Counted, Closing, Finish, InHand, TypeOK
<1>6. CASE AcceptTarget \/ WriteFails \/ DropRelay
  BY <1>1, <1>2, <1>6 DEF Held, Wired, Counted, Closing, AcceptTarget, WriteFails, DropRelay, InHand, TypeOK, Ended
<1>7. CASE SourceCloses \/ SourceBreaks \/ TargetReads \/ TargetBreaks
  BY <1>1, <1>2, <1>7 DEF Held, Wired, Counted, Closing, SourceCloses, SourceBreaks, TargetReads, TargetBreaks, InHand, TypeOK
<1>. QED
  BY <1>3, <1>4, <1>5, <1>6, <1>7

LEMMA StepKeeps == Consecutive /\ [Next]_vars => Consecutive'
<1>. SUFFICES ASSUME Consecutive, [Next]_vars PROVE Consecutive'
  OBVIOUS
<1>1. CASE Drain
  BY <1>1, DrainKeeps
<1>2. CASE Read
  BY <1>2, ReadKeeps
<1>3. CASE Enqueue
  BY <1>3, EnqueueKeeps
<1>4. CASE SourceWrites
  BY <1>4, WriteKeeps
<1>5. CASE AcceptSource \/ AcceptTarget \/ WriteFails \/ Finish \/ DropRelay \/ ReadEnds \/ ReaderAborted
           \/ SourceCloses \/ SourceBreaks \/ TargetReads \/ TargetBreaks
  <2>1. UNCHANGED <<sent, wire, held, queue, got>>
    BY <1>5 DEF AcceptSource, AcceptTarget, WriteFails, Finish, DropRelay, ReadEnds, ReaderAborted,
                SourceCloses, SourceBreaks, TargetReads, TargetBreaks
  <2>. QED
    BY <1>5, <2>1, ControlKeeps
<1>6. CASE UNCHANGED vars
  BY <1>6 DEF vars, Consecutive, TypeOK, Delivered, Queued, Held, Wired, Counted, Closing, InHand
<1>. QED
  BY <1>1, <1>2, <1>3, <1>4, <1>5, <1>6 DEF Next, Reader

(* A source that closes before the end of its stream was left waiting by a *)
(* queue and a socket that were full.                                      *)
LEMMA CloseFull ==
  ASSUME IInv, SourceCloses, sent < Total, task \notin Ended \cup {"drain"}
  PROVE  sent = Buffer + Socket + 1
<1>. USE RelayAssumption DEF Consecutive, TypeOK
<1>1. src = "open" /\ Len(wire) = Socket /\ ~CanRead /\ ~CanEnqueue
  BY DEF SourceCloses, Blocked, IInv
<1>2. task = "accept_target" /\ got = <<>>
  BY <1>1 DEF IInv, Attended, Early
<1>3. reader \in {"read", "send"}
  BY <1>1, <1>2 DEF IInv, Attended, Closing, Ended
<1>4. wire # <<>>
  BY <1>1
<1>5. reader = "send" /\ Len(queue) = Buffer
  <2>1. reader = "send" /\ ~(Len(queue) < Buffer)
    BY <1>1, <1>2, <1>3, <1>4 DEF CanRead, CanEnqueue, Ended
  <2>2. Len(queue) \in Nat /\ Len(queue) <= Buffer /\ Buffer \in Nat
    BY DEF IInv
  <2>. QED
    BY <2>1, <2>2
<1>6. Len(got) + Len(queue) + 1 + Len(wire) = sent /\ Len(got) = 0
  BY <1>2, <1>5 DEF IInv, Counted, InHand
<1>7. sent \in Nat /\ Buffer \in Nat /\ Socket \in Nat
  BY DEF IInv
<1>. QED
  BY <1>1, <1>5, <1>6, <1>7

(* Every step keeps what Pumped rests on.                                  *)
LEMMA PumpedStep == IInv /\ [Next]_vars => Early' /\ Attended' /\ Pumped'
<1>. SUFFICES ASSUME IInv, [Next]_vars PROVE Early' /\ Attended' /\ Pumped'
  OBVIOUS
<1>1. Early /\ Attended /\ Pumped /\ Closing
  BY DEF IInv, Consecutive
<1>2. Early'
  BY <1>1 DEF Early, Next, Reader, vars, AcceptSource, AcceptTarget, Drain, WriteFails, Finish, DropRelay,
         Read, Enqueue, ReadEnds, ReaderAborted, SourceWrites, SourceCloses, SourceBreaks, TargetReads, TargetBreaks, Ended
<1>3. Attended'
  BY <1>1 DEF Attended, Closing, Next, Reader, vars, AcceptSource, AcceptTarget, Drain, WriteFails, Finish,
         DropRelay, Read, Enqueue, CanRead, CanEnqueue, ReadEnds, ReaderAborted, SourceWrites, SourceCloses,
         SourceBreaks, TargetReads, TargetBreaks, Ended
<1>4. Pumped'
  <2>1. CASE SourceCloses
    BY <2>1, CloseFull DEF Pumped, SourceCloses
  <2>2. CASE SourceWrites
    BY <2>2 DEF SourceWrites, Pumped
  <2>3. CASE AcceptSource \/ SourceBreaks
    BY <2>3 DEF AcceptSource, SourceBreaks, Pumped
  <2>4. CASE AcceptTarget \/ WriteFails \/ Finish \/ DropRelay
    BY <2>4 DEF AcceptTarget, WriteFails, Finish, DropRelay, Pumped, Ended
  <2>5. CASE Drain \/ Reader \/ TargetReads \/ TargetBreaks \/ UNCHANGED vars
    <3>1. UNCHANGED <<src, sent, task>>
      BY <2>5 DEF Drain, Reader, Read, Enqueue, ReadEnds, ReaderAborted, TargetReads, TargetBreaks, vars
    <3>. QED
      BY <1>1, <3>1 DEF Pumped
  <2>. QED
    BY <2>1, <2>2, <2>3, <2>4, <2>5 DEF Next
<1>. QED
  BY <1>2, <1>3, <1>4

LEMMA InitInv == Init => IInv
<1>1. Init => Early /\ Attended /\ Pumped
  BY DEF Init, Early, Attended, Pumped
<1>. QED
  BY <1>1, InitConsecutive DEF IInv

LEMMA NextInv == IInv /\ [Next]_vars => IInv'
  BY StepKeeps, PumpedStep DEF IInv

(* The inductive invariant holds for every stream, queue and socket size   *)
(* (relay.rs, Relay::spawn).                                               *)
THEOREM Invariance == Spec => []IInv
<1>. QED
  BY InitInv, NextInv, PTL DEF Spec

(* A relay that ends well has delivered all that the source wrote, in      *)
(* order (relay.rs:136-150).                                               *)
THEOREM Delivery == Spec => []OkDelivers
<1>1. ASSUME Consecutive PROVE OkDelivers
  <2>. SUFFICES ASSUME task = "ok" PROVE src = "closed" /\ sent > 0 /\ got = [i \in 1 .. sent |-> i]
    BY DEF OkDelivers
  <2>1. src = "closed" /\ Len(queue) = 0 /\ Len(wire) = 0 /\ reader = "eof" /\ got # <<>>
    BY <1>1 DEF Consecutive, Closing, TypeOK
  <2>2. Len(got) = sent /\ Len(got) > 0
    BY <1>1, <2>1 DEF Consecutive, Counted, InHand, TypeOK
  <2>3. got = [i \in 1 .. sent |-> i]
    BY <1>1, <2>2 DEF Consecutive, Delivered, TypeOK
  <2>. QED
    BY <2>1, <2>2, <2>3
<1>2. IInv => OkDelivers
  BY <1>1 DEF IInv
<1>. QED
  BY <1>2, Invariance, PTL

(* The source is read as long as there is room, however late the target:   *)
(* its idle timeout cuts no stream that fits the queue and the sockets     *)
(* (relay.rs:9-15).                                                        *)
THEOREM Pumping == Spec => []Pumped
<1>1. IInv => Pumped
  BY DEF IInv
<1>. QED
  BY <1>1, Invariance, PTL
=============================================================================
