-------------------------------- MODULE Relay --------------------------------
(***************************************************************************)
(* The TCP relay of one attempt (transfer/relay.rs): the relay task        *)
(* accepts the source and then the target, a reader task pumps the source  *)
(* into a bounded queue as soon as the source is there, and the relay task *)
(* drains the queue into the target.  The two node agents are `nc -w 3`    *)
(* processes at the other ends; the state machine may abort the relay      *)
(* (drop_relay).  Chunk i of the send stream is the number i.  Connections *)
(* from addresses that are not allowed are dropped and change nothing.     *)
(***************************************************************************)
EXTENDS Naturals, Sequences

CONSTANTS
  Total,   \* chunks of the send stream
  Buffer,  \* BUFFER_CHUNKS
  Socket   \* chunks the kernel buffers between an agent and the relay

ASSUME RelayAssumption == Total \in Nat /\ Buffer \in Nat \ {0} /\ Socket \in Nat \ {0}

VARIABLES
  task,    \* the relay task
  reader,  \* the reader task; it owns the source socket
  src,     \* the source agent's end: it closed (FIN) or broke (RST) the connection
  sent,    \* chunks the source agent has written
  wire,    \* chunks in the source socket
  held,    \* the chunk the reader is sending to the queue
  queue,   \* the mpsc channel
  dst,     \* the target agent's end
  got,     \* chunks written to the target
  unread   \* how many of these the target agent has not read

vars == <<task, reader, src, sent, wire, held, queue, dst, got, unread>>

Ended == {"ok", "err", "dropped"}
TypeOK ==
  /\ task \in {"accept_source", "accept_target", "drain"} \cup Ended
  /\ reader \in {"none", "read", "send", "eof", "failed", "aborted"}
  /\ src \in {"away", "open", "closed", "reset"}
  /\ sent \in 0 .. Total
  /\ wire \in Seq(1 .. Total) /\ Len(wire) <= Socket
  /\ held \in 0 .. Total
  /\ queue \in Seq(1 .. Total) /\ Len(queue) <= Buffer
  /\ dst \in {"away", "open", "gone", "shut"}
  /\ got \in Seq(1 .. Total)
  /\ unread \in 0 .. Socket

Init ==
  /\ task = "accept_source" /\ reader = "none"
  /\ src = "away" /\ sent = 0 /\ wire = <<>> /\ held = 0
  /\ queue = <<>> /\ dst = "away" /\ got = <<>> /\ unread = 0

-----------------------------------------------------------------------------
(* The relay task                                                          *)

AcceptSource ==
  /\ task = "accept_source" /\ task' = "accept_target"
  /\ src' = "open" /\ reader' = "read"
  /\ UNCHANGED <<sent, wire, held, queue, dst, got, unread>>

AcceptTarget ==
  /\ task = "accept_target" /\ task' = "drain" /\ dst' = "open"
  /\ UNCHANGED <<reader, src, sent, wire, held, queue, got, unread>>

(* write_all waits as long as the target's socket is full; the chunk stays *)
(* in the queue until it is written.                                       *)
Drain ==
  /\ task = "drain" /\ queue # <<>> /\ dst = "open" /\ unread < Socket
  /\ got' = Append(got, Head(queue)) /\ queue' = Tail(queue) /\ unread' = unread + 1
  /\ UNCHANGED <<task, reader, src, sent, wire, held, dst>>

WriteFails ==
  /\ task = "drain" /\ queue # <<>> /\ dst = "gone"
  /\ task' = "err"
  /\ UNCHANGED <<reader, src, sent, wire, held, queue, dst, got, unread>>

(* Mutants: the reader's result is not awaited; its end is not noticed.    *)
FinishUnjoined ==
  /\ task = "drain" /\ queue = <<>> /\ reader \in {"eof", "failed"}
  /\ task' = IF got # <<>> THEN "ok" ELSE "err"
  /\ dst' = "shut"
  /\ UNCHANGED <<reader, src, sent, wire, held, queue, got, unread>>
FinishOnFailure ==
  /\ task = "drain" /\ queue = <<>> /\ reader = "failed"
  /\ task' = "err" /\ dst' = "shut"
  /\ UNCHANGED <<reader, src, sent, wire, held, queue, got, unread>>
(* The queue is closed and empty: join the reader; an empty stream is an   *)
(* error.  The target sees the end of the stream either way.               *)
Finish ==
  /\ task = "drain" /\ queue = <<>> /\ reader \in {"eof", "failed"}
  /\ task' = IF reader = "eof" /\ got # <<>> THEN "ok" ELSE "err"
  /\ dst' = "shut"
  /\ UNCHANGED <<reader, src, sent, wire, held, queue, got, unread>>

DropRelay ==
  /\ task \notin Ended /\ task' = "dropped"
  /\ UNCHANGED <<reader, src, sent, wire, held, queue, dst, got, unread>>

-----------------------------------------------------------------------------
(* The reader task                                                         *)

(* The reader waits for a chunk, then for room in the queue.               *)
(* Mutant: the source is read only once the target is there.               *)
CanReadLate == task = "drain" /\ reader = "read" /\ wire # <<>>
CanRead == reader = "read" /\ wire # <<>>
CanEnqueue == reader = "send" /\ Len(queue) < Buffer /\ task \notin Ended

Read ==
  /\ CanRead
  /\ held' = Head(wire) /\ wire' = Tail(wire) /\ reader' = "send"
  /\ UNCHANGED <<task, src, sent, queue, dst, got, unread>>

Enqueue ==
  /\ CanEnqueue
  /\ queue' = Append(queue, held) /\ held' = 0 /\ reader' = "read"
  /\ UNCHANGED <<task, src, sent, wire, dst, got, unread>>

(* read returns 0 once the closed socket is empty, or an error.            *)
ReadEnds ==
  /\ reader = "read"
  /\ \/ src = "closed" /\ wire = <<>> /\ reader' = "eof"
     \/ src = "reset" /\ reader' = "failed"
  /\ UNCHANGED <<task, src, sent, wire, held, queue, dst, got, unread>>

(* Mutant: no AbortOnDrop; the reader ends when it next has a chunk.       *)
ReaderLeaks ==
  /\ task \in Ended /\ reader = "send" /\ reader' = "failed"
  /\ UNCHANGED <<task, src, sent, wire, held, queue, dst, got, unread>>
(* AbortOnDrop: the reader goes with the relay task.                       *)
ReaderAborted ==
  /\ task \in Ended /\ reader \in {"read", "send"} /\ reader' = "aborted"
  /\ UNCHANGED <<task, src, sent, wire, held, queue, dst, got, unread>>

-----------------------------------------------------------------------------
(* The node agents (external)                                              *)

SourceWrites ==
  /\ src = "open" /\ sent < Total /\ Len(wire) < Socket
  /\ sent' = sent + 1 /\ wire' = Append(wire, sent + 1)
  /\ UNCHANGED <<task, reader, src, held, queue, dst, got, unread>>

(* The stream is written, or nc -w 3 has waited on a socket nobody reads:  *)
(* the reader is much faster than 3 s unless it cannot go on.              *)
Blocked == Len(wire) = Socket /\ ~CanRead /\ ~CanEnqueue
SourceCloses ==
  /\ src = "open" /\ (sent = Total \/ Blocked) /\ src' = "closed"
  /\ UNCHANGED <<task, reader, sent, wire, held, queue, dst, got, unread>>

SourceBreaks ==
  /\ src = "open" /\ src' = "reset"
  /\ UNCHANGED <<task, reader, sent, wire, held, queue, dst, got, unread>>

(* What was written before the relay closed the connection can be read.    *)
TargetReads ==
  /\ dst \in {"open", "shut"} /\ unread > 0 /\ unread' = unread - 1
  /\ UNCHANGED <<task, reader, src, sent, wire, held, queue, dst, got>>

TargetBreaks ==
  /\ dst = "open" /\ dst' = "gone"
  /\ UNCHANGED <<task, reader, src, sent, wire, held, queue, got, unread>>

Reader == Read \/ Enqueue \/ ReadEnds \/ ReaderAborted
Next == AcceptSource \/ AcceptTarget \/ Drain \/ WriteFails \/ Finish \/ DropRelay
        \/ Reader \/ SourceWrites \/ SourceCloses \/ SourceBreaks \/ TargetReads \/ TargetBreaks

Spec == Init /\ [][Next]_vars

(* tokio runs a task that can go on; the agents promise nothing.           *)
FairSpec == Spec /\ WF_vars(Reader) /\ WF_vars(Drain \/ WriteFails \/ Finish)

-----------------------------------------------------------------------------
(* Properties                                                              *)

(* A relay that ends well has delivered, in order, everything the source   *)
(* wrote before it closed the connection, and that is not nothing          *)
(* (relay.rs:136-150).  A source whose idle timeout ran out wrote only a   *)
(* part of the stream: that it is whole is for the ZFSBackup to say.       *)
OkDelivers ==
  task = "ok" => /\ src = "closed" /\ sent > 0
                 /\ got = [i \in 1 .. sent |-> i]

(* A source that waits for its target is read as long as the queue has     *)
(* room: its idle timeout cuts no stream that fits the queue, however late *)
(* the target (relay.rs:9-15, 112-117).                                    *)
Pumped ==
  src = "closed" /\ sent < Total /\ task # "drain" /\ task \notin Ended
    => sent = Buffer + Socket + 1

(* A relay that ended or was dropped gives up the source socket, even when *)
(* the source is silent (relay.rs:120-122, AbortOnDrop).                   *)
SourceReleased == task \in Ended ~> reader \notin {"read", "send"}

(* Once both ends are there and the source closed or broke the connection, *)
(* the relay ends, if the target reads what it is sent until it breaks the *)
(* connection: the queue closes with the reader (relay.rs:136-143).  A     *)
(* target that just stops reading blocks write_all (relay.rs:140) until    *)
(* the stall detector drops the relay (transfer.rs:216-222).               *)
StreamEnds ==
  WF_vars(TargetReads) => (task = "drain" /\ src \in {"closed", "reset"} ~> task \in Ended)

(* The inductive invariant behind OkDelivers: what the target has, the     *)
(* queue, the chunk in the reader's hand and the socket are consecutive    *)
(* pieces of the stream.                                                   *)
InHand == IF reader = "send" THEN 1 ELSE 0
Delivered == \A i \in 1 .. Len(got) : got[i] = i
Queued == \A i \in 1 .. Len(queue) : queue[i] = Len(got) + i
Held == reader = "send" => held = Len(got) + Len(queue) + 1
Wired == reader \in {"read", "send"} =>
           \A i \in 1 .. Len(wire) : wire[i] = Len(got) + Len(queue) + InHand + i
Counted == /\ reader \in {"read", "send", "eof"} => Len(got) + Len(queue) + InHand + Len(wire) = sent
           /\ Len(got) + Len(queue) <= sent
           /\ reader = "none" => sent = 0 /\ wire = <<>> /\ src = "away"
           /\ src = "away" => task = "accept_source" \/ task = "dropped"
Closing == /\ reader = "eof" => src = "closed" /\ wire = <<>>
           /\ task = "ok" => reader = "eof" /\ queue = <<>> /\ got # <<>>
           /\ task = "accept_source" => reader = "none"
Consecutive == TypeOK /\ Delivered /\ Queued /\ Held /\ Wired /\ Counted /\ Closing

(* What makes it Pumped: nothing is delivered before the target is there,  *)
(* and an open source has its reader at work.                              *)
Early == task \in {"accept_source", "accept_target"} => got = <<>>
Attended == /\ task = "accept_source" => src = "away"
            /\ reader = "none" => src = "away"
            /\ reader = "failed" => src = "reset"
            /\ reader = "aborted" => task \in Ended

IInv == Consecutive /\ Early /\ Attended /\ Pumped
=============================================================================
