------------------------------ MODULE MemQueue ------------------------------
(***************************************************************************)
(* internal/queue Memory: a bounded Go channel and the atomic flag closed. *)
(* Enqueue reads the flag and sends in two steps; Close sets the flag and  *)
(* closes the channel in two steps.  The four may interleave, and a send   *)
(* on the closed channel panics.                                           *)
(***************************************************************************)
EXTENDS Integers, Sequences

CONSTANT QueueSize      \* QUEUE_SIZE, the capacity of the channel

ASSUME QueueAssumption == QueueSize \in Nat \ {0}

VARIABLES
    ch,         \* the buffered events, oldest first
    closed,     \* q.closed
    chClosed    \* close(q.ch) has run

queueVars == <<ch, closed, chClosed>>

QueueInit == ch = <<>> /\ closed = FALSE /\ chClosed = FALSE

\* The select of Enqueue: a send that finds room...
ChanSend(e) ==
    /\ ~chClosed
    /\ Len(ch) < QueueSize
    /\ ch' = Append(ch, e)
    /\ UNCHANGED <<closed, chClosed>>

\* ...the default branch, ErrFull...
ChanFull == ~chClosed /\ Len(ch) >= QueueSize

\* ...and the send on a closed channel, which panics.
ChanPanics == chClosed

\* Faulty variant: a closed channel counts as drained.
ChanDrained_Closed == chClosed

\* A worker's receive.  Once the channel is closed and empty it yields !ok.
ChanReceive == ch # <<>> /\ ch' = Tail(ch) /\ UNCHANGED <<closed, chClosed>>
ChanDrained == ch = <<>> /\ chClosed

\* Close: the compare-and-swap, then the close of the channel.
CloseFlag == ~closed /\ closed' = TRUE /\ UNCHANGED <<ch, chClosed>>
CloseChan == closed /\ ~chClosed /\ chClosed' = TRUE /\ UNCHANGED <<ch, closed>>
=============================================================================
