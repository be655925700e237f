------------------------------- MODULE Mailbox -------------------------------
(****************************************************************************)
(* The three queues of a mailbox (mailbox.cpp), as operators on sequences.  *)
(* Every actor, worker and event connection owns one Mailbox: other threads *)
(* never touch it, the main thread moves messages between mailboxes.        *)
(*   recv  messages delivered by the main thread, bounded by pending_queue  *)
(*   run   the batch the owner is allowed to process                        *)
(*   send  messages the owner produced, to be dispatched by the main thread *)
(* A limit that is not positive means "no limit" (the default is -1).       *)
(****************************************************************************)
EXTENDS Integers, Sequences

Min2(a, b) == IF a <= b THEN a ELSE b

(* Mutant: the new message goes to the front.                               *)
RecvFront(recv, m, pending) == <<m>> \o recv

(* Recv: a full queue loses its oldest messages until one place is free.    *)
Recv(recv, m, pending) ==
    IF pending > 0 /\ Len(recv) >= pending
    THEN Append(SubSeq(recv, Len(recv) - pending + 2, Len(recv)), m)
    ELSE Append(recv, m)

(* Mutant: the limit is ignored.                                            *)
BatchLenAll(recv, runsize) == Len(recv)

(* MoveToRun takes at most runsize messages, or all of them.                *)
BatchLen(recv, runsize) ==
    IF runsize > 0 THEN Min2(runsize, Len(recv)) ELSE Len(recv)

(* Mutant: one message too many is taken off the queue.                     *)
RecvAfterMoveSkips(recv, runsize) ==
    SubSeq(recv, BatchLen(recv, runsize) + 2, Len(recv))

RecvAfterMove(recv, runsize) ==
    SubSeq(recv, BatchLen(recv, runsize) + 1, Len(recv))

(* A limited batch is spliced in FRONT of what run still holds, an          *)
(* unlimited one behind it.                                                 *)
RunAfterMove(recv, run, runsize) ==
    LET batch == SubSeq(recv, 1, BatchLen(recv, runsize))
    IN  IF runsize > 0 THEN batch \o run ELSE run \o batch

=============================================================================
