----------------------------- MODULE MCEventConn -----------------------------
(****************************************************************************)
(* Instances of EventConn for TLC.                                          *)
(****************************************************************************)
EXTENDS EventConn

CONSTANTS t1, t2    \* the threads

AllSend    == [t \in Threads |-> "send"]
AllRequest == [t \in Threads |-> "request"]
OneRequest == [t \in Threads |-> IF t = t1 THEN "request" ELSE "none"]
OneSend    == [t \in Threads |-> IF t = t1 THEN "send" ELSE "none"]

OneTwice   == [t \in Threads |-> IF t = t1 THEN "twice" ELSE "none"]
OneNowhere == [t \in Threads |-> IF t = t1 THEN "nowhere" ELSE "send"]

\* Any number of threads send, one of them perhaps without a destination, or
\* one requests; all request; one sends.
Separate   == {AllSend, OneRequest, OneTwice, OneNowhere}
Requesters == {AllRequest}
OneSender  == {OneSend}

=============================================================================
