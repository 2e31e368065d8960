--------------------------- MODULE MCBashPPChannel ---------------------------
(* A small instance of BashPPChannel: an unbuffered channel sync and a queue   *)
(* of capacity one, and selects that send, receive, default, name a channel    *)
(* twice and wait forever.                                                     *)
EXTENDS BashPPChannel

CONSTANTS sync, queue

MCCapacity == [x \in Chans |-> IF x = sync THEN 0 ELSE 1]

SendTo(x) == [dir |-> "send", ch |-> x]
RecvFrom(x) == [dir |-> "recv", ch |-> x]

TwoChanSelects ==
    {[arms |-> <<SendTo(sync), SendTo(queue)>>, def |-> FALSE],
     [arms |-> <<RecvFrom(sync), SendTo(queue)>>, def |-> TRUE],
     [arms |-> <<SendTo(sync), SendTo(sync)>>, def |-> FALSE],
     [arms |-> << >>, def |-> FALSE]}
=============================================================================
