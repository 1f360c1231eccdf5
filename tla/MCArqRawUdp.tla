---------------------------- MODULE MCArqRawUdp ----------------------------
(* Instances of ArqRawUdp for TLC. *)
EXTENDS ArqRawUdp

CONSTANTS c1, c2

Link(callers, lossy, reordering, retransmits, dup, send_calls, close_calls) ==
    [callers |-> callers, lossy |-> lossy, reordering |-> reordering,
     max_retransmits |-> retransmits, max_dups |-> dup, max_sends |-> send_calls,
     max_closes |-> close_calls]

\* Networks that lose, copy and reorder, with and without retransmission, and
\* with an end that is closed and reopened; two threads in send(); clean links, one
\* with two calls more than the window.
AllLinks ==
    {Link({c1}, TRUE, TRUE, 0, 1, 3, 0),
     Link({c1}, TRUE, TRUE, 1, 1, 2, 1),
     Link({c1, c2}, FALSE, FALSE, 0, 0, 3, 0),
     Link({c1}, FALSE, FALSE, 0, 0, 5, 0),
     Link({c1}, FALSE, FALSE, 1, 0, 3, 0)}

LossyLink == {Link({c1}, TRUE, TRUE, 1, 0, 3, 0)}
=============================================================================
