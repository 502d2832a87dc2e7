------------------------------- MODULE MCLink -------------------------------
(* Two serving threads, so that one of a broken connection may go on beside  *)
(* the next one.  One end has an answer longer than the buffers, the other a *)
(* record that fits no frame, either way round.                              *)
EXTENDS Link

CONSTANTS n1, n2, a, b, long

MCSize == [r \in Record |-> IF r = long THEN MaxFrame + 1 ELSE 2]

Start(client, server) == [s \in Side |-> IF s = C THEN client ELSE server]

MCStarts == {Start({a, b}, {long}), Start({long}, {b})}

=============================================================================
