----------------------------- MODULE MCReplies ------------------------------
(***************************************************************************)
(* Octets of five bits, one motor, one cassette that is sent two octets    *)
(* at a time, two subscriptions and two request ids.                       *)
(***************************************************************************)
EXTENDS Replies

MCRecording == {Absent, <<7, 8>>, <<7, 8, 9>>}

MCReadable ==
    ({PUBSUB} \X {0, LIST, ALL, 9})
    \cup ({CLOCK} \X {NOW, 9})
    \cup ({MOTOR} \X {ALL, 9})
    \cup ({CASSETTE} \X {0, OPEN, COUNT, 9})
    \cup {<<9, 0>>}

MCSubscribable ==
    {<<CLOCK, NOW>>, <<CLOCK, 9>>, <<MOTOR, 0>>, <<ALL, ALL>>, <<9, 0>>}

\* The first fills a packet.
MCWritable ==
    {<<MOTOR, ALL, [i \in 1 .. 26 |-> i % 2]>>,
     <<CASSETTE, OPEN, <<0>>>>, <<CASSETTE, CLOSE, <<0>>>>,
     <<CASSETTE, WRITE, <<0, 5>>>>, <<9, 0, <<1>>>>}
=============================================================================
