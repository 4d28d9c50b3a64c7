---------------------------- MODULE MCMqttReceive ----------------------------
\* Bytes are 0 .. 3: one binary digit and the continuation bit.
EXTENDS MqttReceive

\* A CONNACK, and one too long for the buffer; a packet without a rest
\* (PINGRESP), one that fills the buffer, one that is dumped in two parts, one
\* with a digit too many, one of no known type.  Bodies hold bytes that would
\* pass for packets.
MCPackets ==
  {[type |-> 2, body |-> <<0, 1>>], [type |-> 2, body |-> <<0, 1, 0>>],
   [type |-> 1, body |-> <<>>], [type |-> 3, body |-> <<1, 0>>],
   [type |-> 3, body |-> <<1, 0, 1, 0>>],
   [type |-> 1, body |-> <<1, 0, 1, 0, 1, 0, 1, 0>>], [type |-> 0, body |-> <<>>]}
=============================================================================
