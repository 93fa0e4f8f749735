------------------------------- MODULE MCMqtt -------------------------------
EXTENDS Mqtt

\* A string or a message of n bytes.
Run(n) == [i \in 1..n |-> 97]

MCMethods == <<<<114>>, <<105, 110>>, <<110>>>>

\* Calls whose packets have a length of one byte and of two, up to the largest
\* message there is; the host has a slash, or none.
Calls ==
  {[call |-> "invoke", to |-> <<115>>, index |-> i, host |-> host, port |-> <<48>>,
    id |-> 1, message |-> Run(n)] :
     i \in DOMAIN MCMethods, host \in {<<104>>, <<104, 47>>},
     n \in {1, 115, 116, 117, 118, 119, 120, 4096}}

Others ==
  {[call |-> "begin", id |-> Run(n), user |-> u, password |-> p, flags |-> f,
    alive |-> 300, room |-> 256] :
     n \in {0, 1, 115, 239, 240, 241}, u \in {Missing, Run(3)}, p \in {Missing, Run(2)}, f \in {0, 2}}
  \cup {[call |-> "subscribe", id |-> 3, topic |-> Run(n), qos |-> 0, room |-> 512] :
     n \in {5, 121, 122, 123, 255}}
  \cup {[call |-> c, room |-> 16] : c \in {"ping", "end"}}

MCRequests == Calls \cup Others

\* PUBLISH packets of a few bytes, whose topic may be said to be longer, and
\* long ones.
Publishes ==
  {<<48 + f, n>> \o Uint16(t) \o Run(n) : f \in {0, 1, 2, 6}, n \in 3..8, t \in {0, 1, 2, 4, 6, 65535}}
Long == {<<48>> \o Digits(n) \o Uint16(3) \o Run(n - 2) : n \in {127, 128, 16383, 16384, 32763, 32764}}

\* The other packets, some of them wrong.
Acks ==
  {<<32, 2, f, c>> : f \in 0..2, c \in {0, 5, 6}} \cup {<<144, 3, 0, 3, c>> : c \in {0, 2, 128}}
  \cup {<<144, 2, 0, 3>>, <<144, 4, 0, 3, 128, 0>>}
  \cup {<<16 * t + f, n, 0, 3>> : t \in {4, 5, 6, 7, 11}, f \in {0, 2}, n \in 1..2}
  \cup {<<208, 0>>, <<208, 1, 0>>, <<0, 0>>, <<240, 0>>, <<16, 0>>, <<48, 255, 255, 255, 255, 1>>,
        <<208, 128, 128, 128, 0>>}

MCBroker == Publishes \cup Long \cup Acks
=============================================================================
