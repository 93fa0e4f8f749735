-------------------------------- MODULE Mqtt --------------------------------
(***************************************************************************)
(* The packets between the daemon and the broker: what the functions of    *)
(* src/lib/mqtt/mqtt.c that src/lib/proto/transport.c calls make of a      *)
(* request, what they read of the bytes that come, and which method a      *)
(* message that comes is for.                                              *)
(*                                                                         *)
(* A packet goes to an end of the same kind, or it comes from the broker.  *)
(* It arrives cut, whole, or with the next one behind it.  The errors of   *)
(* MQTT-C are not told apart.                                              *)
(***************************************************************************)
EXTENDS Integers, SequencesExt

CONSTANTS Missing,
          Methods,      \* the names of the methods of the service, in order
          Requests,     \* what transport.c has packed, and the room for it
          Broker        \* bytes that a broker sends

VARIABLES request,      \* what is packed, or Missing
          packet,       \* result: what is sent
          size,         \* bytes of it that have arrived, or Missing
          came          \* what became of these

packetVars == <<request, packet, size, came>>

\* A result of a function: the number it returns, and the bytes written.
Result(rv, bytes) == [rv |-> rv, bytes |-> bytes]
Error == Result(-1, <<>>)
Nothing == Result(0, <<>>)

\* MQTTControlPacketType
MQTT ==
  [CONNECT |-> 1, CONNACK |-> 2, PUBLISH |-> 3, PUBXXX |-> 4..7, SUBSCRIBE |-> 8,
   SUBACK |-> 9, UNSUBACK |-> 11, PINGREQ |-> 12, PINGRESP |-> 13, DISCONNECT |-> 14]

-----------------------------------------------------------------------------
(* Packing *)

Header(type, flags, remaining) ==
  [type |-> type, flags |-> flags, remaining |-> remaining]

\* Types 0 and 15 are reserved; the flags of PUBLISH are free.
Violation(h) ==
  \/ h.type \in {0, 15}
  \/ h.type # MQTT.PUBLISH /\ h.flags # (IF h.type \in {6, 8, 10} THEN 2 ELSE 0)

\* Seven bits in a byte, the least first; the eighth bit says there are more.
Weight == <<1, 128, 16384, 2097152, 268435456>>
Digits(n) ==
  LET last == Min({d \in 1..4 : n < Weight[d + 1] \/ d = 4})
  IN [d \in 1..last |-> ((n \div Weight[d]) % 128) + (IF d < last THEN 128 ELSE 0)]

PackHeader(h, room) ==
  LET bytes == <<16 * h.type + h.flags>> \o Digits(h.remaining)
  IN IF Violation(h) \/ (room > 0 /\ h.remaining >= Weight[5]) THEN Error
     ELSE IF Len(bytes) + h.remaining > room THEN Nothing
     ELSE Result(Len(bytes), bytes)

\* A header and what follows it.
Pack(h, body, room) ==
  LET head == PackHeader(h, room)
  IN IF head.rv <= 0 THEN head ELSE Result(head.rv + Len(body), head.bytes \o body)

Uint16(n) == <<(n \div 256) % 256, n % 256>>
Str(s) == LET length == Len(s) % 65536 IN Uint16(length) \o SubSeq(s, 1, length)
Strlen(s) == Len(s) + 2

\* A string that may be missing.
IfGiven(s, op(_), none) == IF s = Missing THEN none ELSE op(s)

\* There is no will: of the flags, the one of a clean session stays, those of
\* a user and a password follow from the strings.
PackConnect(r) ==
  LET clean == (r.flags \div 2) % 2
      flags == 2 * clean + IfGiven(r.user, LAMBDA s : 128, 0)
                         + IfGiven(r.password, LAMBDA s : 64, 0)
  IN IF r.id = <<>> /\ clean = 0 THEN Error
     ELSE Pack(Header(MQTT.CONNECT, 0, 10 + Strlen(r.id) + IfGiven(r.user, Strlen, 0)
                                     + IfGiven(r.password, Strlen, 0)),
               Str(<<77, 81, 84, 84>>) \o <<4, flags>> \o Uint16(r.alive) \o Str(r.id)
                 \o IfGiven(r.user, Str, <<>>) \o IfGiven(r.password, Str, <<>>),
               r.room)

PackPublish(topic, id, message, flags, room) ==
  LET qos == (flags \div 2) % 4
      packetId == IF qos > 0 THEN Uint16(id) ELSE <<>>
  IN IF qos = 3 THEN Error
     ELSE Pack(Header(MQTT.PUBLISH, flags % 8, Strlen(topic) + Len(packetId) + Len(message)),
               Str(topic) \o packetId \o message, room)

\* transport.c gives one topic at a time.
PackSubscribe(r) ==
  Pack(Header(MQTT.SUBSCRIBE, 2, 2 + Strlen(r.topic) + 1),
       Uint16(r.id) \o Str(r.topic) \o <<r.qos>>, r.room)

PackPing(room) == Pack(Header(MQTT.PINGREQ, 0, 0), <<>>, room)
PackDisconnect(room) == Pack(Header(MQTT.DISCONNECT, 0, 0), <<>>, room)

-----------------------------------------------------------------------------
(* Unpacking: a response has the length of the packet, its header, and the  *)
(* part of the buffer where each of its fields is                          *)

Fails == [rv |-> -1]
Waits == [rv |-> 0]

Part(from, length) == [from |-> from, length |-> length]
Bytes(buf, part) == SubSeq(buf, part.from + 1, part.from + part.length)

UnpackUint16(buf, at) == 256 * buf[at + 1] + buf[at + 2]

\* uint32_t; a length fits into 28 bits, so that 30 tell as much as 32.
Unsigned32(n) == n % 1073741824

\* The bytes of the length are read until one does not go on; there must be no
\* fifth.
Remaining(buf, digits) ==
  LET digit(d) == IF d <= digits THEN (buf[d + 1] % 128) * Weight[d] ELSE 0
  IN digit(1) + digit(2) + digit(3) + digit(4)

UnpackHeader(buf) ==
  LET last == {d \in 1..4 : d < Len(buf) /\ buf[d + 1] < 128}
      digits == Min(last)
      h == Header(buf[1] \div 16, buf[1] % 16, Remaining(buf, digits))
  IN IF last = {} THEN IF Len(buf) < 5 THEN Waits ELSE Fails
     ELSE IF Violation(h) THEN Fails
     ELSE IF Len(buf) - 1 - digits < h.remaining THEN Waits
     ELSE [rv |-> 1 + digits, header |-> h]

UnpackConnack(h, buf, at) ==
  IF h.remaining # 2 \/ buf[at + 1] > 1 \/ buf[at + 2] > 5 THEN Fails
  ELSE [rv |-> 2, code |-> buf[at + 2]]

\* The message is what the topic leaves of the packet: nothing compares the two.
\* Nobody uses the packet id, if there is one.
UnpackPublish(h, buf, at) ==
  LET fixed == IF (h.flags \div 2) % 4 = 0 THEN 2 ELSE 4
      topic == UnpackUint16(buf, at)
      message == Unsigned32(h.remaining - topic - fixed)
  IN IF h.remaining < 4 THEN Fails
     ELSE [rv |-> fixed + topic + message,
           topic |-> Part(at + 2, topic), message |-> Part(at + fixed + topic, message)]

UnpackPubxxx(h, buf, at) ==
  IF h.remaining # 2 THEN Fails ELSE [rv |-> 2, id |-> UnpackUint16(buf, at)]

UnpackSuback(h, buf, at) ==
  IF h.remaining < 3 THEN Fails
  ELSE [rv |-> h.remaining, id |-> UnpackUint16(buf, at),
        codes |-> Part(at + 2, h.remaining - 2)]

UnpackUnsuback(h, buf, at) ==
  IF h.remaining # 2 THEN Fails ELSE [rv |-> 2, id |-> UnpackUint16(buf, at)]

Fields(h, buf, at) ==
  CASE h.type = MQTT.CONNACK -> UnpackConnack(h, buf, at)
    [] h.type = MQTT.PUBLISH -> UnpackPublish(h, buf, at)
    [] h.type \in MQTT.PUBXXX -> UnpackPubxxx(h, buf, at)
    [] h.type = MQTT.SUBACK -> UnpackSuback(h, buf, at)
    [] h.type = MQTT.UNSUBACK -> UnpackUnsuback(h, buf, at)
    [] h.type = MQTT.PINGRESP -> Waits
    [] OTHER -> Fails

Unpack(buf) ==
  LET head == UnpackHeader(buf)
      fields == Fields(head.header, buf, head.rv)
  IN IF head.rv <= 0 THEN head
     ELSE IF fields.rv < 0 THEN Fails
     ELSE [rv |-> head.rv + fields.rv, header |-> head.header, fields |-> fields]

-----------------------------------------------------------------------------
(* transport.c *)

Slash == 47
Slashes(topic) == {i \in DOMAIN topic : topic[i] = Slash}

\* Bug: the method is what is before the second slash.
TopicMethodWhole(topic) ==
  LET slashes == Slashes(topic)
      first == Min(slashes)
  IN IF Cardinality(slashes) < 3 THEN Missing
     ELSE SubSeq(topic, 1, Min(slashes \ {first}) - 1)

\* The method is between the first two slashes, and there is a third.
TopicMethod(topic) ==
  LET slashes == Slashes(topic)
      first == Min(slashes)
  IN IF Cardinality(slashes) < 3 THEN Missing
     ELSE SubSeq(topic, first + 1, Min(slashes \ {first}) - 1)

\* The last of the methods with that name, 0 if there is none.
Method(topic) ==
  Max({0} \cup {i \in DOMAIN Methods : Methods[i] = TopicMethod(topic)})

Topic(to, index, host, port) ==
  to \o <<Slash>> \o Methods[index] \o <<Slash>> \o host \o <<Slash>> \o port

\* A buffer for the message and 256 bytes; a packet that does not fit is not
\* sent, and the call is answered with nothing.
invoke(r) ==
  PackPublish(Topic(r.to, r.index, r.host, r.port), r.id, r.message, 0,
              256 + Len(r.message))

Packed(r) ==
  CASE r.call = "invoke" -> invoke(r)
    [] r.call = "begin" -> PackConnect(r)
    [] r.call = "subscribe" -> PackSubscribe(r)
    [] r.call = "ping" -> PackPing(r.room)
    [] r.call = "end" -> PackDisconnect(r.room)

\* Only what is shorter than 2^15 is taken.
Short == 32767

\* Bug: a length of any size is taken.
CommandLong(buf) ==
  LET response == Unpack(buf)
  IN IF response.rv <= 0 THEN [taken |-> -1]
     ELSE [taken |-> response.rv, response |-> response]

\* What a SUBACK and a CONNACK do to the transport is in CmdLink; here, what
\* refuses them.
Refused(response, buf) ==
  CASE response.header.type = MQTT.CONNACK -> response.fields.code # 0
    [] response.header.type = MQTT.SUBACK ->
         \E code \in ToSet(Bytes(buf, response.fields.codes)) : code > 2
    [] OTHER -> FALSE

Command(buf) ==
  LET response == Unpack(buf)
  IN IF response.rv <= 0 \/ response.rv > Short THEN [taken |-> -1]
     ELSE IF Refused(response, buf) THEN [taken |-> -1]
     ELSE [taken |-> response.rv, response |-> response]

\* input: the method that is called, 0 if none, and the message it gets.
Called(response, buf) ==
  IF response.header.type # MQTT.PUBLISH THEN Missing
  ELSE [method |-> Method(Bytes(buf, response.fields.topic)),
        message |-> Bytes(buf, response.fields.message)]

-----------------------------------------------------------------------------
(* What is packed, and in which memory *)

Byte == 0..255
Word == {n \in Nat : n < 65536}
Text == Seq(Byte)

\* A topic is written to 128 bytes, a message to 4096; names have no slash.
MaxMessage == 4096
Call ==
  {r \in [call : {"invoke"}, to : Text, index : DOMAIN Methods, host : Text,
          port : Text, id : Word, message : Text] :
     /\ Slash \notin ToSet(r.to) /\ r.message # <<>> /\ Len(r.message) <= MaxMessage
     /\ Len(Topic(r.to, r.index, r.host, r.port)) < 128}

Greeting ==
  [call : {"begin"}, id : Text, user : Text \cup {Missing},
   password : Text \cup {Missing}, flags : Byte, alive : Word, room : {256}]

Subscription ==
  [call : {"subscribe"}, id : Word, topic : Text, qos : {0}, room : {512}]

ASSUME MqttAssumption ==
  /\ Missing \notin [rv : Int, bytes : Text]
  /\ Methods \in Seq(Text)
  /\ \A i, j \in DOMAIN Methods : Methods[i] = Methods[j] => i = j
  /\ \A i \in DOMAIN Methods : Slash \notin ToSet(Methods[i])
  /\ \A r \in Requests :
       r \in Call \/ r \in Greeting \/ r \in Subscription
         \/ r \in [call : {"ping", "end"}, room : {16}]
  /\ Missing \notin Requests /\ Broker \subseteq Text

-----------------------------------------------------------------------------
PacketInit ==
  /\ size = Missing /\ came = Missing
  /\ \/ request \in Requests /\ packet = Missing
     \/ request = Missing /\ \E bytes \in Broker : packet = Result(Len(bytes), bytes)

Send ==
  /\ packet = Missing
  /\ packet' = Packed(request)
  /\ UNCHANGED <<request, size, came>>

\* A packet and what is behind it: two ends of one and the same stream.
Stream == packet.bytes \o <<16 * MQTT.PINGRESP, 0>>

\* Where a packet may be cut: in its header or near its end.
Cuts(length) == (0..8 \cup (length - 3)..(length + 2)) \cap 0..(length + 2)

\* The bytes that are there.
Buffer == SubSeq(Stream, 1, size)

\* They are given to the transport.
Receive ==
  /\ packet # Missing /\ packet.rv > 0 /\ came = Missing
  /\ UNCHANGED <<request, packet>>
  /\ size' \in Cuts(Len(packet.bytes))
  /\ came' = [unpacked |-> Unpack(Buffer').rv, command |-> Command(Buffer')]

PacketNext == Send \/ Receive

PacketSpec == PacketInit /\ [][PacketNext]_packetVars

-----------------------------------------------------------------------------
(* Properties *)

\* A packet that is sent fits the memory it is written to, and announces as many
\* bytes as there follow its header (the length of mqtt_pack_*_request is added
\* up in one place, the bytes are written in another).
Announced ==
  request # Missing /\ packet # Missing /\ packet.rv > 0 =>
    LET head == UnpackHeader(packet.bytes)
    IN /\ packet.rv = Len(packet.bytes)
       /\ head.rv + head.header.remaining = packet.rv
       /\ "room" \in DOMAIN request => packet.rv <= request.room

\* Wherever a packet is cut, mqtt_unpack_response waits for the rest of it, and
\* what follows it is not taken for a part of it.
PrefixWaits ==
  LET head == UnpackHeader(packet.bytes)
  IN came # Missing /\ head.rv > 0 =>
       came.unpacked = IF size < head.rv + head.header.remaining THEN 0
                       ELSE Unpack(packet.bytes).rv

\* What transport.command takes is what the header announces (of a PINGRESP it is
\* the header) and no more than has arrived, and the topic and the message are
\* inside of it: the lengths of a PUBLISH, which come from the other end, are
\* only compared by the bound on the whole.
Inside ==
  came # Missing /\ came.command.taken > 0 =>
    LET taken == came.command.taken
        response == came.command.response
        fields == response.fields
    IN /\ response.header.type # MQTT.PINGRESP =>
            taken = UnpackHeader(Buffer).rv + response.header.remaining
       /\ taken <= size
       /\ response.header.type = MQTT.PUBLISH =>
            /\ fields.topic.from + fields.topic.length <= fields.message.from
            /\ fields.message.from + fields.message.length = taken

\* Packets are sent and read exactly.
PacketExact == Announced /\ PrefixWaits /\ Inside

\* A call that transport.invoke publishes reaches the method it is for at the
\* other end, with its message, whatever is behind it in the buffer.
MethodKept ==
  request # Missing /\ request.call = "invoke" /\ came # Missing /\ size >= packet.rv =>
    /\ came.command.taken = packet.rv
    /\ Called(came.command.response, Buffer) =
         [method |-> request.index, message |-> request.message]
=============================================================================
