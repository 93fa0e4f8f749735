----------------------------- MODULE Conversion -----------------------------
(***************************************************************************)
(* What a SIP message goes through between two ends of the gateway:        *)
(* src/lib/proto/sip/sip.c makes a protobuf message of it, which is packed *)
(* and unpacked, and a SIP message of that again.                          *)
(*                                                                         *)
(* A string is its text and the quotes around it; osip's parser and        *)
(* printer, XML and SDP text are not looked into, but for whether a body   *)
(* is well formed.  Each pair of functions for a type is a form: the       *)
(* fields it copies, those it takes the quotes of or puts some around, the *)
(* lists and the parts that have a type of their own.                      *)
(***************************************************************************)
EXTENDS Integers, SequencesExt

CONSTANTS Null,
          Messages      \* messages that come from a SIP end

VARIABLES message,      \* what an end has sent: Null when it got nothing
          hops

Form(plain, quotes, lists, parts) ==
  [plain |-> plain, quotes |-> quotes, lists |-> lists, parts |-> parts]

None == <<>>            \* no lists, or no parts

-----------------------------------------------------------------------------
(* Header fields, to protobuf: quotes are taken off *)

PairProto == Form({"name", "value"}, {}, None, None)
CharProto == Form({"value"}, {}, None, None)
AllowProto == Form({}, {"value"}, None, None)
CallIdProto == Form({"number", "host"}, {}, None, None)
CseqProto == Form({"number", "method"}, {}, None, None)

UriProto ==
  Form({"scheme", "username", "password", "host", "port", "other"}, {},
       [url_headers |-> "pair", url_params |-> "pair"], None)

AddressProto ==
  Form({}, {"displayname"}, [gen_params |-> "pair"], [url |-> "uri"])

ContentTypeProto == Form({"type", "subtype"}, {}, [gen_params |-> "pair"], None)

EncodeProto == Form({"element"}, {}, [gen_params |-> "pair"], None)

ViaProto ==
  Form({"host", "port", "protocol", "version", "comment"}, {},
       [via_params |-> "pair"], None)

Credentials == {"algorithm", "auth_param", "auth_type", "cnonce", "digest",
                "message_qop", "nonce", "nonce_count", "opaque", "realm",
                "response", "uri", "username"}
AuthorizationProto == Form({}, Credentials, None, None)

AuthenticateProto ==
  Form({}, {"algorithm", "auth_param", "auth_type", "domain", "nonce",
            "opaque", "qop_options", "realm", "stale"}, None, None)

AuthenticationProto ==
  Form({}, {"cnonce", "nextnonce", "nonce_count", "qop_options", "rspauth"}, None, None)

HeadLists ==
  [accept |-> "content_type", accept_encoding |-> "encode",
   accept_language |-> "encode", alert_info |-> "encode", call_info |-> "encode",
   error_info |-> "encode", content_encoding |-> "encode", allow |-> "allow",
   contact |-> "address", proxy_authenticate |-> "authenticate",
   proxy_authentication |-> "authentication",
   proxy_authorization |-> "authorization", authenticate |-> "authenticate",
   authentication |-> "authentication", authorization |-> "authorization",
   record_route |-> "address", route |-> "address", via |-> "via", other |-> "pair"]
HeadParts ==
  [call_id |-> "call_id", cseq |-> "cseq", from |-> "address", to |-> "address",
   content_type |-> "content_type"]
\* The MIME version is not among them; the length is that of what is printed.
HeadProto == Form({"version"}, {}, HeadLists, HeadParts)

(* SDP, to protobuf *)

ConnectionProto ==
  Form({"c_addr", "c_addr_multicast_int", "c_addr_multicast_ttl", "c_addrtype",
        "c_nettype"}, {}, None, None)
BandwidthProto == Form({"b_bandwidth", "b_bwtype"}, {}, None, None)
TimeProto == Form({"t_start_time", "t_stop_time"}, {}, [r_repeats |-> "char"], None)
KeyProto == Form({"k_keydata", "k_keytype"}, {}, None, None)
AttributeProto == Form({"a_att_field", "a_att_value"}, {}, None, None)
MediaProto ==
  Form({"m_media", "m_port", "m_number_of_port", "m_proto", "i_info"}, {},
       [m_payloads |-> "char", c_connections |-> "connection",
        b_bandwidths |-> "bandwidth", a_attributes |-> "attribute"],
       [k_key |-> "key"])
SdpProto ==
  Form({"v_version", "o_username", "o_sess_id", "o_sess_version", "o_nettype",
        "o_addrtype", "o_addr", "s_name", "i_info", "u_uri", "z_adjustments"}, {},
       [e_emails |-> "char", p_phones |-> "char", b_bandwidths |-> "bandwidth",
        t_descrs |-> "time", a_attributes |-> "attribute", m_medias |-> "media"],
       [c_connection |-> "connection", k_key |-> "key"])

Proto ==
  [pair |-> PairProto, char |-> CharProto, allow |-> AllowProto,
   call_id |-> CallIdProto, cseq |-> CseqProto, uri |-> UriProto,
   address |-> AddressProto, content_type |-> ContentTypeProto,
   encode |-> EncodeProto, via |-> ViaProto, authorization |-> AuthorizationProto,
   authenticate |-> AuthenticateProto, authentication |-> AuthenticationProto,
   head |-> HeadProto, connection |-> ConnectionProto,
   bandwidth |-> BandwidthProto, time |-> TimeProto, key |-> KeyProto,
   attribute |-> AttributeProto, media |-> MediaProto, sdp |-> SdpProto]
-----------------------------------------------------------------------------
(* ... and back: quotes are put around *)

PairUnproto == PairProto
CharUnproto == CharProto
AllowUnproto == Form({"value"}, {}, None, None)     \* quotes there are none
CallIdUnproto == CallIdProto
CseqUnproto == CseqProto
UriUnproto == UriProto

AddressUnproto == AddressProto
ContentTypeUnproto == ContentTypeProto
EncodeUnproto == EncodeProto
ViaUnproto == ViaProto

AuthorizationUnproto ==
  LET quoted == {"cnonce", "message_qop", "nonce", "opaque", "realm", "response",
                 "uri", "username"}
  IN Form(Credentials \ quoted, quoted, None, None)

AuthenticateUnproto ==
  Form({"algorithm", "auth_param", "auth_type", "stale"},
       {"domain", "nonce", "opaque", "qop_options", "realm"}, None, None)

\* Bug: a field is left out.
AuthenticationShort ==
  Form({}, {"cnonce", "nextnonce", "qop_options", "rspauth"}, None, None)
AuthenticationUnproto ==
  Form({"nonce_count"}, {"cnonce", "nextnonce", "qop_options", "rspauth"}, None, None)

\* The bits of a message that is read say which header fields to take; every
\* call asks for all.
HeadUnproto == Form({"version"}, {}, HeadLists, HeadParts)

ConnectionUnproto == ConnectionProto
BandwidthUnproto == BandwidthProto
TimeUnproto == TimeProto
KeyUnproto == KeyProto
AttributeUnproto == AttributeProto
MediaUnproto == MediaProto
SdpUnproto == SdpProto

Unproto ==
  [pair |-> PairUnproto, char |-> CharUnproto, allow |-> AllowUnproto,
   call_id |-> CallIdUnproto, cseq |-> CseqUnproto, uri |-> UriUnproto,
   address |-> AddressUnproto, content_type |-> ContentTypeUnproto,
   encode |-> EncodeUnproto, via |-> ViaUnproto, authorization |-> AuthorizationUnproto,
   authenticate |-> AuthenticateUnproto, authentication |-> AuthenticationUnproto,
   head |-> HeadUnproto, connection |-> ConnectionUnproto,
   bandwidth |-> BandwidthUnproto, time |-> TimeUnproto, key |-> KeyUnproto,
   attribute |-> AttributeUnproto, media |-> MediaUnproto, sdp |-> SdpUnproto]

\* What a protobuf message must have: a string that is missing is packed as an
\* empty one.
Required ==
  [pair |-> {"name"}, char |-> {}, allow |-> {},
   call_id |-> {"number"}, cseq |-> {"method", "number"}, uri |-> {"scheme", "host"},
   address |-> {}, content_type |-> {"type", "subtype"}, encode |-> {"element"},
   via |-> {"version", "protocol", "host"},
   authorization |-> {"auth_type", "username", "realm", "nonce", "uri", "response"},
   authenticate |-> {"auth_type", "realm"},
   authentication |-> {"nextnonce", "qop_options", "rspauth", "cnonce", "nonce_count"},
   head |-> {"version"}, connection |-> {"c_nettype", "c_addrtype", "c_addr"},
   bandwidth |-> {"b_bwtype", "b_bandwidth"}, time |-> {"t_start_time", "t_stop_time"},
   key |-> {"k_keytype"}, attribute |-> {"a_att_field"},
   media |-> {"m_media", "m_port", "m_proto"},
   sdp |-> {"v_version", "o_username", "o_sess_id", "o_sess_version", "o_nettype",
            "o_addrtype", "o_addr"}]

-----------------------------------------------------------------------------
(* A value of a type, there and back *)

Text(text, quotes) == [text |-> text, quotes |-> quotes]
Empty == Text("", 0)

Unquoted(v) == IF v = Null \/ v.quotes = 0 THEN v ELSE [v EXCEPT !.quotes = @ - 1]
Enquoted(v) == IF v = Null THEN v ELSE [v EXCEPT !.quotes = @ + 1]

\* Types that are a string in the protobuf message: without one there is nothing.
Words == {"char", "allow"}

\* array__proto gives an element for each of the list, and ends at one that gives
\* nothing: the head is not converted then, SDP takes what there is.
Elements(l) ==
  LET end == SelectInSeq(l, LAMBDA e : e = Null)
  IN IF end = 0 THEN l ELSE SubSeq(l, 1, end - 1)

RECURSIVE There(_, _)
There(type, q) ==
  LET form == Proto[type]
      List(f) == [k \in DOMAIN q[f] |-> There(form.lists[f], q[f][k])]
  IN IF \/ q = Null
        \/ type \in Words /\ q.value = Null
        \/ type = "head" /\ \E f \in DOMAIN form.lists : Elements(List(f)) # List(f)
     THEN Null
     ELSE [f \in DOMAIN q |->
             CASE f \in form.plain -> q[f]
               [] f \in form.quotes -> Unquoted(q[f])
               [] f \in DOMAIN form.lists -> Elements(List(f))
               [] f \in DOMAIN form.parts -> There(form.parts[f], q[f])
               [] OTHER -> Null]

RECURSIVE Packed(_, _)
Packed(type, p) ==
  LET form == Proto[type] IN
  IF p = Null THEN Null
  ELSE [f \in DOMAIN p |->
          CASE f \in Required[type] /\ p[f] = Null -> Empty
            [] f \in DOMAIN form.lists ->
                 [k \in DOMAIN p[f] |-> Packed(form.lists[f], p[f][k])]
            [] f \in DOMAIN form.parts -> Packed(form.parts[f], p[f])
            [] OTHER -> p[f]]

RECURSIVE Back(_, _)
Back(type, p) ==
  LET form == Unproto[type] IN
  IF p = Null THEN Null
  ELSE [f \in DOMAIN p |->
          CASE f \in form.plain -> p[f]
            [] f \in form.quotes -> Enquoted(p[f])
            [] f \in DOMAIN form.lists ->
                 [k \in DOMAIN p[f] |-> Back(form.lists[f], p[f][k])]
            [] f \in DOMAIN form.parts -> Back(form.parts[f], p[f])
            [] OTHER -> Null]

\* One hop of a value.
Carried(type, q) == Back(type, Packed(type, There(type, q)))

-----------------------------------------------------------------------------
(* Bodies *)

\* The types of a body that have a field of the protobuf message, in the order
\* they are written; a body without a type has the one of the message.
Kinds == <<"sdp", "vfu", "dtmf", "pidf", "rl">>
Structured == {Kinds[k] : k \in DOMAIN Kinds}
KindOf(b, type) == IF b.type = Null THEN type ELSE b.type

\* A body with its own header fields, and with what SDP is read from its text.
Body(type, headers, text, sdp) ==
  [type |-> type, headers |-> headers, text |-> text, sdp |-> sdp]

\* A DTMF relay body that can be read gives a number; XML and SDP that cannot
\* give an empty message.  What a text is for the reader:
Bad == "bad"            \* not what the type says
Lost == "lost"          \* an empty message, written out
Keys == [k \in {"0", "9", "10", "*", "12", "A", "15", "D", "16", "B1"} |->
           CASE k = "0" -> 0 [] k = "9" -> 9 [] k \in {"10", "*"} -> 10
             [] k \in {"12", "A"} -> 12 [] k \in {"15", "D"} -> 15
             [] k = "16" -> 16 [] OTHER -> 179]

\* sip__type__dtmf__proto: *, # and A to D are 10, 11 and 12 to 15; the hex
\* digits after a letter are read with it.
Signal(text) == IF text \in DOMAIN Keys THEN Keys[text] ELSE -1

\* The character of a number: there is none from 16 on, and the text ends there.
Digit(n) ==
  CASE n = 0 -> "0" [] n = 9 -> "9" [] n = 10 -> "*" [] n = 12 -> "A" [] n = 15 -> "D"
    [] OTHER -> Bad

\* What of the text is in the protobuf message.
Read(kind, text) ==
  CASE kind = "dtmf" -> Signal(text)
    [] text = Bad -> Lost
    [] OTHER -> text
Readable(b, type) == KindOf(b, type) = "dtmf" => Signal(b.text) >= 0

\* __content__proto, from the last body on: the first of a kind is taken for
\* its field, the others are contents in their order.
Taken(bodies, type) ==
  {i \in DOMAIN bodies :
     LET kind == KindOf(bodies[i], type)
     IN /\ kind \in Structured /\ Readable(bodies[i], type)
        /\ \A j \in DOMAIN bodies :
             j > i => ~(KindOf(bodies[j], type) = kind /\ Readable(bodies[j], type))}

\* Bug: the contents come in the order they are met.
ContentsMet(bodies, type) ==
  LET rest == DOMAIN bodies \ Taken(bodies, type)
  IN Reverse(SelectSeq([i \in DOMAIN bodies |-> <<i, bodies[i]>>], LAMBDA x : x[1] \in rest))
Contents(bodies, type) ==
  LET rest == DOMAIN bodies \ Taken(bodies, type)
  IN SelectSeq([i \in DOMAIN bodies |-> <<i, bodies[i]>>], LAMBDA x : x[1] \in rest)

Fields(bodies, type) ==
  [kind \in {KindOf(bodies[i], type) : i \in Taken(bodies, type)} |->
     LET i == CHOOSE j \in Taken(bodies, type) : KindOf(bodies[j], type) = kind
     IN [value |-> Read(kind, bodies[i].text), sdp |-> bodies[i].sdp]]

\* __content__unproto: each field becomes a body in front, with its type when
\* there are others already; the contents follow, without theirs.  No body has
\* header fields of its own.
Written(kind, value) == IF kind = "dtmf" THEN Digit(value) ELSE value

Joined(fields, contents) ==
  LET Added(l, kind) ==
        IF kind \notin DOMAIN fields THEN l
        ELSE <<Body(IF l # <<>> \/ contents # <<>> THEN kind ELSE Null, <<>>,
                    Written(kind, fields[kind].value), Carried("sdp", fields[kind].sdp))>>
             \o l
  IN FoldLeft(Added, <<>>, Kinds)
     \o [k \in DOMAIN contents |-> Body(Null, <<>>, contents[k][2].text, contents[k][2].sdp)]

\* A message with a presence or a list that must have an element and is empty
\* is packed, and no other end unpacks it.
Unpacks(fields) ==
  \A kind \in {"pidf", "rl"} \cap DOMAIN fields : fields[kind].value # Lost

-----------------------------------------------------------------------------
(* Messages *)

TypeOf(m) == IF m.head.content_type = Null THEN Null ELSE m.head.content_type.type.text

\* sip__message__proto and sip__message__unproto: a status makes a response, a
\* request has a URI and the method of its CSeq.
Relayed(m) ==
  LET type == TypeOf(m)
      fields == Fields(m.bodies, type)
  IN IF ~Unpacks(fields) \/ There("head", m.head) = Null \/ (m.status = 0 /\ (m.request = Null \/ m.head.cseq = Null))
     THEN Null
     ELSE [status |-> m.status,
           request |-> IF m.status > 0 THEN Null ELSE Carried("uri", m.request),
           head |-> Carried("head", m.head),
           bodies |-> Joined(fields, Contents(m.bodies, type))]

Init == message \in Messages /\ hops = 0

\* A message is sent on by whoever got it.
Hop ==
  /\ message # Null /\ hops < 2
  /\ message' = Relayed(message) /\ hops' = hops + 1

Next == Hop

vars == <<message, hops>>

Spec == Init /\ [][Next]_vars

-----------------------------------------------------------------------------
\* Two values of a type say the same: quotes are form, and a string that must be
\* there and is not is an empty one.
RECURSIVE Alike(_, _, _)
Alike(type, a, b) ==
  LET form == Proto[type]
      Says(f, v) == IF v # Null THEN v.text ELSE IF f \in Required[type] THEN "" ELSE Null
  IN IF a = Null \/ b = Null THEN a = b
     ELSE \A f \in DOMAIN a :
            IF f \in DOMAIN form.lists
            THEN /\ Len(a[f]) = Len(b[f])
                 /\ \A k \in DOMAIN a[f] : Alike(form.lists[f], a[f][k], b[f][k])
            ELSE IF f \in DOMAIN form.parts THEN Alike(form.parts[f], a[f], b[f])
            ELSE Says(f, a[f]) = Says(f, b[f])

\* What a body says: the number of a DTMF body, or its text.
SaysBody(b, type) == IF KindOf(b, type) = "dtmf" /\ Signal(b.text) >= 0
                     THEN <<"signal", Signal(b.text)>> ELSE <<"text", b.text>>

\* Every header field but the MIME version and every body of a message gets to
\* the other end, and says there what it said: with all its parts, elements in
\* their order, but for quotes, strings that must be there and DTMF numbers
\* without a key.  A body that is alone and of the message's type says what it
\* said by that type too.  Nothing is said of a body's own header fields and of a
\* part's own type, which are lost: the type also where the part is alone, or is
\* the first that is written.
MeaningKept ==
  [][LET type == TypeOf(message)
         sent == [message.head EXCEPT !.mime_version = Null]
     IN
     message' # Null =>
       /\ Alike("head", sent, message'.head)
       /\ message'.status = message.status
       /\ message.status = 0 => Alike("uri", message.request, message'.request)
       /\ Len(message'.bodies) = Len(message.bodies)
       /\ \A b \in Range(message.bodies) :
            b.text # Bad /\ (KindOf(b, type) = "dtmf" => Signal(b.text) \in 0..15) =>
              \E c \in Range(message'.bodies) :
                /\ Len(message.bodies) = 1 /\ b.type = Null =>
                     SaysBody(c, TypeOf(message')) = SaysBody(b, type)
                /\ \/ c.text = b.text
                   \/ KindOf(b, type) = "dtmf" /\ Signal(c.text) = Signal(b.text)
                /\ Alike("sdp", b.sdp, c.sdp)
     ]_vars

\* What a hop loses or changes it does the first time: the form that strings and
\* bodies have then, with their types or without, stays over as many hops as a
\* call takes.
Settled == [][hops > 0 => message' = message]_vars
=============================================================================
