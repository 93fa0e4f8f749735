---------------------------- MODULE MCConversion ----------------------------
EXTENDS Conversion

Strings(type) == Proto[type].plain \cup Proto[type].quotes

\* A value of a type whose strings are their own names, in quotes or not, one of
\* them missing; two elements in every list, the second without one of its strings
\* where it is more than a string, and every part.
RECURSIVE Sample(_, _, _)
Sample(type, missing, quotes) ==
  LET form == Proto[type]
      S == Strings(type)
      Sub(t, absent) == Sample(t, absent, quotes)
  IN [f \in S \cup DOMAIN form.lists \cup DOMAIN form.parts |->
        CASE f \in S -> IF f = missing THEN Null ELSE Text(f, IF f \in quotes THEN 1 ELSE 0)
          [] f \in DOMAIN form.lists ->
               LET t == form.lists[f]
               IN <<Sub(t, ""), Sub(t, IF t \in Words THEN "" ELSE CHOOSE g \in Strings(t) : TRUE)>>
          [] OTHER -> Sub(form.parts[f], "")]

\* The quotes a header field has: none, those it gets back, or all.
Quotes(type) == {{}, Unproto[type].quotes, Strings(type)}

Bare == [f \in {"version", "mime_version"} \cup DOMAIN HeadLists \cup DOMAIN HeadParts |->
           CASE f = "version" -> Text("2.0", 0)
             [] f \in DOMAIN HeadLists -> <<>>
             [] f \in {"content_type", "mime_version"} -> Null
             [] OTHER -> Sample(HeadParts[f], "", {})]

Message(head, bodies) ==
  [status |-> 0, request |-> Sample("uri", "", {}), head |-> head, bodies |-> bodies]

\* One header field each, as a list of one or a part; an Allow may have no value.
Headed ==
  UNION {{Message([Bare EXCEPT ![f] = <<Sample(HeadLists[f], m, q)>>], <<>>) :
            m \in Strings(HeadLists[f]) \cup {""}, q \in Quotes(HeadLists[f])} :
         f \in DOMAIN HeadLists}
  \cup UNION {{Message([Bare EXCEPT ![f] = Sample(HeadParts[f], m, q)], <<>>) :
            m \in (Strings(HeadParts[f]) \cup {""}) \ {"method"}, q \in Quotes(HeadParts[f])} :
         f \in DOMAIN HeadParts}

Typed(type) ==
  [Bare EXCEPT !.content_type = [type |-> Text(type, 0), subtype |-> Text("x", 0),
                                 gen_params |-> <<>>]]
Mixed == [Typed("mixed") EXCEPT !.mime_version = Text("1.0", 0)]

\* Bodies of one to three: with and without types, readable or not.
Sdp(missing) == Sample("sdp", missing, {})
Plain(type, text) == Body(type, <<>>, text, Null)
Part(type, text) == Body(type, <<Sample("pair", "", {})>>, text, Null)

OneBody ==
  {Message(Typed("sdp"), <<Body(Null, <<>>, "a", Sdp(m))>>) : m \in Strings("sdp") \cup {""}}
  \cup {Message(Typed(t), <<Plain(Null, x)>>) :
          t \in {"vfu", "pidf", "rl", "text"}, x \in {"a", Bad}}
  \cup {Message(Typed("dtmf"), <<Plain(Null, x)>>) : x \in DOMAIN Keys \cup {Bad}}

OnePart ==
  {Message(Mixed, <<Body("sdp", <<>>, "a", Sdp(""))>>)}
  \cup {Message(Mixed, <<Part(t, x)>>) : t \in Structured \cup {"text", Null}, x \in {"a", "12", Bad}}

Several ==
  LET some == {Part("sdp", "a"), Plain("sdp", "b"), Plain("vfu", Bad), Plain("dtmf", "12"),
               Plain("dtmf", Bad), Plain("pidf", "a"), Part("text", "a"), Plain(Null, "b")}
  IN {Message(Mixed, l) : l \in UNION {[1..n -> some] : n \in 2..3}}

\* A response has a status, and no URI.
MCMessages ==
  LET all == Headed \cup OneBody \cup OnePart \cup Several
  IN all \cup {[m EXCEPT !.status = 200, !.request = Null] : m \in OneBody}
=============================================================================
