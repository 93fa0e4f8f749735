--------------------------- MODULE Subscriptions ---------------------------
(***************************************************************************)
(* What src/src/notify.c promises: who watches whom, and that a change is  *)
(* told to everyone who watches.                                           *)
(***************************************************************************)
CONSTANTS From,         \* subscribers
          Contact,      \* where they are told
          To,           \* whom they watch
          CallId        \* of the dialog of a subscription

VARIABLES subs,         \* subscriptions
          sent,         \* what the last call told
          open

vars == <<subs, sent, open>>

Subscription == [from : From, contact : Contact, to : To, id : CallId]

Init == subs = {} /\ sent = {} /\ open = TRUE

\* A subscription is told its state at once, and takes the place of the one
\* there was.
Subscribe(f, c, t, i) ==
  LET new == [from |-> f, contact |-> c, to |-> t, id |-> i]
  IN /\ subs' = {s \in subs : ~(s.from = f /\ s.contact = c /\ s.to = t)} \cup {new}
     /\ sent' = {new}
     /\ UNCHANGED open

\* A subscription, all of a contact or all of a subscriber end.
Unsubscribe(ended) ==
  /\ ended \subseteq subs /\ subs' = subs \ ended
  /\ sent' = {}
  /\ UNCHANGED open

OfContact(f, c) == {s \in subs : s.from = f /\ s.contact = c}

Change(t) ==
  /\ sent' = {s \in subs : s.to = t}
  /\ UNCHANGED <<subs, open>>

Close == subs' = {} /\ sent' = {} /\ open' = FALSE

Next ==
  /\ open
  /\ \/ \E f \in From, c \in Contact, t \in To, i \in CallId : Subscribe(f, c, t, i)
     \/ \E f \in From, c \in Contact, t \in To :
          Unsubscribe({s \in OfContact(f, c) : s.to = t})
     \/ \E f \in From, c \in Contact : Unsubscribe(OfContact(f, c))
     \/ \E f \in From : Unsubscribe({s \in subs : s.from = f})
     \/ \E t \in To : Change(t)
     \/ Close

Spec == Init /\ [][Next]_vars
=============================================================================
