----------------------------- MODULE OneBotService -----------------------------
(***************************************************************************)
(* Events in, actions out (onebot/v11/core.py, snowluma/service.py, the    *)
(* reply routes of snowluma/client.py, action_service.py): what an         *)
(* upstream payload becomes, which handlers are given it, and which API    *)
(* call, on which account, an action of a handler becomes.                 *)
(*                                                                         *)
(* Connections come and go; what holds the bytes of an event or a call is  *)
(* in SnowLumaClient.  A call is answered at once here.                    *)
(***************************************************************************)
EXTENDS Integers, SequencesExt, TLC

CONSTANTS
  SelfIds,     \* the configured accounts: a function from account ids to self ids
  Payloads,    \* what upstream may send
  Numbers,     \* the ids that are positive integers
  ExtensionAPIs,\* API names that are not portable actions
  MaxRoutes,   \* _MAX_REPLY_ROUTES
  MaxEvents,   \* bound of the model: events received
  Missing      \* no conversation, token, event or call

\* _normalize_signal_event puts the kind of a payload before the rest of its type.
ASSUME RouteAssumption ==
  /\ MaxRoutes \in Nat \ {0}
  /\ Missing \notin {"send_group_msg", "send_private_msg"}
  /\ \A p \in Payloads : p.type \in {"request.friend", "request.group"} => p.post_type = "request"

VARIABLES
  linked,      \* the accounts with a connection
  received,    \* how many events there were: each one's number makes its identifiers
  routes,      \* the reply routes of each account, oldest first
  queued,      \* the events each account has not handed over yet
  heard,       \* the events the bus was given
  last,        \* the last action executed
  issued       \* the tokens each account gave out since it connected last

chatVars == <<linked, received, routes, queued, heard, last, issued>>

Accounts == DOMAIN SelfIds

-----------------------------------------------------------------------------
(* Events. *)

Conversation(type, id, parent) == [type |-> type, id |-> id, parent |-> parent]

\* The group of a temporary session, which its private messages belong to.
TemporarySessionParent(p) == IF p.subtype = "group" THEN p.group ELSE Missing

MessageConversation(p) ==
  IF p.message_type = "group" THEN Conversation("group", p.group, Missing)
  ELSE Conversation("private", p.user, TemporarySessionParent(p))

\* _signal_conversation.
SignalConversation(p) ==
  IF p.group # Missing THEN Conversation("group", p.group, Missing)
  ELSE IF p.type = "notice.bot_offline" \/ p.user = Missing THEN Missing
  ELSE Conversation("private", p.user, Missing)

\* normalize_event drops what is not an event, and raises for another account's or one without
\* its identifiers; n makes the token.
IsEvent(account, p) ==
  /\ p.post_type \in {"message", "notice", "request"}
  /\ p.self_id = SelfIds[account]
  /\ p.post_type = "message" =>
       /\ p.message_type \in {"private", "group"} /\ p.user # Missing
       /\ p.message_type = "group" => p.group # Missing

NormalizeEvent(account, p, n) ==
  [runtime |-> account, bot |-> SelfIds[account], n |-> n,
   post_type |-> p.post_type, type |-> p.type, flag |-> p.flag,
   conversation |-> IF p.post_type = "message" THEN MessageConversation(p) ELSE SignalConversation(p),
   token |-> IF p.post_type = "message" THEN <<account, n>> ELSE Missing]

\* _remember_reply_route.
RememberReplyRoute(table, token, conversation) ==
  LET more == Append(table, [token |-> token, conversation |-> conversation])
  IN  IF Len(more) > MaxRoutes THEN Tail(more) ELSE more

\* _consume: a payload becomes an event, and its token a route, before it waits for the handlers.
Consume(account, p) ==
  /\ account \in linked /\ received < MaxEvents
  /\ IsEvent(account, p)
  /\ received' = received + 1
  /\ LET e == NormalizeEvent(account, p, received + 1)
         routed == e.token # Missing /\ e.conversation # Missing
     IN  /\ queued' = [queued EXCEPT ![account] = Append(@, e)]
         /\ IF routed
            THEN /\ routes' = [routes EXCEPT ![account] = RememberReplyRoute(@, e.token, e.conversation)]
                 /\ issued' = [issued EXCEPT ![account] = Append(@, e)]
            ELSE UNCHANGED <<routes, issued>>
  /\ UNCHANGED <<linked, heard, last>>

\* _dispatch_events and _publish.
Publish(account) ==
  /\ queued[account] # <<>>
  /\ heard' = Append(heard, Head(queued[account]))
  /\ queued' = [queued EXCEPT ![account] = Tail(@)]
  /\ UNCHANGED <<linked, received, routes, last, issued>>

Connect(account) ==
  /\ account \notin linked /\ linked' = linked \cup {account}
  /\ UNCHANGED <<received, routes, queued, heard, last, issued>>

\* The connection ends: _clear_connection_state.  Queued events stay.
Disconnect(account) ==
  /\ account \in linked /\ linked' = linked \ {account}
  /\ routes' = [routes EXCEPT ![account] = <<>>]
  /\ issued' = [issued EXCEPT ![account] = <<>>]
  /\ UNCHANGED <<received, queued, heard, last>>

-----------------------------------------------------------------------------
(* Actions. *)

NoCall(code) == [code |-> code, api |-> Missing, target |-> Missing, parent |-> Missing, flag |-> Missing]

Call(api, target, parent, flag) ==
  [code |-> "sent", api |-> api, target |-> target, parent |-> parent, flag |-> flag]

RouteOf(table, token) == SelectInSeq(table, LAMBDA r : r.token = token)

\* Mutant: an answer to a temporary session is sent as to a friend.
SendToFriend(conversation) ==
  IF conversation.id \notin Numbers THEN NoCall("failed")
  ELSE Call(IF conversation.type = "group" THEN "send_group_msg" ELSE "send_private_msg",
            conversation.id, Missing, Missing)

\* The call that says something in a conversation.
SendTo(conversation) ==
  IF conversation.id \notin Numbers THEN NoCall("failed")
  ELSE IF conversation.type = "group" THEN Call("send_group_msg", conversation.id, Missing, Missing)
  ELSE IF conversation.parent \notin Numbers \cup {Missing} THEN NoCall("failed")
  ELSE Call("send_private_msg", conversation.id, conversation.parent, Missing)

\* send_message: a conversation goes before a token.
SendMessage(account, action) ==
  LET i == RouteOf(routes[account], action.token)
  IN  IF action.conversation # Missing THEN SendTo(action.conversation)
      ELSE IF i = 0 THEN NoCall("failed")
      ELSE SendTo(routes[account][i].conversation)

\* respond_request.
RespondRequest(e) ==
  IF e.flag = Missing THEN NoCall("failed")
  ELSE IF e.type = "request.friend" THEN Call("set_friend_add_request", Missing, Missing, e.flag)
  ELSE IF e.type = "request.group" THEN Call("set_group_add_request", Missing, Missing, e.flag)
  ELSE NoCall("failed")

\* execute_adapter_action.
AdapterAction(action) ==
  IF action.api \in ExtensionAPIs THEN Call(action.api, Missing, Missing, Missing) ELSE NoCall("failed")

\* call_api, on an account without a connection.
Performed(account, call) == IF call.api # Missing /\ account \notin linked THEN NoCall("failed") ELSE call

\* The action of an envelope, for its account.
Carried(account, e, action) ==
  Performed(account,
    CASE action.type = "send_message" -> SendMessage(account, action)
      [] action.type = "delete_message" -> Call("delete_msg", Missing, Missing, Missing)
      [] action.type = "respond_request" -> RespondRequest(e)
      [] action.type = "adapter_action" -> AdapterAction(action))

\* execute: the envelope must be the source event's own, and its account the one of that event.
Execute(e, envelope) ==
  IF e = Missing THEN NoCall("SOURCE_EVENT_REQUIRED")
  ELSE IF envelope.event # e.n \/ envelope.runtime # e.runtime \/ envelope.bot # e.bot
  THEN NoCall("SOURCE_EVENT_MISMATCH")
  ELSE IF envelope.runtime \notin Accounts THEN NoCall("ACCOUNT_NOT_CONFIGURED")
  ELSE IF SelfIds[envelope.runtime] # envelope.bot THEN NoCall("ACCOUNT_NOT_CONFIGURED")
  ELSE Carried(envelope.runtime, e, envelope.action)

\* The actions a handler may think of: to a conversation it has seen, by a token it has seen,
\* the removal of a message, the answer to a request, an extension.
Actions ==
  LET Action(type, conversation, token, api) ==
        [type |-> type, conversation |-> conversation, token |-> token, api |-> api]
      seen == ToSet(heard)
  IN  {Action("send_message", e.conversation, t, Missing) :
         e \in {s \in seen : s.conversation # Missing}, t \in {Missing}}
      \cup {Action("send_message", Missing, e.token, Missing) : e \in {s \in seen : s.token # Missing}}
      \cup {Action(type, Missing, Missing, Missing) : type \in {"respond_request", "delete_message"}}
      \cup {Action("adapter_action", Missing, Missing, api) : api \in ExtensionAPIs \cup {"send_msg"}}

\* ActionService.execute and the backend, for an event and an envelope that names one.
Act(e, named, action) ==
  LET envelope == [event |-> named.n, runtime |-> named.runtime, bot |-> named.bot, action |-> action]
  IN  /\ last' = [event |-> e, envelope |-> envelope, result |-> Execute(e, envelope)]
      /\ UNCHANGED <<linked, received, routes, queued, heard, issued>>

ChatInit ==
  /\ linked = {} /\ received = 0 /\ heard = <<>> /\ last = Missing
  /\ routes = [a \in Accounts |-> <<>>] /\ queued = routes /\ issued = routes

\* An action changes nothing here, so a behaviour may end with it: what could be done after it
\* is done in one that leaves it out.
ChatNext ==
  /\ last = Missing
  /\ \/ \E a \in Accounts, p \in Payloads : Consume(a, p)
     \/ \E a \in Accounts : Publish(a) \/ Connect(a) \/ Disconnect(a)
     \/ \E e \in ToSet(heard) \cup {Missing}, named \in ToSet(heard), action \in Actions : Act(e, named, action)

ChatSpec == ChatInit /\ [][ChatNext]_chatVars

-----------------------------------------------------------------------------
(* What the accounts promise. *)

\* What the handlers were told of the conversation of token t.
ConversationOf(events, t) == (CHOOSE e \in ToSet(events) : e.token = t).conversation

\* The call reaches the conversation c: the same user, below the same group.
Reaches(call, c) ==
  /\ call.target = c.id /\ call.parent = c.parent
  /\ call.api = IF c.type = "group" THEN "send_group_msg" ELSE "send_private_msg"

\* OneBot knows users and groups by their numbers.
Addressable(c) == c.id \in Numbers /\ (c.type = "group" \/ c.parent \in Numbers \cup {Missing})

\* The last events of a list that a table of routes has room for.
Newest(events) ==
  SubSeq(events, IF Len(events) > MaxRoutes THEN Len(events) - MaxRoutes + 1 ELSE 1, Len(events))

\* The call for this envelope, executed for event e, is one that e may cause.
StaysHome(e, envelope, call) ==
  LET action == envelope.action
  IN  call.api # Missing =>
        /\ e # Missing
        /\ e.runtime = envelope.runtime /\ e.bot = SelfIds[e.runtime] /\ e.runtime \in linked
        /\ action.type = "respond_request" => call.flag = e.flag /\ e.post_type = "request"
        /\ action.type = "send_message" =>
             IF action.conversation # Missing THEN Reaches(call, action.conversation)
             ELSE Reaches(call, ConversationOf(heard, action.token)) /\ action.token[1] = e.runtime

\* It answers by a token that is among the newest of a connection that lives.
Answerable(e, envelope) ==
  /\ envelope.action.type = "send_message" /\ e # Missing /\ envelope.event = e.n
  /\ e.runtime \in linked
  /\ envelope.action.token \in {t.token : t \in ToSet(Newest(issued[e.runtime]))}
  /\ Addressable(ConversationOf(heard, envelope.action.token))

\* An action goes out on the account of the event it answers and nowhere else; an answer by
\* token reaches the conversation of the event that carried the token, a temporary session
\* included, or fails; it does not fail while the token is among the newest of a connection
\* that lives and OneBot can address the conversation; and a request is answered with its own
\* flag.  (execute, send_message, _remember_reply_route, _clear_connection_state,
\* respond_request.)
AnswersGoHome ==
  last # Missing =>
    /\ StaysHome(last.event, last.envelope, last.result)
    /\ Answerable(last.event, last.envelope) => last.result.api # Missing
=============================================================================
