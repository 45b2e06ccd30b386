--------------------------- MODULE InquiriesProofs ---------------------------
(***************************************************************************)
(* The messages and the ticket of an order (Inquiries), for any users,     *)
(* staff and messages, and the home screens (HomeScreens), for any         *)
(* viewers, clients and agents.                                            *)
(***************************************************************************)
EXTENDS Inquiries, HomeScreens, TLAPS

\* What a request is to mark was read, and is there or was deleted since; one that is
\* to write a message has its chat.
Reading(q) ==
  /\ q.ids \subseteq shown
  /\ \A i \in q.ids : messages[i] \in {"others", "gone"}
  /\ q.pc = "write" => chat

\* Until the ticket changes hands, it is as the check of the request found it.
Held(q) ==
  ~q.met =>
    /\ q.pc = "take" => ticket.employee = Nil
    /\ q.pc \in {"forward", "answer"} /\ q.by \in Inquirers => ticket.employee = q.by

IInv ==
  /\ TypeOK
  /\ seen \subseteq Messages \cap shown
  /\ \A r \in Requests : Reading(request[r]) /\ Held(request[r])
  /\ \A r \in Requests : request[r].pc \in TicketPCs => request[r].by \in Staff
  /\ ticket.department # Nil => ticket.forwarded

-----------------------------------------------------------------------------
(* The messages and the ticket: every step keeps IInv *)

LEMMA IdleFacts ==
  /\ Idle \in Request /\ Idle.pc = "idle" /\ Idle.ids = {} /\ ~Idle.met
  /\ "idle" \notin TicketPCs
BY DEF Idle, Request, TicketPCs

LEMMA InitIInv == Init => IInv
<1> SUFFICES ASSUME Init PROVE IInv
  OBVIOUS
<1>1. TypeOK
  BY InquiryConstants, IdleFacts DEF Init, TypeOK, NoTicket, Ticket
<1>2. \A r \in Requests : Reading(request[r]) /\ Held(request[r])
  BY IdleFacts DEF Init, Reading, Held
<1> QED BY <1>1, <1>2, IdleFacts DEF Init, IInv, NoTicket

\* The rows a user's requests share: all but what is read of the order.
Shared == <<me, chat, messages, seen, shown, ticket>>

\* A request begins with the shared rows as they are, and holds what it found there.
LEMMA BeginKeeps ==
  ASSUME IInv, NEW r \in Requests, NEW new \in Request, Begin(r, new),
         Reading(new), Held(new), new.pc \in TicketPCs => new.by \in Staff
  PROVE  IInv'
<1>1. TypeOK'
  BY InquiryConstants DEF Begin, IInv, TypeOK
<1>2. \A q \in Requests : request'[q] = IF q = r THEN new ELSE request[q]
  BY DEF Begin, IInv, TypeOK
<1>3. \A q \in Requests : Reading(request[q])' /\ Held(request[q])'
  BY <1>2 DEF Begin, IInv, Reading, Held
<1> QED BY <1>1, <1>2, <1>3 DEF Begin, IInv

LEMMA SendMessageKeeps ==
  ASSUME IInv, NEW r \in Requests, NEW by \in {"me", "other"}, NEW asClient \in BOOLEAN,
         SendMessage(r, by, asClient)
  PROVE  IInv'
<1> DEFINE new == [Idle EXCEPT !.pc = IF chat THEN "write" ELSE "open", !.by = by]
<1>1. new \in Request /\ new.ids = {} /\ new.pc \in {"open", "write"}
      /\ (new.pc = "write" => chat)
  BY DEF Idle, Request
<1>2. Reading(new) /\ Held(new) /\ new.pc \notin TicketPCs
  BY <1>1 DEF Reading, Held, TicketPCs
<1>3. Begin(r, new)
  BY DEF SendMessage
<1> HIDE DEF new
<1> QED BY <1>1, <1>2, <1>3, BeginKeeps

LEMMA AsksKeeps ==
  ASSUME IInv, NEW r \in Requests, NEW e \in Staff, NEW pc \in {"take", "forward", "answer"},
         Asks(r, pc, e),
         pc = "take" => ticket.employee = Nil,
         pc # "take" /\ e \in Inquirers => ticket.employee = e
  PROVE  IInv'
<1> DEFINE new == [Idle EXCEPT !.pc = pc, !.by = e]
<1>1. new \in Request /\ new.ids = {} /\ new.pc = pc /\ new.by = e
  BY DEF Idle, Request, TicketPCs
<1>2. Reading(new) /\ Held(new)
  BY <1>1 DEF Reading, Held
<1>3. Begin(r, new)
  BY DEF Asks
<1> HIDE DEF new
<1> QED BY <1>1, <1>2, <1>3, BeginKeeps

LEMMA MetFacts ==
  ASSUME NEW q \in Request
  PROVE  LET met == [q EXCEPT !.met = TRUE]
         IN  met \in Request /\ met.met /\ met.pc = q.pc /\ met.by = q.by /\ met.ids = q.ids
BY DEF Request

\* A ticket is written by a request that held it, and the others know if it moved.
LEMMA WritesKeeps ==
  ASSUME IInv, NEW r \in Requests, NEW new \in Ticket, Writes(r, new),
         new.department # Nil => new.forwarded
  PROVE  IInv'
<1>1. \A q \in Requests : request'[q] = IF q = r THEN Idle
         ELSE IF request[q].pc \in TicketPCs /\ new.employee # ticket.employee
              THEN [request[q] EXCEPT !.met = TRUE] ELSE request[q]
  BY DEF Writes
<1>2. request' \in [Requests -> Request]
  <2>1. \A q \in Requests : request'[q] \in Request
    <3> TAKE q \in Requests
    <3>1. request[q] \in Request
      BY DEF IInv, TypeOK
    <3>2. [request[q] EXCEPT !.met = TRUE] \in Request
      BY <3>1, MetFacts
    <3>3. request'[q] \in {Idle, [request[q] EXCEPT !.met = TRUE], request[q]}
      BY <1>1
    <3> QED BY <3>1, <3>2, <3>3, IdleFacts
  <2> QED BY <2>1 DEF Writes
<1>3. TypeOK'
  BY <1>2 DEF Writes, IInv, TypeOK
<1>4. ASSUME NEW q \in Requests PROVE Reading(request[q])' /\ Held(request[q])'
  <2>1. CASE q = r
    BY <1>1, <2>1, IdleFacts DEF Reading, Held
  <2>2. CASE q # r /\ request[q].pc \in TicketPCs /\ new.employee # ticket.employee
    <3>1. request[q] \in Request /\ request'[q] = [request[q] EXCEPT !.met = TRUE]
      BY <1>1, <2>2 DEF IInv, TypeOK
    <3>2. /\ request'[q].met /\ request'[q].ids = request[q].ids
          /\ request'[q].pc = request[q].pc
      BY <3>1, MetFacts
    <3> QED BY <3>2 DEF Writes, IInv, Reading, Held
  <2>3. CASE q # r /\ request[q].pc \in TicketPCs /\ new.employee = ticket.employee
    BY <1>1, <2>3 DEF Writes, IInv, Reading, Held
  <2>4. CASE q # r /\ request[q].pc \notin TicketPCs
    BY <1>1, <2>4 DEF Writes, IInv, Reading, Held, TicketPCs
  <2> QED BY <2>1, <2>2, <2>3, <2>4
<1>5. ASSUME NEW q \in Requests, request'[q].pc \in TicketPCs PROVE request'[q].by \in Staff
  <2>1. q # r
    BY <1>1, <1>5, IdleFacts
  <2>2. request'[q].pc = request[q].pc /\ request'[q].by = request[q].by
    BY <1>1, <2>1, MetFacts DEF IInv, TypeOK
  <2> QED BY <1>5, <2>2 DEF IInv
<1> QED BY <1>3, <1>4, <1>5 DEF Writes, IInv

LEMMA ConnectKeeps ==
  ASSUME IInv, NEW r \in Requests, Connect(r) \/ Forwarded(r) \/ Answer(r)
  PROVE  IInv'
<1>0. /\ ticket \in Ticket /\ request[r] \in Request
      /\ request[r].pc \in TicketPCs => request[r].by \in Staff
  BY DEF IInv, TypeOK
<1>1. CASE Connect(r)
  <2> DEFINE new == [ticket EXCEPT !.employee = request[r].by]
  <2>1. new \in Ticket /\ new.department = ticket.department /\ new.forwarded = ticket.forwarded
    BY <1>0, <1>1 DEF Connect, Ticket, TicketPCs
  <2>2. Writes(r, new)
    BY <1>1 DEF Connect
  <2> HIDE DEF new
  <2> QED BY <2>1, <2>2, WritesKeeps DEF IInv
<1>2. CASE Forwarded(r)
  <2>1. PICK d \in Departments :
          Writes(r, [ticket EXCEPT !.department = d, !.employee = Nil, !.forwarded = TRUE])
    BY <1>2 DEF Forwarded
  <2> DEFINE new == [ticket EXCEPT !.department = d, !.employee = Nil, !.forwarded = TRUE]
  <2>2. new \in Ticket /\ new.forwarded
    BY <1>0 DEF Ticket
  <2> HIDE DEF new
  <2> QED BY <2>1, <2>2, WritesKeeps DEF new
<1>3. CASE Answer(r)
  <2> DEFINE new == [ticket EXCEPT !.answers = @ \cup {request[r].by}]
  <2>1. new \in Ticket /\ new.department = ticket.department /\ new.forwarded = ticket.forwarded
    BY <1>0, <1>3 DEF Answer, Ticket, TicketPCs
  <2>2. Writes(r, new)
    BY <1>3 DEF Answer
  <2> HIDE DEF new
  <2> QED BY <2>1, <2>2, WritesKeeps DEF IInv
<1> QED BY <1>1, <1>2, <1>3

LEMMA CloseTicketKeeps ==
  ASSUME IInv, NEW r \in Requests, NEW e \in Staff, CloseTicket(r, e)
  PROVE  IInv'
<1> DEFINE new == [Idle EXCEPT !.pc = "close", !.by = e]
<1>1. new \in Request /\ new.ids = {} /\ new.pc = "close" /\ new.by = e
  BY DEF Idle, Request, TicketPCs
<1>2. \A q \in Requests : request'[q] = IF q = r THEN new ELSE request[q]
  BY DEF CloseTicket, IInv, TypeOK
<1>3. /\ ticket' \in Ticket /\ ticket'.employee = ticket.employee
      /\ ticket'.department = ticket.department /\ ticket'.forwarded = ticket.forwarded
  BY DEF CloseTicket, IInv, TypeOK, Ticket
<1>4. TypeOK'
  <2>1. request' \in [Requests -> Request]
    <3> HIDE DEF new
    <3> QED BY <1>1 DEF CloseTicket, IInv, TypeOK, new
  <2> QED BY <1>3, <2>1, InquiryConstants DEF CloseTicket, IInv, TypeOK
<1> HIDE DEF new
<1>5. \A q \in Requests : Reading(request[q])' /\ Held(request[q])'
  BY <1>1, <1>2, <1>3 DEF CloseTicket, IInv, Reading, Held
<1> QED BY <1>1, <1>2, <1>3, <1>4, <1>5 DEF CloseTicket, IInv

\* A read of messages of others: what it read is to be marked.
LEMMA ReadKeeps ==
  ASSUME IInv, NEW r \in Requests, NEW ids \in SUBSET Messages,
         \A i \in ids : messages[i] = "others",
         begun < MaxBegun, begun' = begun + 1,
         shown' = shown \cup ids,
         \/ UNCHANGED request
         \/ request' = [request EXCEPT ![r] = [Idle EXCEPT !.pc = "mark", !.ids = ids]],
         UNCHANGED <<me, order, chat, messages, seen, ticket>>
  PROVE  IInv'
<1> DEFINE new == [Idle EXCEPT !.pc = "mark", !.ids = ids]
<1>1. new \in Request /\ new.ids = ids /\ new.pc = "mark" /\ new.pc \notin TicketPCs
  BY DEF Idle, Request, TicketPCs
<1> HIDE DEF new
<1>2. request' \in [Requests -> Request]
  BY <1>1 DEF IInv, TypeOK, new
<1>3. \A q \in Requests : request'[q] = request[q] \/ request'[q] = new
  BY DEF IInv, TypeOK, new
<1>4. TypeOK'
  BY <1>2, InquiryConstants DEF IInv, TypeOK
<1>5. \A q \in Requests : Reading(request[q])' /\ Held(request[q])'
  BY <1>1, <1>3 DEF IInv, Reading, Held
<1> QED BY <1>1, <1>3, <1>4, <1>5 DEF IInv

\* The end of a request leaves the others as they are.
LEMMA EndsKeeps ==
  ASSUME IInv, NEW r \in Requests, Ends(r),
         UNCHANGED <<me, order, shown, ticket, begun>>,
         chat' = chat,
         messages' \in [Messages -> {"none", "mine", "others", "gone"}],
         \A i \in Messages : messages'[i] = messages[i] \/ (messages[i] = "none" /\ chat),
         seen' \subseteq Messages \cap shown,
         \A i \in seen' : messages'[i] = "others"
  PROVE  IInv'
<1>1. request' \in [Requests -> Request]
  BY IdleFacts DEF Ends, IInv, TypeOK
<1>2. \A q \in Requests : request'[q] = request[q] \/ request'[q] = Idle
  BY DEF Ends, IInv, TypeOK
<1>3. TypeOK'
  BY <1>1 DEF IInv, TypeOK
<1>4. ASSUME NEW q \in Requests PROVE Reading(request[q])'
  <2>1. CASE request'[q] = Idle
    BY <2>1, IdleFacts DEF Reading
  <2>2. CASE request'[q] = request[q]
    <3>1. request[q].ids \subseteq Messages /\ Reading(request[q])
      BY DEF IInv, TypeOK, Request
    <3> QED BY <2>2, <3>1 DEF Reading
  <2> QED BY <1>2, <2>1, <2>2
<1>5. \A q \in Requests : Held(request[q])'
  BY <1>2, IdleFacts DEF IInv, Held
<1> QED BY <1>2, <1>3, <1>4, <1>5, IdleFacts DEF IInv

LEMMA MessageStepsKeep ==
  ASSUME IInv, NEW r \in Requests,
         \/ OpenChat(r) \/ WriteMessage(r) \/ GetChatMessages(r) \/ MarkAllSeen(r) \/ Mark(r)
  PROVE  IInv'
<1>0. /\ request[r] \in Request /\ request[r].ids \subseteq Messages
      /\ messages \in [Messages -> {"none", "mine", "others", "gone"}]
      /\ Reading(request[r])
  BY DEF IInv, TypeOK, Request
<1>1. CASE OpenChat(r)
  <2>1. CASE chat
    BY <1>0, <1>1, <2>1, EndsKeeps DEF OpenChat, IInv, TypeOK
  <2>2. CASE ~chat
    <3>1. /\ request' = [request EXCEPT ![r].pc = "write"] /\ chat' = TRUE
          /\ UNCHANGED <<me, order, messages, seen, shown, ticket, begun>>
      BY <1>1, <2>2 DEF OpenChat, Goes
    <3>2. request' \in [Requests -> Request]
      BY <1>0, <3>1 DEF IInv, TypeOK, Request
    <3>3. ASSUME NEW q \in Requests
          PROVE  /\ request'[q].ids = request[q].ids /\ request'[q].met = request[q].met
                 /\ request'[q].by = request[q].by
                 /\ request'[q].pc \in {request[q].pc, "write"}
      BY <3>1 DEF IInv, TypeOK, Request
    <3>4. TypeOK'
      BY <3>1, <3>2 DEF IInv, TypeOK
    <3>5. \A q \in Requests : Reading(request[q])' /\ Held(request[q])'
      BY <3>1, <3>3 DEF IInv, Reading, Held
    <3> QED BY <3>1, <3>3, <3>4, <3>5 DEF IInv, TicketPCs
  <2> QED BY <2>1, <2>2, <1>1 DEF IInv, TypeOK
<1>2. CASE WriteMessage(r)
  <2>1. PICK i \in Messages :
          /\ messages[i] = "none"
          /\ messages' = [messages EXCEPT ![i] = IF request[r].by = "me" THEN "mine" ELSE "others"]
    BY <1>2 DEF WriteMessage
  <2>2. /\ messages' \in [Messages -> {"none", "mine", "others", "gone"}]
        /\ \A j \in Messages : messages'[j] = messages[j] \/ (messages[j] = "none" /\ chat)
    BY <1>0, <1>2, <2>1 DEF WriteMessage, Reading
  <2>3. \A j \in seen : messages'[j] = "others"
    BY <1>0, <2>1 DEF IInv, TypeOK
  <2> QED BY <1>2, <2>2, <2>3, EndsKeeps DEF WriteMessage, IInv
<1>3. CASE GetChatMessages(r)
  <2> DEFINE others == {i \in Messages : messages[i] = "others"}
  <2>1. /\ others \in SUBSET Messages /\ \A i \in others : messages[i] = "others"
        /\ begun < MaxBegun /\ begun' = begun + 1 /\ shown' = shown \cup others
        /\ \/ UNCHANGED request
           \/ request' = [request EXCEPT ![r] = [Idle EXCEPT !.pc = "mark", !.ids = others]]
        /\ UNCHANGED <<me, order, chat, messages, seen, ticket>>
    BY <1>3 DEF GetChatMessages
  <2> HIDE DEF others
  <2> QED BY <2>1, ReadKeeps
<1>4. CASE MarkAllSeen(r)
  <2> DEFINE ids == {i \in Unseen : Swept}
  <2>1. /\ ids \in SUBSET Messages /\ \A i \in ids : messages[i] = "others"
        /\ begun < MaxBegun /\ begun' = begun + 1 /\ shown' = shown \cup ids
        /\ \/ UNCHANGED request
           \/ request' = [request EXCEPT ![r] = [Idle EXCEPT !.pc = "mark", !.ids = ids]]
        /\ UNCHANGED <<me, order, chat, messages, seen, ticket>>
    BY <1>4 DEF MarkAllSeen, Unseen
  <2> HIDE DEF ids
  <2> QED BY <2>1, ReadKeeps
<1>5. CASE Mark(r)
  <2>1. seen' \subseteq Messages \cap shown
    BY <1>0, <1>5 DEF Mark, Marked, Reading, IInv
  <2>2. \A i \in seen' : messages'[i] = "others"
    <3>1. \A i \in seen : messages[i] = "others"
      BY DEF IInv, TypeOK
    <3>2. (\A i \in request[r].ids : There(i)) => \A i \in request[r].ids : messages[i] = "others"
      BY <1>0 DEF Reading, There
    <3> QED BY <1>5, <3>1, <3>2 DEF Mark, Marked
  <2> QED BY <1>0, <1>5, <2>1, <2>2, EndsKeeps DEF Mark
<1> QED BY <1>1, <1>2, <1>3, <1>4, <1>5

LEMMA TicketStepsKeep ==
  ASSUME IInv, NEW r \in Requests, NEW e \in Staff,
         TakeTicket(r, e) \/ ForwardTicket(r, e) \/ CreateResponse(r, e) \/ CloseTicket(r, e)
  PROVE  IInv'
<1>1. CASE TakeTicket(r, e)
  BY <1>1, AsksKeeps DEF TakeTicket
<1>2. CASE ForwardTicket(r, e)
  BY <1>2, AsksKeeps DEF ForwardTicket
<1>3. CASE CreateResponse(r, e)
  BY <1>3, AsksKeeps DEF CreateResponse
<1>4. CASE CloseTicket(r, e)
  BY <1>4, CloseTicketKeeps
<1> QED BY <1>1, <1>2, <1>3, <1>4

LEMMA OthersKeep ==
  ASSUME IInv, ChangeOrder \/ CreateChat \/ \E i \in Messages : DeleteMessages(i)
  PROVE  IInv'
<1>1. CASE ChangeOrder
  <2>1. order' \in Order
    BY <1>1 DEF ChangeOrder, IInv, TypeOK, Order, Statuses
  <2>2. TypeOK'
    BY <1>1, <2>1, InquiryConstants DEF ChangeOrder, IInv, TypeOK
  <2> QED BY <1>1, <2>2 DEF ChangeOrder, IInv, Reading, Held
<1>2. CASE CreateChat
  <2>1. TypeOK'
    BY <1>2 DEF CreateChat, IInv, TypeOK
  <2> QED BY <1>2, <2>1 DEF CreateChat, IInv, Reading, Held
<1>3. ASSUME NEW i \in Messages, DeleteMessages(i) PROVE IInv'
  <2>1. /\ messages \in [Messages -> {"none", "mine", "others", "gone"}]
        /\ seen \subseteq Messages /\ \A j \in seen : messages[j] = "others"
    BY DEF IInv, TypeOK
  <2>2. \A j \in Messages : messages'[j] = IF j = i THEN "gone" ELSE messages[j]
    BY <1>3, <2>1 DEF DeleteMessages
  <2>3. messages[i] # "none"
    BY <1>3 DEF DeleteMessages, There
  <2>4. TypeOK'
    BY <1>3, <2>1, <2>2, <2>3 DEF DeleteMessages, IInv, TypeOK
  <2>5. ASSUME NEW q \in Requests PROVE Reading(request[q])' /\ Held(request[q])'
    <3>1. request[q].ids \subseteq Messages /\ Reading(request[q]) /\ Held(request[q])
      BY DEF IInv, TypeOK, Request
    <3> QED BY <1>3, <2>2, <3>1 DEF DeleteMessages, Reading, Held
  <2> QED BY <1>3, <2>4, <2>5 DEF DeleteMessages, IInv
<1> QED BY <1>1, <1>2, <1>3

LEMMA NextIInv == IInv /\ [Next]_vars => IInv'
<1> SUFFICES ASSUME IInv, [Next]_vars PROVE IInv'
  OBVIOUS
<1>1. CASE UNCHANGED vars
  BY <1>1 DEF vars, IInv, TypeOK, Reading, Held
<1> QED BY <1>1, OthersKeep, SendMessageKeeps, MessageStepsKeep, ConnectKeeps, TicketStepsKeep
        DEF Next, Rest

\* IInv holds in every reachable state.
THEOREM InquiriesInductive == Spec => []IInv
BY InitIInv, NextIInv, PTL DEF Spec

-----------------------------------------------------------------------------
(* The messages and the ticket: the properties *)

\* Messages are in a chat, a mark is of a message there is, and rows keep their types,
\* whatever is written or deleted between the read and the write of a request.
THEOREM InquiryTypes == Spec => []TypeOK
<1>1. IInv => TypeOK
  BY DEF IInv
<1> QED BY <1>1, InquiriesInductive, PTL

\* A message is marked as seen only when a request of the user has read it.
THEOREM SeenWasShownHolds == Spec => []SeenWasShown
<1>1. IInv => SeenWasShown
  BY DEF IInv, SeenWasShown
<1> QED BY <1>1, InquiriesInductive, PTL

\* The SQL of the badge is the query of the list of chats.
LEMMA SameBranches ==
  ASSUME me \in Profile
  PROVE  InquiryBranchSql <=> InquiryBranch
<1>1. me.orderType \in {"receiving", "forwarded", Nil}
  BY DEF Profile
<1>2. {order.branch, ClientBranch} \cap me.branches # {}
        <=> order.branch \in me.branches \/ ClientBranch \in me.branches
  OBVIOUS
<1> QED BY <1>1, <1>2, InquiryConstants DEF InquiryBranchSql, InquiryBranch

\* For every user and every order, what is on his list is on his badge, and what is on
\* his badge or what he was told of is on his list and is swept, with the exceptions
\* the property names.
THEOREM ScopesAgreeHolds == Spec => []ScopesAgree
<1>1. IInv => ScopesAgree
  <2> SUFFICES ASSUME IInv, Unseen # {} PROVE ScopesAgree
    BY DEF ScopesAgree
  <2>1. me \in Profile
    BY InquiryConstants DEF IInv, TypeOK
  <2>2. me.role \in Roles /\ me.stores \in {"this", "other", "none"}
    BY <2>1 DEF Profile
  <2>3. Badge # {} <=> Counted
    BY DEF Badge
  <2>4. Listed => Counted
    BY <2>1, <2>2, SameBranches DEF Listed, Counted, Assistant, Inquirer
  <2>5. LET shownStatus == order.status \in me.statuses IN
        Counted => \/ Listed \/ order.deleted
                   \/ Assistant /\ (~shownStatus \/ me.stores = "none")
    BY <2>1, <2>2, SameBranches DEF Listed, Counted, Assistant, Inquirer
  <2>6. Notified => \/ Listed \/ order.deleted
                    \/ Inquirer /\ me.branches = {}
                    \/ Assistant /\ (~me.mayRead \/ me.stores # "this")
    <3>1. CASE Inquirer
      <4>1. NotifiedInquirer /\ me.branches # {} => InquiryBranch
        BY <2>1, InquiryConstants DEF NotifiedInquirer, InquiryBranch, Profile
      <4> QED BY <3>1, <4>1 DEF Notified, NotifiedInquirer, Listed, Assistant, Inquirer
    <3>2. CASE ~Inquirer
      BY <2>2, <3>2 DEF Notified, Listed, Assistant, Inquirer
    <3> QED BY <3>1, <3>2
  <2>7. Counted => \/ Swept \/ ~order.own
                   \/ me.role = "CLIENT_ASSISTANT" /\ ~me.managed
                   \/ me.role = "BRANCH_MANAGER" /\ order.branch # me.branch
                   \/ Inquirer /\ me.branches # {} /\ order.branch \notin me.branches
    BY <2>2 DEF Swept, Counted, Assistant, Inquirer
  <2> QED BY <2>3, <2>4, <2>5, <2>6, <2>7 DEF ScopesAgree
<1> QED BY <1>1, InquiriesInductive, PTL

\* A ticket leaves the list of the one who has it only by a forward of his, or of one
\* who is no inquiry employee, and none of them answers another's, but for requests
\* the ticket changed hands under.
THEOREM TicketChangesHandsHolds == Spec => TicketChangesHands
<1> DEFINE Step ==
      \A r \in Requests : request[r].pc \in TicketPCs /\ request'[r] = Idle =>
         /\ \A e \in Staff : HisTickets(e) /\ ~HisTickets(e)' =>
              \/ request[r].met
              \/ /\ request[r].pc = "forward"
                 /\ request[r].by \in Inquirers => request[r].by = e
         /\ \A e \in Staff : ticket'.employee = Nil /\ ticket'.department = DepartmentOf[e] =>
              ForwardedTickets(e)' \/ ticket.closed
         /\ request[r].pc = "answer" /\ request[r].by \in Inquirers =>
              request[r].met \/ HisTickets(request[r].by)
<1>1. IInv /\ [Next]_vars => [Step]_vars
  <2> SUFFICES ASSUME IInv, IInv', Next, NEW r \in Requests, request[r].pc \in TicketPCs,
                      request'[r] = Idle
               PROVE
         /\ \A e \in Staff : HisTickets(e) /\ ~HisTickets(e)' =>
              \/ request[r].met
              \/ /\ request[r].pc = "forward"
                 /\ request[r].by \in Inquirers => request[r].by = e
         /\ \A e \in Staff : ticket'.employee = Nil /\ ticket'.department = DepartmentOf[e] =>
              ForwardedTickets(e)' \/ ticket.closed
         /\ request[r].pc = "answer" /\ request[r].by \in Inquirers =>
              request[r].met \/ HisTickets(request[r].by)
    BY NextIInv
  <2>0. request \in [Requests -> Request] /\ ticket \in Ticket /\ Held(request[r])
        /\ request[r] # Idle
    BY IdleFacts DEF IInv, TypeOK
  <2>1. PICK q \in Requests : Connect(q) \/ Forwarded(q) \/ Answer(q)
    <3>1. request' # request
      BY <2>0
    <3>2. ASSUME NEW q \in Requests, NEW new, Begin(q, new), new # Idle PROVE FALSE
      BY <2>0, <3>2 DEF Begin
    <3>3. ASSUME NEW q \in Requests, NEW by \in {"me", "other"}, NEW asClient \in BOOLEAN,
                 SendMessage(q, by, asClient)
          PROVE  FALSE
      <4> DEFINE new == [Idle EXCEPT !.pc = IF chat THEN "write" ELSE "open", !.by = by]
      <4>1. new # Idle /\ Begin(q, new)
        BY <3>3 DEF SendMessage, Idle
      <4> QED BY <3>2, <4>1
    <3>4. ASSUME NEW q \in Requests, NEW pc \in {"take", "forward", "answer"}, NEW e \in Staff,
                 Asks(q, pc, e)
          PROVE  FALSE
      <4>1. [Idle EXCEPT !.pc = pc, !.by = e] # Idle
        BY DEF Idle
      <4> QED BY <3>2, <3>4, <4>1 DEF Asks
    <3>5. ASSUME NEW q \in Requests, NEW e \in Staff,
                 \/ TakeTicket(q, e) \/ ForwardTicket(q, e)
                 \/ CreateResponse(q, e) \/ CloseTicket(q, e)
          PROVE  FALSE
      <4>1. CASE CloseTicket(q, e)
        <5>1. [Idle EXCEPT !.pc = "close", !.by = e] # Idle
          BY DEF Idle
        <5> QED BY <2>0, <4>1, <5>1 DEF CloseTicket
      <4> QED BY <3>4, <3>5, <4>1 DEF TakeTicket, ForwardTicket, CreateResponse
    <3>6. ASSUME NEW q \in Requests,
                 OpenChat(q) \/ WriteMessage(q) \/ GetChatMessages(q) \/ MarkAllSeen(q) \/ Mark(q)
          PROVE  FALSE
      <4>1. q # r
        <5>1. CASE GetChatMessages(q) \/ MarkAllSeen(q)
          BY <2>0, <5>1 DEF GetChatMessages, MarkAllSeen
        <5>2. CASE OpenChat(q) \/ WriteMessage(q) \/ Mark(q)
          BY <5>2 DEF OpenChat, WriteMessage, Mark, TicketPCs
        <5> QED BY <3>6, <5>1, <5>2
      <4> QED BY <2>0, <3>6, <4>1 DEF OpenChat, WriteMessage, GetChatMessages, MarkAllSeen,
                                     Mark, Ends, Goes
    <3> QED BY <3>1, <3>3, <3>5, <3>6 DEF Next, ChangeOrder, CreateChat, DeleteMessages, Rest, vars
  <2>2. q = r
    <3>1. ASSUME NEW new, Writes(q, new), q # r PROVE FALSE
      <4>1. request'[r] = request[r] \/ request'[r] = [request[r] EXCEPT !.met = TRUE]
        BY <3>1 DEF Writes
      <4>2. request'[r].pc = request[r].pc
        BY <2>0, <4>1 DEF Request
      <4> QED BY <4>2, IdleFacts
    <3> QED BY <2>1, <3>1 DEF Connect, Forwarded, Answer
  <2>3. Connect(r) \/ Forwarded(r) \/ Answer(r)
    BY <2>1, <2>2
  <2>4. /\ Connect(r) => request[r].pc = "take" /\ ticket'.closed = ticket.closed
        /\ Forwarded(r) => request[r].pc = "forward" /\ ticket'.closed = ticket.closed
        /\ Answer(r) => /\ request[r].pc \in {"answer", "close"}
                        /\ ticket'.employee = ticket.employee /\ ticket'.closed = ticket.closed
    BY <2>0 DEF Connect, Forwarded, Answer, Writes, Ticket
  <2>5. ASSUME NEW e \in Staff, HisTickets(e), ~HisTickets(e)'
        PROVE  \/ request[r].met
               \/ /\ request[r].pc = "forward"
                  /\ request[r].by \in Inquirers => request[r].by = e
    <3>1. ticket.employee = e /\ ticket'.employee # e /\ e # Nil
      BY <2>5, InquiryConstants DEF HisTickets
    <3> QED BY <2>0, <2>3, <2>4, <3>1 DEF Held
  <2>6. ASSUME NEW e \in Staff, ticket'.employee = Nil, ticket'.department = DepartmentOf[e],
               ~ticket.closed
        PROVE  ForwardedTickets(e)'
    <3>1. DepartmentOf[e] # Nil
      BY InquiryConstants
    <3>2. ticket'.forwarded
      BY <2>6, <3>1 DEF IInv
    <3> QED BY <2>3, <2>4, <2>6, <3>2 DEF ForwardedTickets
  <2>7. request[r].pc = "answer" /\ request[r].by \in Inquirers =>
          request[r].met \/ HisTickets(request[r].by)
    BY <2>0 DEF Held, HisTickets
  <2> QED BY <2>5, <2>6, <2>7
<1>2. [][Step]_vars => TicketChangesHands
  BY PTL DEF TicketChangesHands
<1> QED BY <1>1, <1>2, InquiriesInductive, PTL DEF Spec

-----------------------------------------------------------------------------
(* The home screens: every step keeps HomeIInv *)

ManagerIds == {u.id : u \in Managers}

\* Statistics that were kept, and those a visit holds, count an order of the clients
\* its key or the visit names; a manager's answer is divided whole.
KeptMatch ==
  \A k \in kept : k.counted \in k.key[2] \cup {NoOne}

VisitMatches ==
  /\ visit.pc \in {"counted", "answered"} /\ visit.by \notin ManagerIds =>
       visit.counted \in visit.mine \cup {NoOne}
  /\ visit.pc = "answered" /\ visit.by \in ManagerIds =>
       IF visit.counted = NoOne THEN visit.groups = {} /\ ~visit.unassigned
       ELSE (visit.groups = {}) = visit.unassigned

\* Kept statistics are of the clients their user had, and count an order of some client.
Kept == [key : {u.id : u \in Viewers} \X SUBSET HomeClients, counted : HomeClients \cup {NoOne}]

HomeIInv == HomeTypeOK /\ kept \subseteq Kept /\ KeptMatch /\ VisitMatches

LEMMA ViewerFacts ==
  ASSUME NEW u \in Viewers
  PROVE  /\ u \in Viewer /\ u.branch \in HomeBranches
         /\ u.role = "RECEIVING_AGENT" => u.id \in ReceivingAgents
         /\ u.id \in ManagerIds <=> u.role = "RECEIVING_AGENTS_MANAGER"
<1>1. u \in Viewer
  BY HomeAssumption
<1>2. u.id \in ManagerIds <=> u.role = "RECEIVING_AGENTS_MANAGER"
  BY HomeAssumption DEF ManagerIds, Managers, Users
<1> QED BY <1>1, <1>2, HomeAssumption DEF Viewer

LEMMA AssignedFacts ==
  ASSUME HomeTypeOK
  PROVE  /\ \A u \in Viewers : Assigned(u) \subseteq HomeClients
         /\ \A a \in ReceivingAgents : a \in Assignees /\ assigned[a] \subseteq HomeClients
         /\ \A u \in Viewers : u.role = "RECEIVING_AGENT" => Assigned(u) = assigned[u.id]
BY ViewerFacts DEF HomeTypeOK, Assigned, Assignees

LEMMA NoVisitFacts == NoVisit \in Visit /\ NoVisit.pc = "idle"
BY DEF NoVisit, Visit

LEMMA HomeInitIInv == HomeInit => HomeIInv
<1> SUFFICES ASSUME HomeInit PROVE HomeIInv
  OBVIOUS
<1>1. parcel \in Parcel /\ parcel.client \in HomeClients
  BY DEF HomeInit, Parcel
<1>2. clientReport \in [ReportKinds -> ClientReport]
  BY DEF HomeInit, ClientReport
<1>3. NoVisit \in Visit /\ NoVisit.pc = "idle"
  BY NoVisitFacts
<1> QED BY <1>1, <1>2, <1>3, HomeAssumption DEF HomeInit, HomeIInv, HomeTypeOK, KeptMatch, VisitMatches

LEMMA AlterKeeps ==
  ASSUME HomeIInv, NEW new \in Parcel, Alter(new)
  PROVE  HomeIInv'
BY HomeAssumption DEF Alter, Change, HomeIInv, HomeTypeOK, KeptMatch, VisitMatches

LEMMA ScreensChangeKeeps ==
  ASSUME HomeIInv, ScreensChange
  PROVE  HomeIInv'
<1>0. /\ parcel \in Parcel /\ clientReport \in [ReportKinds -> ClientReport]
      /\ assigned \in [Assignees -> SUBSET HomeClients]
      /\ {"REGISTERED", "READY_TO_SEND", "WITH_DELIVERY_AGENT", "WITH_RECEIVING_AGENT",
          "IN_GOV_REPOSITORY"} \cup Closed \cup SentBack \subseteq HomeStatuses
  BY DEF HomeIInv, HomeTypeOK, HomeStatuses, OnTheWay
<1>1. CASE PrintReceipts
  <2>1. [parcel EXCEPT !.printed = TRUE] \in Parcel
    BY <1>0 DEF Parcel
  <2> QED BY <1>1, <2>1, AlterKeeps DEF PrintReceipts
<1>2. CASE ScanIn
  <2>1. [parcel EXCEPT !.status = "IN_GOV_REPOSITORY", !.withAgent = FALSE, !.agent = NoOne]
          \in Parcel
    BY <1>0 DEF Parcel
  <2> QED BY <1>2, <2>1, AlterKeeps DEF ScanIn
<1>3. CASE ForwardOrder
  <2>1. [parcel EXCEPT !.own = FALSE, !.withAgent = FALSE] \in Parcel
    BY <1>0 DEF Parcel
  <2> QED BY <1>3, <2>1, AlterKeeps DEF ForwardOrder
<1>4. CASE SetAgentReport
  <2>1. /\ [parcel EXCEPT !.agentReport = "live"] \in Parcel
        /\ [parcel EXCEPT !.agentReport = "deleted"] \in Parcel
    BY <1>0 DEF Parcel
  <2> QED BY <1>4, <2>1, AlterKeeps DEF SetAgentReport
<1>5. ASSUME NEW role, SendOrders(role) PROVE HomeIInv'
  <2>1. [parcel EXCEPT !.status = "READY_TO_SEND"] \in Parcel
    BY <1>0 DEF Parcel
  <2> QED BY <1>5, <2>1, AlterKeeps DEF SendOrders
<1>6. ASSUME NEW a \in ReceivingAgents \cup Couriers,
             NEW status \in {"WITH_RECEIVING_AGENT", "WITH_DELIVERY_AGENT"}, TakenBy(a, status)
      PROVE  HomeIInv'
  <2> DEFINE new == [parcel EXCEPT !.agent = a, !.withAgent = TRUE,
                                   !.status = IF parcel.agent = NoOne THEN status ELSE @]
  <2>1. new \in Parcel
    BY <1>0 DEF Parcel
  <2>2. Alter(new)
    BY <1>6 DEF TakenBy
  <2> QED BY <2>1, <2>2, AlterKeeps
<1>7. ASSUME NEW s \in Closed \cup SentBack, NEW closing \in BOOLEAN, Patch(s, closing)
      PROVE  HomeIInv'
  <2>1. [parcel EXCEPT !.status = s, !.withAgent = @ /\ s # "DELIVERED"] \in Parcel
    BY <1>0 DEF Parcel
  <2> QED BY <1>7, <2>1, AlterKeeps DEF Patch
<1>8. ASSUME NEW b \in HomeBranches, Relocate(b) PROVE HomeIInv'
  <2>1. [parcel EXCEPT !.branch = b] \in Parcel
    BY <1>0 DEF Parcel
  <2> QED BY <1>8, <2>1, AlterKeeps DEF Relocate
<1>9. ASSUME NEW c \in HomeClients, ChangeClient(c) PROVE HomeIInv'
  <2>1. [parcel EXCEPT !.client = c] \in Parcel
    BY <1>0 DEF Parcel
  <2> QED BY <1>9, <2>1, AlterKeeps DEF ChangeClient
<1>10. ASSUME NEW kind \in ReportKinds, NEW a \in ReceivingAgents \cup {NoOne},
              CreateClientReport(kind, a)
       PROVE  HomeIInv'
  <2>1. [state |-> "open", agent |-> a] \in ClientReport
    BY DEF ClientReport
  <2>2. parcel' \in Parcel
    BY <1>0, <1>10 DEF CreateClientReport, Parcel
  <2> QED BY <1>0, <1>10, <2>1, <2>2, HomeAssumption
          DEF CreateClientReport, Change, HomeIInv, HomeTypeOK, KeptMatch, VisitMatches
<1>11. ASSUME NEW kind \in ReportKinds, NEW s \in {"confirmed", "deleted"}, SetReport(kind, s)
       PROVE  HomeIInv'
  <2>1. [clientReport[kind] EXCEPT !.state = s] \in ClientReport
    BY <1>0 DEF ClientReport
  <2>2. clientReport' \in [ReportKinds -> ClientReport]
    BY <1>0, <1>11, <2>1 DEF SetReport
  <2> QED BY <1>11, <2>2, HomeAssumption
          DEF SetReport, Change, HomeIInv, HomeTypeOK, KeptMatch, VisitMatches
<1>12. ASSUME NEW e \in Assignees, NEW clients \in SUBSET HomeClients, Assign(e, clients)
       PROVE  HomeIInv'
  BY <1>0, <1>12, HomeAssumption
     DEF Assign, Change, HomeIInv, HomeTypeOK, KeptMatch, VisitMatches
<1> QED BY <1>1, <1>2, <1>3, <1>4, <1>5, <1>6, <1>7, <1>8, <1>9, <1>10, <1>11, <1>12
        DEF ScreensChange, TakeAsReceivingAgent, TakeAsCourier

LEMMA GoKeeps ==
  ASSUME HomeIInv, NEW new \in Visit, Go(new), VisitMatches', kept' \subseteq Kept, KeptMatch'
  PROVE  HomeIInv'
BY DEF Go, HomeIInv, HomeTypeOK

\* The users whose statistics are kept are no managers.
LEMMA AskersFacts ==
  ASSUME NEW u \in Users({"RECEIVING_AGENT"} \cup Assistants)
  PROVE  u \in Viewers /\ u.id \notin ManagerIds
BY ViewerFacts DEF Users, Assistants

LEMMA AskStatisticsKeeps ==
  ASSUME HomeIInv, NEW u \in Users({"RECEIVING_AGENT"} \cup Assistants), AskStatistics(u)
  PROVE  HomeIInv'
<1> DEFINE new == [NoVisit EXCEPT !.by = u.id, !.pc = "asked", !.mine = Assigned(u)]
<1>1. Assigned(u) \subseteq HomeClients /\ u.id \in {v.id : v \in Viewers}
  BY AskersFacts, AssignedFacts, ViewerFacts DEF HomeIInv
<1>2. new \in Visit /\ new.pc = "asked"
  BY <1>1 DEF NoVisit, Visit
<1>3. Go(new) /\ UNCHANGED kept
  BY DEF AskStatistics
<1> HIDE DEF new
<1>4. VisitMatches'
  BY <1>2, <1>3 DEF Go, VisitMatches
<1> QED BY <1>2, <1>3, <1>4, GoKeeps DEF HomeIInv, KeptMatch

LEMMA ReadStatisticsKeeps ==
  ASSUME HomeIInv, NEW u \in Users({"RECEIVING_AGENT"} \cup Assistants), ReadStatistics(u)
  PROVE  HomeIInv'
<1> DEFINE hits == {k \in kept : k.key = CacheKey(u, visit.mine)}
           fresh == IF TileScope(u, visit.mine) /\ TileOpen(u) THEN parcel.client ELSE NoOne
<1>0. /\ visit \in Visit /\ visit.by = u.id /\ u.id \notin ManagerIds /\ kept' = kept
      /\ parcel.client \in HomeClients
  BY AskersFacts DEF HomeIInv, HomeTypeOK, ReadStatistics, Parcel
<1>1. CASE hits # {}
  <2>1. PICK k \in hits : Go([visit EXCEPT !.pc = "answered", !.counted = k.counted])
    BY <1>1 DEF ReadStatistics
  <2>2. k \in kept /\ k.key = <<u.id, visit.mine>>
    BY DEF CacheKey
  <2>3. k.counted \in HomeClients \cup {NoOne} /\ k.counted \in visit.mine \cup {NoOne}
    BY <2>2 DEF HomeIInv, Kept, KeptMatch
  <2> DEFINE new == [visit EXCEPT !.pc = "answered", !.counted = k.counted]
  <2>4. /\ new \in Visit /\ new.by = u.id /\ new.mine = visit.mine
        /\ new.counted = k.counted
    BY <1>0, <2>3 DEF Visit
  <2> HIDE DEF new
  <2>5. VisitMatches'
    BY <1>0, <2>1, <2>3, <2>4 DEF Go, VisitMatches, new
  <2> QED BY <1>0, <2>1, <2>4, <2>5, GoKeeps DEF HomeIInv, KeptMatch, new
<1>2. CASE hits = {}
  <2>1. fresh \in visit.mine \cup {NoOne} /\ fresh \in HomeClients \cup {NoOne}
    <3>1. u.role \in {"RECEIVING_AGENT"} \cup Assistants
      BY DEF Users
    <3>2. TileScope(u, visit.mine) => parcel.client \in visit.mine
      BY <3>1 DEF TileScope, Assistants
    <3> QED BY <1>0, <3>2
  <2> DEFINE new == [visit EXCEPT !.pc = "counted", !.counted = fresh]
  <2>2. Go(new)
    BY <1>2 DEF ReadStatistics
  <2> HIDE DEF fresh
  <2>3. /\ new \in Visit /\ new.by = u.id /\ new.mine = visit.mine /\ new.counted = fresh
    BY <1>0, <2>1 DEF Visit
  <2> HIDE DEF new
  <2>4. VisitMatches'
    <3>1. visit' = new
      BY <2>2 DEF Go
    <3>2. new.pc # "answered" \/ new.by \notin ManagerIds
      BY <1>0, <2>3
    <3> QED BY <1>0, <2>1, <2>3, <3>1, <3>2 DEF VisitMatches
  <2> QED BY <1>0, <2>2, <2>3, <2>4, GoKeeps DEF HomeIInv, KeptMatch
<1> QED BY <1>1, <1>2

LEMMA KeepStatisticsKeeps ==
  ASSUME HomeIInv, NEW u \in Users({"RECEIVING_AGENT"} \cup Assistants), KeepStatistics(u)
  PROVE  HomeIInv'
<1> DEFINE new == [visit EXCEPT !.pc = "answered"]
           row == [key |-> <<u.id, visit.mine>>, counted |-> visit.counted]
<1>0. /\ visit \in Visit /\ visit.by = u.id /\ u.id \notin ManagerIds /\ u.id \in {v.id : v \in Viewers}
      /\ visit.pc = "counted"
  BY AskersFacts, ViewerFacts DEF HomeIInv, HomeTypeOK, KeepStatistics
<1>1. visit.counted \in visit.mine \cup {NoOne}
  BY <1>0 DEF HomeIInv, VisitMatches
<1>2. row \in Kept /\ row.counted \in row.key[2] \cup {NoOne}
  BY <1>0, <1>1 DEF Kept, Visit
<1>3. kept' \subseteq kept \cup {row} /\ Go(new)
  BY DEF KeepStatistics, CacheKey
<1>4. new \in Visit /\ new.by = u.id /\ new.mine = visit.mine /\ new.counted = visit.counted
  BY <1>0 DEF Visit
<1> HIDE DEF new, row
<1>5. VisitMatches'
  <2>1. visit' = new
    BY <1>3 DEF Go
  <2> QED BY <1>0, <1>1, <1>4, <2>1 DEF VisitMatches
<1>6. kept' \subseteq Kept /\ KeptMatch'
  BY <1>2, <1>3 DEF HomeIInv, KeptMatch
<1> QED BY <1>3, <1>4, <1>5, <1>6, GoKeeps

LEMMA ManagerStepsKeep ==
  ASSUME HomeIInv, NEW u \in Managers, CountReady(u) \/ DivideReady(u)
  PROVE  HomeIInv'
<1>0. /\ visit \in Visit /\ u \in Viewers /\ u.id \in ManagerIds /\ u.id \in {v.id : v \in Viewers}
      /\ parcel.client \in HomeClients
  BY ViewerFacts DEF HomeIInv, HomeTypeOK, Managers, Users, ManagerIds, Parcel
<1>1. CASE CountReady(u)
  <2> DEFINE c == IF ManagerOrder(u, "READY_TO_SEND", AgentsOf(u)) \/ Unassigned(u)
                  THEN parcel.client ELSE NoOne
             new == [NoVisit EXCEPT !.by = u.id, !.pc = "counted", !.counted = c]
  <2>1. c \in HomeClients \cup {NoOne}
    BY <1>0
  <2>2. Go(new) /\ kept' = kept
    BY <1>1 DEF CountReady
  <2> HIDE DEF c
  <2>3. new \in Visit /\ new.by = u.id /\ new.pc = "counted"
    BY <1>0, <2>1 DEF NoVisit, Visit
  <2> HIDE DEF new
  <2>4. VisitMatches'
    BY <1>0, <2>2, <2>3 DEF Go, VisitMatches
  <2> QED BY <2>2, <2>3, <2>4, GoKeeps DEF HomeIInv, KeptMatch
<1>2. CASE DivideReady(u)
  <2> DEFINE groups == AgentsWith(u, visit.counted)
             left == LeftOver(u, visit.counted)
             new == [visit EXCEPT !.pc = "answered", !.groups = groups, !.unassigned = left]
  <2>1. groups \subseteq ReceivingAgents /\ left \in BOOLEAN
    BY DEF AgentsWith, AgentsOf, LeftOver
  <2>2. visit.counted # NoOne => (groups = {}) = left
    BY DEF LeftOver
  <2>3. visit.counted = NoOne => groups = {} /\ ~left
    <3>1. \A a \in ReceivingAgents : NoOne \notin assigned[a]
      BY AssignedFacts, HomeAssumption DEF HomeIInv, AgentsOf
    <3> QED BY <3>1 DEF LeftOver, AgentsWith
  <2>4. Go(new) /\ kept' = kept /\ visit.by = u.id
    BY <1>2 DEF DivideReady
  <2> HIDE DEF groups, left
  <2>5. /\ new \in Visit /\ new.by = u.id /\ new.counted = visit.counted
        /\ new.groups = groups /\ new.unassigned = left
    BY <1>0, <2>1, <2>4 DEF Visit
  <2> HIDE DEF new
  <2>6. VisitMatches'
    BY <1>0, <2>2, <2>3, <2>4, <2>5 DEF Go, VisitMatches
  <2> QED BY <2>4, <2>5, <2>6, GoKeeps DEF HomeIInv, KeptMatch
<1> QED BY <1>1, <1>2

LEMMA HomeNextIInv == HomeIInv /\ [HomeNext]_homeVars => HomeIInv'
<1> SUFFICES ASSUME HomeIInv, [HomeNext]_homeVars PROVE HomeIInv'
  OBVIOUS
<1>1. CASE UNCHANGED homeVars
  BY <1>1 DEF homeVars, HomeIInv, HomeTypeOK, KeptMatch, VisitMatches
<1>2. CASE Expire
  BY <1>2 DEF Expire, HomeIInv, HomeTypeOK, KeptMatch, VisitMatches
<1>3. CASE Leave
  <2>1. NoVisit \in Visit /\ NoVisit.pc = "idle"
    BY NoVisitFacts
  <2>2. VisitMatches'
    BY <1>3, <2>1 DEF Leave, Go, VisitMatches
  <2> QED BY <1>3, <2>1, <2>2, GoKeeps DEF Leave, HomeIInv, KeptMatch
<1> QED BY <1>1, <1>2, <1>3, ScreensChangeKeeps, AskStatisticsKeeps, ReadStatisticsKeeps,
           KeepStatisticsKeeps, ManagerStepsKeep DEF HomeNext, ScreensAsked, HomeRest

\* HomeIInv holds in every reachable state.
THEOREM HomeInductive == HomeSpec => []HomeIInv
BY HomeInitIInv, HomeNextIInv, PTL DEF HomeSpec

-----------------------------------------------------------------------------
(* The home screens: the properties *)

\* The order, its reports, the assignments and a visit keep their types.
THEOREM HomeTypes == HomeSpec => []HomeTypeOK
<1>1. HomeIInv => HomeTypeOK
  BY DEF HomeIInv
<1> QED BY <1>1, HomeInductive, PTL

\* Statistics count only orders of the clients and stores that were assigned when they
\* were asked for, kept ones too, and every order a manager is told of is with some
\* agents or with nobody, however the assignments change between the reads.
THEOREM AnswersHold == HomeSpec => []AnswersHoldTogether
<1>1. HomeIInv => AnswersHoldTogether
  BY DEF HomeIInv, VisitMatches, AnswersHoldTogether, ManagerIds
<1> QED BY <1>1, HomeInductive, PTL

LEMMA ParcelFacts ==
  ASSUME HomeTypeOK
  PROVE  /\ parcel.status \in HomeStatuses /\ parcel.client \in HomeClients
         /\ parcel.own \in BOOLEAN
         /\ \A kind \in ReportKinds :
              clientReport[kind].state \in {"none", "open", "confirmed", "deleted"}
         /\ "DELIVERED" \in ReportKinds /\ "RETURNED" \in ReportKinds
BY DEF HomeTypeOK, Parcel, ClientReport, ReportKinds

\* An order is on at most one list and one tile of its status.
LEMMA OneStatus ==
  ASSUME NEW u, NEW mine
  PROVE  /\ \A s : s \in Statistics(u, mine) <=>
                s = parcel.status /\ TileScope(u, mine) /\ TileOpen(u)
         /\ \A s : s \in PhoneLists(u) <=> s = parcel.status /\ ListScope(u) /\ ListOpen(u)
BY DEF Statistics, PhoneLists

\* A client's tiles are his lists, the tiles shown as one are the sum of those behind
\* them, and his registered orders are to be printed or shipped.
LEMMA ClientTiles ==
  ASSUME HomeTypeOK, NEW u \in Viewers, u.role = "CLIENT"
  PROVE  LET counted == Statistics(u, Assigned(u))
             tiles == TilesV2(u, counted)
         IN  /\ TilesV1(u, counted) = PhoneLists(u)
             /\ \A t \in {"REGISTERED", "WITH_RECEIVING_AGENT", "DELIVERED"} :
                  /\ t = "DELIVERED" \/ ~Reopened =>
                       (t \in tiles <=> BehindClientTile(u, t) # {})
                  /\ BehindClientTileV2(u, t) \subseteq BehindClientTile(u, t)
             /\ "REGISTERED" \in counted => ReadyTo(u) # {}
<1> DEFINE counted == Statistics(u, Assigned(u))
           toDo == \/ Unreported("DELIVERED") /\ parcel.status # "RETURNED"
                   \/ Unreported("RETURNED") /\ parcel.status \in SentBack
<1>1. \A s : s \in counted <=> s = parcel.status /\ parcel.client = u.client /\ toDo
  <2>1. TileScope(u, Assigned(u)) <=> parcel.client = u.client
    BY DEF TileScope, Assistants
  <2>2. TileOpen(u) <=> toDo
    BY DEF TileOpen, Assistants
  <2> QED BY <2>1, <2>2, OneStatus
<1>2. \A s : s \in PhoneLists(u) <=> s = parcel.status /\ parcel.client = u.client /\ toDo
  <2>1. ListScope(u) <=> parcel.client = u.client
    BY DEF ListScope, AssistantList, HomeList, LimitedToBranch, Assistants
  <2>2. ListOpen(u) <=> toDo
    BY DEF ListOpen, Assistants
  <2> QED BY <2>1, <2>2, OneStatus
<1> HIDE DEF counted
<1>3. TilesV1(u, counted) = counted
  BY DEF TilesV1, Shown, Assistants
<1>4. counted = PhoneLists(u)
  BY <1>1, <1>2
<1>5. \A t : t \in TilesV2(u, counted) <=> t = Merged(parcel.status) /\ parcel.status \in counted
  <2>1. TilesV2(u, counted) = {Merged(s) : s \in counted}
    BY DEF TilesV2
  <2> QED BY <1>1, <2>1
<1>6. ASSUME NEW t \in {"REGISTERED", "WITH_RECEIVING_AGENT", "DELIVERED"},
             t = "DELIVERED" \/ ~Reopened
      PROVE  t \in TilesV2(u, counted) <=> BehindClientTile(u, t) # {}
  <2>1. BehindClientTile(u, t) # {} <=>
          /\ parcel.client = u.client /\ Merged(parcel.status) = t
          /\ t = "DELIVERED" =>
               \/ Unreported("DELIVERED")
               \/ parcel.status \in SentBack /\ Unreported("RETURNED")
    BY DEF BehindClientTile
  <2>2. Merged(parcel.status) = t => parcel.status # "RETURNED"
    BY DEF Merged, Closed, OnTheWay
  <2>3. t # "DELIVERED" => Unreported("DELIVERED")
    BY <1>6 DEF Reopened, Unreported
  <2> QED BY <1>1, <1>5, <2>1, <2>2, <2>3
<1>7. ASSUME NEW t \in {"REGISTERED", "WITH_RECEIVING_AGENT", "DELIVERED"}
      PROVE  BehindClientTileV2(u, t) \subseteq BehindClientTile(u, t)
  BY DEF BehindClientTileV2, BehindClientTile, Unreported, Live
<1>8. "REGISTERED" \in counted => ReadyTo(u) # {}
  BY <1>1 DEF ReadyTo
<1> QED BY <1>3, <1>4, <1>6, <1>7, <1>8 DEF counted

\* A receiving agent's tiles are the counts behind them, and what he brings back is on
\* the list of it.
LEMMA ReceivingAgentScreen ==
  ASSUME HomeTypeOK, NEW u \in Viewers, u.role = "RECEIVING_AGENT"
  PROVE  LET counted == Statistics(u, Assigned(u))
             tiles == TilesV2(u, counted)
         IN  /\ \A t \in {"READY_TO_SEND", "WITH_RECEIVING_AGENT"} :
                  t \in tiles <=> BehindAgentTile(u, t)
             /\ parcel.own =>
                  \A t \in {"READY_TO_SEND", "WITH_RECEIVING_AGENT", "REGISTERED"} :
                    t \in TilesV1(u, counted) <=> BehindAgentTileV2(u, t)
             /\ "RETURNED" \in tiles /\ parcel.status \in SentBack =>
                  BehindAgentTile(u, "RETURNED") /\ BroughtBack(u.id, parcel.client)
             /\ \A kind \in ReportKinds :
                  kind \in TilesV1(u, counted) <=> CarriedReports(u.id, kind)
<1> DEFINE counted == Statistics(u, Assigned(u))
           mine == assigned[u.id]
<1>0. Assigned(u) = mine
  BY AssignedFacts
<1>1. \A s : s \in counted <=> s = parcel.status /\ parcel.client \in mine
  <2>1. TileScope(u, Assigned(u)) <=> parcel.client \in mine
    BY <1>0 DEF TileScope, Assistants
  <2>2. TileOpen(u)
    BY DEF TileOpen, Assistants
  <2> QED BY <2>1, <2>2, OneStatus
<1> HIDE DEF counted
<1>2. TilesV2(u, counted) = (counted \cap {"READY_TO_SEND", "WITH_RECEIVING_AGENT"})
                              \cup {kind \in {"RETURNED"} : CarriedBy(u.id, kind)}
  BY DEF TilesV2
<1>3. ASSUME NEW t \in {"READY_TO_SEND", "WITH_RECEIVING_AGENT"}
      PROVE  t \in TilesV2(u, counted) <=> BehindAgentTile(u, t)
  BY <1>1, <1>2 DEF BehindAgentTile, AgentTile
<1>4. ASSUME "RETURNED" \in TilesV2(u, counted), parcel.status \in SentBack
      PROVE  BehindAgentTile(u, "RETURNED") /\ BroughtBack(u.id, parcel.client)
  <2>1. CarriedBy(u.id, "RETURNED") /\ "RETURNED" \in ReportKinds
    BY <1>2, <1>4 DEF ReportKinds
  <2> QED BY <1>4, <2>1 DEF BehindAgentTile, AgentTile, BroughtBack, CarriedBy, Live
<1> DEFINE tiles == [READY_TO_SEND |-> /\ parcel.own /\ parcel.status = "READY_TO_SEND"
                                       /\ parcel.client \in mine,
                     WITH_RECEIVING_AGENT |->
                       /\ parcel.own /\ parcel.agent = u.id
                       /\ parcel.status = "WITH_RECEIVING_AGENT" /\ parcel.client \in mine,
                     REGISTERED |->
                       /\ parcel.own /\ parcel.agent = u.id
                       /\ parcel.status = "WITH_RECEIVING_AGENT"
                       /\ mine # {} => parcel.client \notin mine]
<1>5. TilesV1(u, counted) = {kind \in ReportKinds : CarriedBy(u.id, kind)}
                              \cup {t \in DOMAIN tiles : tiles[t]}
  BY DEF TilesV1, ReceivingAgentTiles
<1>6. ASSUME NEW t \in {"READY_TO_SEND", "WITH_RECEIVING_AGENT", "REGISTERED"}, parcel.own
      PROVE  t \in TilesV1(u, counted) <=> BehindAgentTileV2(u, t)
  <2>1. t \in TilesV1(u, counted) <=> tiles[t]
    BY <1>5 DEF ReportKinds
  <2>2. CASE t = "READY_TO_SEND"
    BY <1>6, <2>1, <2>2 DEF BehindAgentTileV2, AgentTile
  <2>3. CASE t = "WITH_RECEIVING_AGENT"
    BY <1>6, <2>1, <2>3 DEF BehindAgentTileV2, AgentTile
  <2>4. CASE t = "REGISTERED"
    BY <1>6, <2>1, <2>4 DEF BehindAgentTileV2, AgentTile
  <2> QED BY <2>2, <2>3, <2>4
<1>7. ASSUME NEW kind \in ReportKinds
      PROVE  kind \in TilesV1(u, counted) <=> CarriedReports(u.id, kind)
  <2>1. kind \notin DOMAIN tiles
    BY DEF ReportKinds
  <2>2. kind \in TilesV1(u, counted) <=> CarriedBy(u.id, kind)
    BY <1>5, <2>1
  <2> QED BY <2>2, ParcelFacts DEF CarriedBy, CarriedReports
<1> HIDE DEF tiles
<1> QED BY <1>3, <1>4, <1>6, <1>7 DEF counted

\* The manager's tiles are what his agents and nobody have behind them.
LEMMA ManagerScreen ==
  ASSUME NEW u,
         NEW t \in {"READY_TO_SEND", "WITH_RECEIVING_AGENT"} \cup ReportKinds
  PROVE  t \in ManagerTiles(u) <=>
           AgentsBehind(u, t) # {} \/ (t = "READY_TO_SEND" /\ Unassigned(u))
<1>1. CASE t \in ReportKinds
  BY <1>1 DEF ManagerTiles, AgentsBehind, ManagerReport, ReportKinds
<1>2. CASE t = "READY_TO_SEND"
  BY <1>2 DEF ManagerTiles, AgentsBehind, ManagerOrder, ReportKinds
<1>3. CASE t = "WITH_RECEIVING_AGENT"
  BY <1>3 DEF ManagerTiles, AgentsBehind, ManagerOrder, ReportKinds
<1> QED BY <1>1, <1>2, <1>3

\* Lists show an inquiry employee less than is counted, or at the main branch without
\* limits more.
LEMMA InquiryTiles ==
  ASSUME NEW u \in Viewers, u.role = "INQUIRY_EMPLOYEE"
  PROVE  LET counted == Statistics(u, Assigned(u))
             listed == TilesV2(u, PhoneLists(u))
             tiles == TilesV2(u, counted)
         IN  IF u.main /\ u.branches = {} THEN tiles \subseteq PhoneLists(u)
             ELSE listed \subseteq tiles
<1> DEFINE counted == Statistics(u, Assigned(u))
<1>1. TileOpen(u) <=> ListOpen(u)
  BY DEF TileOpen, ListOpen
<1>2. TileScope(u, Assigned(u)) <=>
        LET limits == IF u.main /\ u.branches # {} THEN u.branches ELSE {u.branch}
        IN parcel.branch \in limits \/ BranchOfClient \in limits
  BY DEF TileScope
<1>3. ListScope(u) <=> InquiryList(u)
  BY DEF ListScope
<1>4. \A S : TilesV2(u, S) = S \cap u.tiles
  BY DEF TilesV2, Shown
<1>5. CASE u.main /\ u.branches = {}
  <2>1. u.tiles # {} => ListScope(u)
    BY <1>3, <1>5 DEF InquiryList, InquiryBranches, LimitedToBranch
  <2>2. \A s \in counted \cap u.tiles : s \in PhoneLists(u)
    BY <1>1, <2>1, OneStatus
  <2> QED BY <1>4, <1>5, <2>2
<1>6. CASE ~(u.main /\ u.branches = {})
  <2>1. ListScope(u) => TileScope(u, Assigned(u))
    BY <1>2, <1>3, <1>6 DEF InquiryList, InquiryBranches, LimitedToBranch
  <2>2. \A s \in PhoneLists(u) : s \in counted
    BY <1>1, <2>1, OneStatus
  <2> QED BY <1>4, <1>6, <2>2
<1> QED BY <1>5, <1>6

\* The other users' tiles are their lists, but for orders lent to their branch and
\* assistants outside the main one.
LEMMA OtherTiles ==
  ASSUME NEW u \in Viewers,
         u.role \notin {"CLIENT", "RECEIVING_AGENT", "RECEIVING_AGENTS_MANAGER",
                       "INQUIRY_EMPLOYEE"}
  PROVE  LET counted == Statistics(u, Assigned(u))
             listed == TilesV2(u, PhoneLists(u))
             tiles == TilesV2(u, counted)
         IN  /\ ~OnLoan(u) /\ ~Elsewhere(u) => tiles = listed
             /\ u.role \in Assistants /\ "REGISTERED" \in tiles => ReadyTo(u) # {}
<1> DEFINE counted == Statistics(u, Assigned(u))
<1>0. u.role \in {"COMPANY_MANAGER", "BRANCH_MANAGER", "REPOSITORIY_EMPLOYEE", "DATA_ENTRY",
                 "DELIVERY_AGENT"} \cup Assistants
  BY ViewerFacts DEF Viewer
<1>1. TileOpen(u) <=> ListOpen(u)
  BY <1>0 DEF TileOpen, ListOpen, AgentTileOpen, Assistants
<1>2. ASSUME ~OnLoan(u), ~Elsewhere(u), TileOpen(u)
      PROVE  TileScope(u, Assigned(u)) <=> ListScope(u)
  <2>1. CASE u.role \in Assistants
    BY <1>2, <2>1 DEF TileScope, ListScope, AssistantList, HomeList, LimitedToBranch, Assistants,
                      Elsewhere
  <2>2. CASE u.role \in {"BRANCH_MANAGER", "REPOSITORIY_EMPLOYEE"}
    BY <1>2, <2>2 DEF TileScope, ListScope, AssistantList, HomeList, LimitedToBranch, Assistants,
                      OnLoan
  <2>3. CASE u.role = "DATA_ENTRY"
    BY <1>2, <2>3 DEF TileScope, ListScope, AssistantList, HomeList, LimitedToBranch, Assistants,
                      TileOpen
  <2>4. CASE u.role \in {"COMPANY_MANAGER", "DELIVERY_AGENT"}
    BY <2>4 DEF TileScope, ListScope, AssistantList, HomeList, LimitedToBranch, Assistants
  <2> QED BY <1>0, <2>1, <2>2, <2>3, <2>4
<1>3. ~OnLoan(u) /\ ~Elsewhere(u) => counted = PhoneLists(u)
  BY <1>1, <1>2 DEF Statistics, PhoneLists
<1>4. ASSUME u.role \in Assistants, "REGISTERED" \in TilesV2(u, counted)
      PROVE  ReadyTo(u) # {}
  <2>1. "REGISTERED" \in counted
    BY <1>4 DEF TilesV2, Shown, Assistants
  <2>2. parcel.status = "REGISTERED" /\ TileScope(u, Assigned(u))
    BY <2>1, OneStatus
  <2>3. parcel.client \in Assigned(u) /\ u.role # "CLIENT"
    BY <1>4, <2>2 DEF TileScope, Assistants
  <2> QED BY <2>2, <2>3 DEF ReadyTo
<1> QED BY <1>3, <1>4

\* Whatever becomes of the order, its reports and the assignments, for every viewer: a
\* tile that counts the order opens the list that has it, and a list has no order its
\* tile did not count, with the exceptions the property names.
THEOREM TilesAreLists == HomeSpec => []TilesAreTheirLists
<1>1. HomeIInv => TilesAreTheirLists
  <2> SUFFICES ASSUME HomeTypeOK PROVE TilesAreTheirLists
    BY DEF HomeIInv
  <2> QED BY ClientTiles, ReceivingAgentScreen, ManagerScreen, InquiryTiles, OtherTiles
          DEF TilesAreTheirLists
<1> QED BY <1>1, HomeInductive, PTL
=============================================================================
