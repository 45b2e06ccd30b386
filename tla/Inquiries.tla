------------------------------ MODULE Inquiries ------------------------------
(***************************************************************************)
(* What is asked and answered about one order: the messages of its chat    *)
(* and a ticket.  Messages are read by one user, me, whose role decides    *)
(* four times, by four copies of one filter, what concerns him: the chats  *)
(* he is shown, the number on his badge, what he is notified of and what   *)
(* "mark all as seen" marks.  Every request reads and then writes, outside *)
(* any transaction.                                                        *)
(*                                                                         *)
(* All messages are of the last 30 days: both the badge and the list of    *)
(* unread chats leave older ones out.                                      *)
(***************************************************************************)
EXTENDS FiniteSets, Naturals

CONSTANTS Branches,          \* branches of the user's company
          ClientBranch,      \* the branch of the order's client
          Profiles,          \* the users that are looked at
          Messages, 
          Staff,             \* who handles the ticket
          Inquirers,         \* those of them who are inquiry employees
          Departments, DepartmentOf, Requests, Nil, MaxBegun

Roles == {"COMPANY_MANAGER", "BRANCH_MANAGER", "INQUIRY_EMPLOYEE", "DATA_ENTRY",
          "DELIVERY_AGENT", "CLIENT", "CLIENT_ASSISTANT", "EMPLOYEE_CLIENT_ASSISTANT"}
Statuses == {"IN_GOV_REPOSITORY", "WITH_DELIVERY_AGENT", "RETURNED"}

\* branches, statuses: what an inquiry employee is limited to, none for no limit; for an
\* assistant, statuses are those he is shown.  stores: whether the order's store is among
\* the stores assigned to him, "none" when he has none; managed: whether he manages it.
\* his: it is his order, as client or as agent, or his client's.
Profile == [role : Roles, branch : Branches, main : BOOLEAN,
            orderType : {"receiving", "forwarded", Nil},
            branches : SUBSET Branches, statuses : SUBSET Statuses,
            stores : {"this", "other", "none"}, managed : BOOLEAN,
            mayRead : BOOLEAN, his : BOOLEAN]

ASSUME InquiryConstants ==
    /\ MaxBegun \in Nat
    /\ ClientBranch \in Branches
    /\ Profiles \subseteq Profile
    /\ Messages \subseteq Nat /\ Inquirers \subseteq Staff
    /\ DepartmentOf \in [Staff -> Departments]
    /\ Nil \notin Staff \cup Departments \cup {"me", "other", "receiving", "forwarded"}

VARIABLES
    me,        \* the user
    order,     \* what the filters read of the order
    chat,      \* is there a chat of the order
    messages,  \* "none", or "mine", "others", or "gone" when deleted
    seen,      \* the rows of MessageSeen of me
    shown,     \* history: the messages a request of the user has read
    ticket,
    request,
    begun      \* how many requests and changes of the order began, at most MaxBegun

vars == <<me, order, chat, messages, seen, shown, ticket, request, begun>>

\* own: it is still with the user's company, and not forwarded by it to another.
Order == [status : Statuses, secondaryStatus : {"WITH_AGENT", "IN_REPOSITORY"},
          branch : Branches, own : BOOLEAN, deleted : BOOLEAN]

Ticket == [employee : Staff \cup {Nil}, forwarded : BOOLEAN, closed : BOOLEAN,
           department : Departments \cup {Nil}, answers : SUBSET Staff]

NoTicket == [employee |-> Nil, forwarded |-> FALSE, closed |-> FALSE,
             department |-> Nil, answers |-> {}]

\* by: an employee for a ticket, "me" or "other" for a message.
\* met: the ticket changed hands since the request began.
Idle == [pc |-> "idle", by |-> Nil, ids |-> {}, met |-> FALSE]

Assistant == me.role \in {"CLIENT_ASSISTANT", "EMPLOYEE_CLIENT_ASSISTANT"}
Inquirer == me.role = "INQUIRY_EMPLOYEE"

There(i) == messages[i] \in {"mine", "others"}
Unseen == {i \in Messages : messages[i] = "others" /\ i \notin seen}
-----------------------------------------------------------------------------
(* The four filters *)

\* buildInquiryBranchOR
InquiryBranch ==
    IF me.main /\ me.branches # {}
    THEN \/ me.orderType # "forwarded" /\ order.branch \in me.branches
         \/ me.orderType # "receiving" /\ ClientBranch \in me.branches
    ELSE me.branch \in {order.branch, ClientBranch}

\* buildOrderWhere: the chat is on his list of chats.
Listed ==
    /\ Assistant => me.mayRead
    /\ ~order.deleted
    /\ IF Inquirer
       THEN /\ me.statuses # {} => order.status \in me.statuses
            /\ InquiryBranch
            /\ me.stores # "other"
       ELSE /\ Assistant => order.status \in me.statuses /\ me.stores = "this"
            /\ me.role \in {"CLIENT", "DELIVERY_AGENT"} => me.his
            /\ me.role = "DATA_ENTRY" /\ ~me.main => order.branch = me.branch
            /\ me.role = "BRANCH_MANAGER" => me.branch \in {order.branch, ClientBranch}

\* buildInquiryBranchORSql, and a slip of it: of the main repository's employees,
\* all are counted the client's branch.
InquiryBranchSqlOfAll ==
    IF me.main /\ me.branches # {}
    THEN order.branch \in me.branches \/ ClientBranch \in me.branches
    ELSE me.branch \in {order.branch, ClientBranch}

InquiryBranchSql ==
    IF me.main /\ me.branches # {}
    THEN CASE me.orderType = Nil -> {order.branch, ClientBranch} \cap me.branches # {}
           [] me.orderType = "receiving" -> order.branch \in me.branches
           [] me.orderType = "forwarded" -> ClientBranch \in me.branches
    ELSE me.branch = order.branch \/ me.branch = ClientBranch

\* buildOrderScopeSql: messages of the order are on his badge.  Of deleted orders too;
\* an assistant's statuses do not count, nor does it that he has no stores.
Counted ==
    /\ Assistant => me.mayRead
    /\ IF Inquirer
       THEN /\ me.statuses = {} \/ order.status \in me.statuses
            /\ InquiryBranchSql
            /\ me.stores \in {"none", "this"}
       ELSE CASE me.role \in {"CLIENT", "DELIVERY_AGENT"} -> me.his
              [] Assistant -> me.stores \in {"none", "this"}
              [] me.role = "BRANCH_MANAGER" -> order.branch = me.branch \/ ClientBranch = me.branch
              [] me.role = "DATA_ENTRY" -> me.main \/ order.branch = me.branch
              [] OTHER -> TRUE

\* getOrderInquiryEmployees
NotifiedInquirer ==
    /\ me.main
    /\ \/ me.orderType = Nil /\ (me.branches = {} \/ {order.branch, ClientBranch} \cap me.branches # {})
       \/ me.orderType = "receiving" /\ order.branch \in me.branches
       \/ me.orderType = "forwarded" /\ ClientBranch \in me.branches
    /\ me.statuses # {} => order.status \in me.statuses
    /\ me.stores # "other"

\* getOrderChatMembers: he is told of a new message.
Notified ==
    CASE Inquirer -> NotifiedInquirer
      [] Assistant -> (me.his \/ me.stores = "this") /\ order.status \in me.statuses
      [] me.role = "COMPANY_MANAGER" -> order.own
      [] me.role = "BRANCH_MANAGER" -> order.branch = me.branch
      [] me.role \in {"CLIENT", "DELIVERY_AGENT"} -> me.his
      [] OTHER -> FALSE

\* markAllSeen's own filter: branches are the order's only, and it must be with the company.
Swept ==
    /\ order.own
    /\ IF Inquirer
       THEN /\ me.statuses # {} => order.status \in me.statuses
            /\ me.branches # {} => order.branch \in me.branches
            /\ me.stores # "other"
       ELSE /\ me.role \in {"CLIENT", "DELIVERY_AGENT"} => me.his
            /\ me.role = "BRANCH_MANAGER" => order.branch = me.branch
            /\ me.role = "CLIENT_ASSISTANT" => me.managed
-----------------------------------------------------------------------------
(* Requests *)

Begin(r, new) ==
    /\ request[r] = Idle /\ begun < MaxBegun
    /\ begun' = begun + 1
    /\ request' = [request EXCEPT ![r] = new]
    /\ UNCHANGED <<me, order, chat, messages, seen, shown, ticket>>

Goes(r, pc) == request' = [request EXCEPT ![r].pc = pc]
Ends(r) == request' = [request EXCEPT ![r] = Idle]

Init ==
    /\ me \in Profiles
    /\ order \in {o \in Order : /\ o.status = "WITH_DELIVERY_AGENT" => o.secondaryStatus = "WITH_AGENT"
                               /\ o.own /\ ~o.deleted}
    /\ chat \in BOOLEAN
    /\ messages = [i \in Messages |-> "none"]
    /\ seen = {} /\ shown = {}
    /\ ticket = NoTicket
    /\ request = [r \in Requests |-> Idle]
    /\ begun = 0

\* Other handlers write the order.
ChangeOrder ==
    /\ \/ \E b \in Branches \ {order.branch} : order' = [order EXCEPT !.branch = b]
       \/ order.status # "RETURNED" /\ order' = [order EXCEPT !.status = "RETURNED"]
       \/ order.own /\ order' = [order EXCEPT !.own = FALSE]
       \/ ~order.deleted /\ order' = [order EXCEPT !.deleted = TRUE]
    /\ begun < MaxBegun /\ begun' = begun + 1
    /\ UNCHANGED <<me, chat, messages, seen, shown, ticket, request>>

\* The chat is made by a call after the creation of the order.
CreateChat ==
    /\ ~chat /\ chat' = TRUE
    /\ UNCHANGED <<me, order, messages, seen, shown, ticket, request, begun>>
-----------------------------------------------------------------------------
(* Messages *)

MayWrite(by, asClient) ==
    /\ order.status # "IN_GOV_REPOSITORY"
    /\ order.status = "RETURNED" /\ order.secondaryStatus # "WITH_AGENT" => ~asClient
    /\ by = "me" /\ Assistant => me.mayRead

\* The bound: a message for every request that is to write one.
Room == Cardinality({q \in Requests : request[q].pc \in {"open", "write"}})
          < Cardinality({i \in Messages : messages[i] = "none"})

SendMessage(r, by, asClient) ==
    /\ Room
    /\ by = "me" => asClient = (me.role = "CLIENT")
    /\ MayWrite(by, asClient)
    /\ Begin(r, [Idle EXCEPT !.pc = IF chat THEN "write" ELSE "open", !.by = by])

\* The chat of an order is unique: a second creation fails, and the message with it.
OpenChat(r) ==
    /\ request[r].pc = "open"
    /\ chat' = TRUE
    /\ IF chat THEN Ends(r) ELSE Goes(r, "write")
    /\ UNCHANGED <<me, order, messages, seen, shown, ticket, begun>>

WriteMessage(r) ==
    /\ request[r].pc = "write"
    /\ \E i \in Messages :
         /\ messages[i] = "none" /\ \A j \in Messages : j < i => messages[j] # "none"
         /\ messages' = [messages EXCEPT ![i] = IF request[r].by = "me" THEN "mine" ELSE "others"]
    /\ Ends(r)
    /\ UNCHANGED <<me, order, chat, seen, shown, ticket, begun>>

\* Opening a chat shows its messages and marks those of others.  Nothing asks whose
\* order it is.
GetChatMessages(r) ==
    LET others == {i \in Messages : messages[i] = "others"}
    IN /\ chat /\ (Assistant => me.mayRead)
       /\ request[r] = Idle /\ begun < MaxBegun /\ begun' = begun + 1
       /\ shown' = shown \cup others
       /\ IF others = {} THEN UNCHANGED request
          ELSE request' = [request EXCEPT ![r] = [Idle EXCEPT !.pc = "mark", !.ids = others]]
       /\ UNCHANGED <<me, order, chat, messages, seen, ticket>>

\* With nothing unseen it returns without an answer.
MarkAllSeen(r) ==
    LET ids == {i \in Unseen : Swept}
    IN /\ request[r] = Idle /\ begun < MaxBegun /\ begun' = begun + 1
       /\ shown' = shown \cup ids
       /\ IF ids = {} THEN UNCHANGED request
          ELSE request' = [request EXCEPT ![r] = [Idle EXCEPT !.pc = "mark", !.ids = ids]]
       /\ UNCHANGED <<me, order, chat, messages, seen, ticket>>

\* Slip: what is in the chat by now is marked.
MarkedByNow(ids) == seen \cup {i \in Messages : messages[i] = "others"}

Marked(ids) == seen \cup ids

\* createMany: all rows or, when a message was deleted meanwhile, none.
Mark(r) ==
    /\ request[r].pc = "mark"
    /\ seen' = IF \A i \in request[r].ids : There(i) THEN Marked(request[r].ids) ELSE seen
    /\ Ends(r)
    /\ UNCHANGED <<me, order, chat, messages, shown, ticket, begun>>

\* Only the author's messages go, and their marks with them.
DeleteMessages(i) ==
    /\ There(i)
    /\ messages' = [messages EXCEPT ![i] = "gone"]
    /\ seen' = seen \ {i}
    /\ UNCHANGED <<me, order, chat, shown, ticket, request, begun>>
-----------------------------------------------------------------------------
(* A ticket *)

TicketPCs == {"take", "forward", "answer", "close"}

Writes(r, new) ==
    /\ ticket' = new
    /\ request' = [q \in Requests |->
                     IF q = r THEN Idle
                     ELSE IF request[q].pc \in TicketPCs /\ new.employee # ticket.employee
                          THEN [request[q] EXCEPT !.met = TRUE]
                          ELSE request[q]]
    /\ UNCHANGED <<me, order, chat, messages, seen, shown, begun>>

Asks(r, pc, by) == Begin(r, [Idle EXCEPT !.pc = pc, !.by = by])

\* Slip: one may take a ticket that another holds.
TakeTicketOfAnother(r, e) == Asks(r, "take", e)

TakeTicket(r, e) == ticket.employee = Nil /\ Asks(r, "take", e)

Connect(r) ==
    /\ request[r].pc = "take"
    /\ Writes(r, [ticket EXCEPT !.employee = request[r].by])

ForwardTicket(r, e) ==
    /\ e \in Inquirers => ticket.employee = e
    /\ Asks(r, "forward", e)

Forwarded(r) ==
    /\ request[r].pc = "forward"
    /\ \E d \in Departments :
         Writes(r, [ticket EXCEPT !.department = d, !.employee = Nil, !.forwarded = TRUE])

CreateResponse(r, e) ==
    /\ e \in Inquirers => ticket.employee = e
    /\ Asks(r, "answer", e)

\* Anyone may close the ticket, and again; the answer is a second call.
CloseTicket(r, e) ==
    /\ request[r] = Idle /\ begun < MaxBegun /\ begun' = begun + 1
    /\ ticket' = [ticket EXCEPT !.closed = TRUE]
    /\ request' = [request EXCEPT ![r] = [Idle EXCEPT !.pc = "close", !.by = e]]
    /\ UNCHANGED <<me, order, chat, messages, seen, shown>>

Answer(r) ==
    /\ request[r].pc \in {"answer", "close"}
    /\ Writes(r, [ticket EXCEPT !.answers = @ \cup {request[r].by}])

\* getAllTicket, as an inquiry employee asks for it: his own tickets, and the open
\* ones forwarded to his department.
HisTickets(e) == ticket.employee = e
ForwardedTickets(e) ==
    /\ ticket.employee = Nil /\ ticket.forwarded /\ ~ticket.closed
    /\ ticket.department = DepartmentOf[e]
-----------------------------------------------------------------------------
Rest ==
    /\ begun = MaxBegun /\ request = [r \in Requests |-> Idle]
    /\ UNCHANGED vars

Next ==
    \/ ChangeOrder \/ CreateChat \/ Rest
    \/ \E i \in Messages : DeleteMessages(i)
    \/ \E r \in Requests :
         \/ \E by \in {"me", "other"}, asClient \in BOOLEAN : SendMessage(r, by, asClient)
         \/ OpenChat(r) \/ WriteMessage(r) \/ GetChatMessages(r) \/ MarkAllSeen(r) \/ Mark(r)
         \/ Connect(r) \/ Forwarded(r) \/ Answer(r)
         \/ \E e \in Staff : \/ TakeTicket(r, e) \/ ForwardTicket(r, e)
                             \/ CreateResponse(r, e) \/ CloseTicket(r, e)

Spec == Init /\ [][Next]_vars
-----------------------------------------------------------------------------
(* Properties *)

Request == [pc : {"idle", "open", "write", "mark"} \cup TicketPCs,
            by : Staff \cup {"me", "other", Nil}, ids : SUBSET Messages, met : BOOLEAN]

\* Rows keep their types, messages are in a chat, and a mark is of a message there is.
TypeOK ==
    /\ me \in Profiles /\ order \in Order /\ chat \in BOOLEAN
    /\ messages \in [Messages -> {"none", "mine", "others", "gone"}]
    /\ ticket \in Ticket /\ request \in [Requests -> Request] /\ begun \in 0..MaxBegun
    /\ \A i \in Messages : messages[i] # "none" => chat
    /\ \A i \in seen : messages[i] = "others"

\* Whatever arrives or is deleted between the read and the write of a request, a message
\* is marked as seen by a user only when a request of his has read it.
SeenWasShown == seen \subseteq shown

Badge == {i \in Unseen : Counted}

\* The four filters agree about what is unseen, whoever the user is and wherever the
\* order goes: what is on his list of chats is on his badge; what is on his badge, or
\* what he was notified of, is on the list; and "mark all as seen" empties the badge.
\* But the badge counts deleted orders and overlooks an assistant's statuses; all
\* inquiry employees of the main repository without branches are notified, assistants
\* of the client too; and the sweep knows neither forwarded orders nor the branch of
\* the client, nor an assistant's stores.
ScopesAgree ==
    LET shownStatus == order.status \in me.statuses IN
    Unseen # {} =>
      /\ Listed => Badge # {}
      /\ Badge # {} => \/ Listed \/ order.deleted
                       \/ Assistant /\ (~shownStatus \/ me.stores = "none")
      /\ Notified => \/ Listed \/ order.deleted
                     \/ Inquirer /\ me.branches = {}
                     \/ Assistant /\ (~me.mayRead \/ me.stores # "this")
      /\ Badge # {} => \/ Swept \/ ~order.own
                       \/ me.role = "CLIENT_ASSISTANT" /\ ~me.managed
                       \/ me.role = "BRANCH_MANAGER" /\ order.branch # me.branch
                       \/ Inquirer /\ me.branches # {} /\ order.branch \notin me.branches

\* A ticket leaves the list of the employee who has it only when he, or one who is no
\* inquiry employee, forwards it, and is then on the list of a department, if it is
\* open; and no inquiry employee answers another's ticket.  But for requests that the
\* ticket changed hands under: the check and the write are two statements.
TicketChangesHands ==
    [][\A r \in Requests : request[r].pc \in TicketPCs /\ request'[r] = Idle =>
         /\ \A e \in Staff : HisTickets(e) /\ ~HisTickets(e)' =>
              \/ request[r].met
              \/ /\ request[r].pc = "forward"
                 /\ request[r].by \in Inquirers => request[r].by = e
         /\ \A e \in Staff : ticket'.employee = Nil /\ ticket'.department = DepartmentOf[e] =>
              ForwardedTickets(e)' \/ ticket.closed
         /\ request[r].pc = "answer" /\ request[r].by \in Inquirers =>
              request[r].met \/ HisTickets(request[r].by)
      ]_vars
=============================================================================
