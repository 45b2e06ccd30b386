----------------------------- MODULE ListCaches -----------------------------
(***************************************************************************)
(* The lists of employees, stores, locations, clients and branches are     *)
(* kept in Redis for a day or two, and a change of a row drops them: KEYS  *)
(* finds the lists of its table and DEL removes those found.  Some changes *)
(* drop the lists before they write, some after, and nothing ties the      *)
(* database to Redis.  One row of one table is looked at, with every list  *)
(* of its table; what a list shows of other tables (a store's client, a    *)
(* location's agents) is left out: nobody drops lists for those.           *)
(***************************************************************************)
EXTENDS FiniteSets, Naturals, Sequences

CONSTANTS Requests, Agents, Nil, MaxBegun

ASSUME ListConstants == MaxBegun \in Nat /\ Nil \notin Requests

Tables == {"employee", "store", "location", "client", "branch"}

VARIABLES
    table,    \* the table that is looked at
    row,      \* its row
    agents,   \* rows of InquiryEmployeesDeliveryAgents of an employee
    cache,    \* Redis: the copy kept under each key
    request,
    answer,   \* the last answer of each request
    begun     \* requests begun, at most MaxBegun

vars == <<table, row, agents, cache, request, answer, begun>>

Row == [state : {"none", "live", "hidden"}, text : {1, 2}]
None == [state |-> "none", text |-> 1]
-----------------------------------------------------------------------------
(* The lists *)

\* table: whose rows it lists; key: under which it is kept; served: a kept copy is
\* answered; kept: an answer is kept.
List(t, k, served, kept) == [table |-> t, key |-> k, served |-> served, kept |-> kept]

Employees == List("employee", "employees", TRUE, TRUE)
Stores == List("store", "stores", TRUE, TRUE)
MinifiedStores == List("store", "minified stores", TRUE, FALSE)
ClientStores == List("store", "client stores", TRUE, TRUE)
Locations == List("location", "locations", TRUE, TRUE)
Clients == List("client", "clients", FALSE, TRUE)

\* The key has no part that says whether all branches or only children were asked for.
Branches == List("branch", "branches", FALSE, TRUE)
ChildBranchesServed == List("branch", "branches", TRUE, TRUE)
ChildBranches == List("branch", "branches", FALSE, TRUE)

ListOf == [employees |-> Employees, stores |-> Stores, minified |-> MinifiedStores,
           clientStores |-> ClientStores, locations |-> Locations, clients |-> Clients,
           branches |-> Branches, children |-> ChildBranches]

Names == {n \in DOMAIN ListOf : ListOf[n].table = table}
Keys == {ListOf[n].key : n \in DOMAIN ListOf}

\* What the query of list n gives: the row unless it is hidden, an employee with his agents.
Content(n) ==
    [of |-> n,
     rows |-> IF row.state = "live" THEN {row.text} ELSE {},
     agents |-> IF row.state = "live" THEN agents ELSE {}]
-----------------------------------------------------------------------------
(* The changes, as the statements they are made of *)

DropThen(writes) == <<"keys", "del">> \o writes
ThenDrop(writes) == writes \o <<"keys", "del">>

createEmployee == DropThen(<<"create", "addAgents">>)
updateEmployee == DropThen(<<"update", "clearAgents", "addAgents">>)
deleteEmployee == DropThen(<<"delete">>)
deactivateEmployee == DropThen(<<"hide">>)
reactivateEmployee == DropThen(<<"show">>)

createStore == ThenDrop(<<"create">>)
updateStore == DropThen(<<"update">>)
deleteStore == DropThen(<<"delete">>)
deactivateStore == DropThen(<<"hide">>)
reactivateStoreOnly == <<"show">>
reactivateStore == DropThen(<<"show">>)

createLocation == ThenDrop(<<"create">>)
updateLocation == ThenDrop(<<"update">>)
deleteLocation == ThenDrop(<<"delete">>)

createClient == DropThen(<<"createUser", "create">>)
updateClient == DropThen(<<"update">>)
deleteClient == DropThen(<<"delete">>)
deactivateClient == DropThen(<<"hide">>)
reactivateClient == DropThen(<<"show">>)

createBranch == DropThen(<<"create">>)
updateBranch == DropThen(<<"update">>)
deleteBranch == DropThen(<<"delete">>)

Changes ==
    CASE table = "employee" -> {createEmployee, updateEmployee, deleteEmployee,
                                deactivateEmployee, reactivateEmployee}
      [] table = "store" -> {createStore, updateStore, deleteStore, deactivateStore,
                             reactivateStore}
      [] table = "location" -> {createLocation, updateLocation, deleteLocation}
      [] table = "client" -> {createClient, updateClient, deleteClient, deactivateClient,
                              reactivateClient}
      [] table = "branch" -> {createBranch, updateBranch, deleteBranch}

\* steps: what a change has left to do; list: what a reader asked for; got: what KEYS
\* or the query gave; met: a change of the table and this read ran together.
Idle == [steps |-> <<>>, list |-> Nil, got |-> {}, given |-> {}, met |-> FALSE]

Changing(p) == request[p].steps # <<>>
Reading(p) == request[p].list # Nil
Writes == {"createUser", "create", "update", "delete", "hide", "show", "clearAgents", "addAgents"}

Init ==
    /\ table \in Tables
    /\ row \in {None} \cup {[state |-> s, text |-> 1] : s \in {"live", "hidden"}}
    /\ row.state = "hidden" => table \in {"employee", "store", "client"}
    /\ agents = {}
    /\ cache = [k \in Keys |-> Nil]
    /\ request = [p \in Requests |-> Idle]
    /\ answer = [p \in Requests |-> Nil]
    /\ begun = 0

Begin(p) ==
    /\ request[p] = Idle
    /\ begun < MaxBegun
    /\ begun' = begun + 1

\* A change begins.  Only an employee is given agents.
Change(p, steps, given) ==
    /\ Begin(p)
    /\ steps \in Changes
    /\ given # {} => \E i \in DOMAIN steps : steps[i] = "addAgents"
    /\ request' = [q \in Requests |->
                     IF q = p THEN [Idle EXCEPT !.steps = steps, !.given = given]
                     ELSE IF Reading(q) THEN [request[q] EXCEPT !.met = TRUE] ELSE request[q]]
    /\ answer' = [answer EXCEPT ![p] = Nil]
    /\ UNCHANGED <<table, row, agents, cache>>

Steps(p) == Tail(request[p].steps)

\* The next statement of p, which leaves the database or Redis as f says.
Advance(p, got) ==
    request' = [request EXCEPT ![p] = IF Steps(p) = <<>> THEN Idle
                                      ELSE [@ EXCEPT !.steps = Steps(p), !.got = got]]

FindKeys(p) ==
    /\ Changing(p) /\ Head(request[p].steps) = "keys"
    /\ Advance(p, {k \in Keys : cache[k] # Nil})
    /\ UNCHANGED <<table, row, agents, cache, answer, begun>>

Del(p) ==
    /\ Changing(p) /\ Head(request[p].steps) = "del"
    /\ cache' = [k \in Keys |-> IF k \in request[p].got THEN Nil ELSE cache[k]]
    /\ Advance(p, {})
    /\ UNCHANGED <<table, row, agents, answer, begun>>

\* The row as a statement leaves it: a client's user is on no list.
Written(step) ==
    CASE step = "create" -> [state |-> "live", text |-> 1]
      [] step = "update" -> [row EXCEPT !.text = 3 - @]
      [] step = "delete" -> None
      [] step = "hide" -> [row EXCEPT !.state = "hidden"]
      [] step = "show" -> [row EXCEPT !.state = "live"]
      [] OTHER -> row

\* A statement fails when the row is not there, or one of the agents is already given to
\* him; a second creation is refused or of another row.
Possible(step, given) ==
    CASE step \in {"createUser", "create"} -> row.state = "none"
      [] step = "clearAgents" -> TRUE
      [] step = "addAgents" -> agents \cap given = {} /\ (given # {} => row.state # "none")
      [] OTHER -> row.state # "none"

Write(p) ==
    LET step == Head(request[p].steps)
    IN  /\ Changing(p) /\ step \in Writes
        /\ Possible(step, request[p].given)
        /\ row' = Written(step)
        /\ agents' = CASE step \in {"clearAgents", "delete"} -> {}
                       [] step = "addAgents" -> agents \cup request[p].given
                       [] OTHER -> agents
        /\ Advance(p, {})
        /\ UNCHANGED <<table, cache, answer, begun>>

\* It has written and has yet to drop the lists.
Behind(p) ==
    LET left == {request[p].steps[i] : i \in DOMAIN request[p].steps}
    IN  "del" \in left /\ left \cap Writes = {}

\* A statement is refused, or the process dies: nothing more of the request is done, and
\* the lists a change had yet to drop stay.
Stop(p) ==
    /\ request[p] # Idle
    /\ cache' = [k \in Keys |-> IF Behind(p) /\ cache[k] # Nil
                                THEN [cache[k] EXCEPT !.met = TRUE] ELSE cache[k]]
    /\ request' = [request EXCEPT ![p] = Idle]
    /\ UNCHANGED <<table, row, agents, answer, begun>>

\* A list is asked for: a kept copy is the answer.
Ask(p, n) ==
    /\ Begin(p)
    /\ n \in Names
    /\ LET copy == cache[ListOf[n].key]
       IN  IF ListOf[n].served /\ copy # Nil
           THEN /\ answer' = [answer EXCEPT ![p] = [asked |-> n, got |-> copy.content, met |-> copy.met]]
                /\ UNCHANGED request
           ELSE /\ request' = [request EXCEPT ![p] = [Idle EXCEPT !.list = n,
                                                        !.met = \E q \in Requests : Changing(q)]]
                /\ answer' = [answer EXCEPT ![p] = Nil]
    /\ UNCHANGED <<table, row, agents, cache>>

Query(p) ==
    /\ Reading(p) /\ request[p].got = {}
    /\ request' = [request EXCEPT ![p].got = {Content(request[p].list)}]
    /\ UNCHANGED <<table, row, agents, cache, answer, begun>>

\* redis.set, with two days to live (clients one), and the answer.
Save(p) ==
    /\ Reading(p) /\ request[p].got # {}
    /\ LET list == ListOf[request[p].list]
           content == CHOOSE c \in request[p].got : TRUE
       IN  /\ cache' = IF list.kept
                       THEN [cache EXCEPT ![list.key] = [content |-> content, met |-> request[p].met]]
                       ELSE cache
           /\ answer' = [answer EXCEPT ![p] = [asked |-> request[p].list, got |-> content,
                                               met |-> request[p].met]]
    /\ request' = [request EXCEPT ![p] = Idle]
    /\ UNCHANGED <<table, row, agents, begun>>

Expire(k) ==
    /\ cache[k] # Nil
    /\ cache' = [cache EXCEPT ![k] = Nil]
    /\ UNCHANGED <<table, row, agents, request, answer, begun>>

\* Nothing more will be asked.
Rest ==
    /\ begun = MaxBegun
    /\ \A p \in Requests : request[p] = Idle
    /\ UNCHANGED vars

Next ==
    \/ \E p \in Requests :
         \/ \E steps \in Changes, given \in SUBSET Agents : Change(p, steps, given)
         \/ FindKeys(p) \/ Del(p) \/ Write(p) \/ Stop(p)
         \/ \E n \in Names : Ask(p, n)
         \/ Query(p) \/ Save(p)
    \/ \E k \in Keys : Expire(k)
    \/ Rest

Spec == Init /\ [][Next]_vars
-----------------------------------------------------------------------------
(* Properties *)

TypeOK ==
    /\ table \in Tables /\ row \in Row /\ agents \subseteq Agents
    /\ begun \in 0 .. MaxBegun
    /\ \A p \in Requests : ~(Changing(p) /\ Reading(p))

\* A list in Redis differs from the database only if it was read while a change of its table
\* ran, or the change died before it dropped it, or is about to: a list read in peace is
\* never older than a change, whether the change drops the lists before it writes or after.
CachedListsAreCurrent ==
    \A k \in Keys :
        \/ cache[k] = Nil \/ cache[k].met
        \/ \E p \in Requests : Behind(p)
        \/ cache[k].content = Content(cache[k].content.of)

\* But for the same reads, an answer is the list that was asked for, as it is at that
\* moment: that two lists of branches share a key never shows.
AnswersAreTheListAsked ==
    [][\A p \in Requests :
        answer'[p] # answer[p] /\ answer'[p] # Nil =>
            \/ answer'[p].met
            \/ \E q \in Requests : Behind(q)
            \/ answer'[p].got = Content(answer'[p].asked)]_vars
=============================================================================
