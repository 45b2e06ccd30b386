----------------------------- MODULE MCInquiries -----------------------------
(* Instances of Inquiries and of HomeScreens for TLC: they share no state, so  *)
(* a behaviour is of the one or of the other.  Two branches, and a user of     *)
(* each kind of role.  See Inquiries.cfg and the README.                       *)
EXTENDS Inquiries, HomeScreens, TLC

User(role) ==
    [role |-> role, branch |-> "b1", main |-> FALSE, orderType |-> "nil", branches |-> {},
     statuses |-> {}, stores |-> "none", managed |-> FALSE, mayRead |-> TRUE, his |-> FALSE]

MCProfiles ==
    {User(role) : role \in {"COMPANY_MANAGER", "BRANCH_MANAGER", "DATA_ENTRY", "INQUIRY_EMPLOYEE"}}
    \cup {[User("INQUIRY_EMPLOYEE") EXCEPT !.main = TRUE, !.orderType = t, !.branches = {"b2"}] :
             t \in {"nil", "receiving", "forwarded"}}
    \cup {[User("INQUIRY_EMPLOYEE") EXCEPT !.main = TRUE, !.branch = "b2"]}
    \cup {[User("CLIENT_ASSISTANT") EXCEPT !.statuses = {"RETURNED"}, !.stores = s,
              !.managed = (s = "this"), !.mayRead = (s # "other")] : s \in {"this", "other", "none"}}
    \cup {[User(role) EXCEPT !.his = TRUE, !.statuses = {"RETURNED"}] :
             role \in {"CLIENT", "DELIVERY_AGENT", "EMPLOYEE_CLIENT_ASSISTANT"}}

MCDepartmentOf == [e \in Staff |-> IF e \in Inquirers THEN "d1" ELSE "d2"]
Symmetry == Permutations(Requests)

HomeUser(role, id) ==
    [id |-> id, role |-> role, branch |-> "b1", main |-> FALSE, client |-> "nobody",
     tiles |-> {}, branches |-> {}]

MCViewers ==
    {HomeUser(role, role) : role \in {"COMPANY_MANAGER", "BRANCH_MANAGER", "DATA_ENTRY",
                                      "REPOSITORIY_EMPLOYEE", "RECEIVING_AGENTS_MANAGER"}}
    \cup {[HomeUser("CLIENT_ASSISTANT", "ca") EXCEPT !.client = "c1", !.tiles = HomeStatuses],
          [HomeUser("EMPLOYEE_CLIENT_ASSISTANT", "ea") EXCEPT !.tiles = {"REGISTERED", "RETURNED"}],
          [HomeUser("BRANCH_MANAGER", "bm") EXCEPT !.main = TRUE],
          [HomeUser("CLIENT", "c1") EXCEPT !.client = "c1"],
          HomeUser("RECEIVING_AGENT", "ra"), HomeUser("DELIVERY_AGENT", "da")}
    \cup {[HomeUser("INQUIRY_EMPLOYEE", "iq") EXCEPT !.main = (bs = {}), !.branches = bs,
              !.tiles = IF bs = {} THEN {"RETURNED", "DELIVERED"} ELSE {}] : bs \in {{}, {"b2"}}}
    \cup {[HomeUser("INQUIRY_EMPLOYEE", "iq") EXCEPT !.branches = bs, !.tiles = HomeStatuses] :
             bs \in {{}, {"b2"}}}

MCBranchOf ==
    [x \in {"c1", "c2", "ra", "rb", "da"} |-> IF x \in {"c2", "rb"} THEN "b2" ELSE "b1"]

VARIABLE scene   \* what the behaviour is of; the rest stands still

\* Of the home screens, either many changes are made or few while requests are answered.
OneInquiry ==
    /\ me = User("DATA_ENTRY") /\ ~chat
    /\ order.status = "RETURNED" /\ order.secondaryStatus = "WITH_AGENT" /\ order.branch = "b1"

OneParcel == parcel.status = "REGISTERED" /\ parcel.client = "c1"

SceneInit ==
    /\ Init /\ HomeInit
    /\ scene \in {"inquiries", "changes", "requests"}
    /\ parcel.branch = "b1"
    /\ scene # "changes" => OneParcel
    /\ scene # "inquiries" => OneInquiry

SceneNext ==
    /\ UNCHANGED scene
    /\ \/ scene = "inquiries" /\ Next /\ UNCHANGED homeVars
       \/ scene = "changes" /\ (ScreensChange \/ HomeRest) /\ UNCHANGED vars
       \/ scene = "requests" /\ HomeNext /\ changes' <= 2 /\ UNCHANGED vars

SceneSpec == SceneInit /\ [][SceneNext]_<<scene, vars, homeVars>>
=============================================================================
