----------------------- MODULE ScopedRepository_proofs -----------------------
(***************************************************************************)
(* Theorems about ScopedRepository for any accounts, contents and          *)
(* principals.  The methods are functions of the caller's view, so two     *)
(* databases with the same view are answered alike.                        *)
(***************************************************************************)
EXTENDS ScopedRepository, TLAPS

\* A customer is a principal without cross-account access, and has an account.
LEMMA PrincipalFacts ==
  ASSUME NEW p \in Principals
  PROVE  /\ Customer(p) <=> ~can_read_cross_account(p.role)
         /\ Customer(p) => p.account_id \in AccountIds /\ p.account_id # NULL
BY PrincipalsAssumption
DEF Principal, Customer, can_read_cross_account, Internal, Roles

\* A column filter that is a value keeps the rows with that value.
LEMMA MatchesValue ==
  ASSUME NEW x, NEW f, f # NULL
  PROVE  Matches(x, f) <=> x = f
BY DEF Matches

\* A filter of None keeps every row.
LEMMA MatchesNull ==
  ASSUME NEW x
  PROVE  Matches(x, NULL)
BY DEF Matches

\* A response carries the rows it was made from, whether or not there are any.
LEMMA KindRows ==
  ASSUME NEW rs, NEW a \in {Denied, NotFound}
  PROVE  FoundOr(rs, a).rows = rs /\ Returned(rs).rows = rs
BY DEF FoundOr, Returned, Denied, NotFound

\* Requests and their fields.
LEMMA RequestFacts ==
  ASSUME NEW q \in Requests
  PROVE  \/ q.op = "get_account" /\ q.id \in AccountIds
         \/ q.op \in {"list_accounts", "list_doc_chunks"}
         \/ q.op = "get_order" /\ q.id \in OrderIds
         \/ q.op = "get_ticket" /\ q.id \in TicketIds
         \/ q.op = "get_doc_chunk" /\ q.id \in ChunkIds
         \/ /\ q.op \in {"list_orders", "list_tickets"}
            /\ q.account \in AccountIds \cup {NULL}
            /\ q.status \in Statuses \cup {NULL}
BY DEF Requests, GetRequests, ListRequests, FilterRequests

-----------------------------------------------------------------------------
(* What a customer is answered, method by method *)

\* get_account reads the view only.
LEMMA CustomerAccounts ==
  ASSUME NEW p \in Principals, Customer(p), NEW s \in Store, NEW id \in AccountIds
  PROVE  /\ GetAccount(p, id, s) =
              IF id = p.account_id THEN FoundOr(get_account(View(p, s), id), NotFound)
                                   ELSE Denied
         /\ get_account(View(p, s), p.account_id) = View(p, s).accounts
         /\ (id # p.account_id => get_account(View(p, s), id) = {})
<1>1. \A a \in s.accounts : redact_account(a).account_id = a.account_id
  BY DEF Store, Account, redact_account
<1>2. View(p, s).accounts =
        {redact_account(a) : a \in {b \in s.accounts : b.account_id = p.account_id}}
  BY DEF View, redact_account
<1>3. \A a \in View(p, s).accounts : a.account_id = p.account_id
  BY <1>1, <1>2
<1>4. get_account(View(p, s), p.account_id) = View(p, s).accounts
  BY <1>3 DEF get_account
<1>5. id # p.account_id => get_account(View(p, s), id) = {}
  BY <1>3 DEF get_account
<1>6. id = p.account_id =>
        {redact_account(a) : a \in get_account(s, id)} = get_account(View(p, s), id)
  BY <1>2, <1>4 DEF get_account
<1>7. QED
  BY <1>4, <1>5, <1>6, PrincipalFacts DEF GetAccount

\* The two order methods read the view only.
LEMMA CustomerOrders ==
  ASSUME NEW p \in Principals, Customer(p), NEW s \in Store, NEW account, NEW status
  PROVE  OrdersFor(p, account, status, s) = list_orders(View(p, s), NULL, status)
<1>1. ScopedAccount(p, account) = p.account_id /\ p.account_id # NULL
  BY PrincipalFacts DEF ScopedAccount
<1>2. View(p, s).orders = {o \in s.orders : o.account_id = p.account_id}
  BY DEF View
<1>3. QED
  BY <1>1, <1>2, MatchesValue, MatchesNull DEF OrdersFor, list_orders

\* The two ticket methods redact, and read the view only.
LEMMA CustomerTickets ==
  ASSUME NEW p \in Principals, Customer(p), NEW s \in Store, NEW account, NEW status
  PROVE  TicketsFor(p, account, status, s) = list_tickets(View(p, s), NULL, status)
<1>1. ScopedAccount(p, account) = p.account_id /\ p.account_id # NULL
  BY PrincipalFacts DEF ScopedAccount
<1>2. View(p, s).tickets =
        {redact_ticket(t) : t \in {u \in s.tickets : u.account_id = p.account_id}}
  BY DEF View, redact_ticket
<1>3. \A t \in s.tickets : redact_ticket(t).status = t.status
  BY DEF Store, Ticket, redact_ticket
<1>4. list_tickets(s, p.account_id, status) =
        {t \in {u \in s.tickets : u.account_id = p.account_id} : Matches(t.status, status)}
  BY <1>1, MatchesValue DEF list_tickets
<1>5. list_tickets(View(p, s), NULL, status) =
        {t \in View(p, s).tickets : Matches(t.status, status)}
  BY MatchesNull DEF list_tickets
<1>6. TicketsFor(p, account, status, s) =
        {redact_ticket(t) : t \in list_tickets(s, p.account_id, status)}
  BY <1>1, PrincipalFacts DEF TicketsFor
<1>7. QED
  BY <1>2, <1>3, <1>4, <1>5, <1>6

\* The two document methods read the view only.
LEMMA CustomerChunks ==
  ASSUME NEW p \in Principals, Customer(p), NEW s \in Store
  PROVE  ChunksFor(p, s) = View(p, s).doc_chunks
BY PrincipalFacts DEF ChunksFor, list_doc_chunks, View

-----------------------------------------------------------------------------

\* A get restricted to a list selects what the get alone selects.
LEMMA GetWithinList ==
  ASSUME NEW v, NEW id
  PROVE  /\ {o \in list_orders(v, NULL, NULL) : o.order_id = id} = get_order(v, id)
         /\ {t \in list_tickets(v, NULL, NULL) : t.ticket_id = id} = get_ticket(v, id)
BY MatchesNull DEF list_orders, list_tickets, get_order, get_ticket

\* The answer to a customer as a function of its view.
ViewAnswer(p, q, v) ==
  CASE q.op = "get_account"     -> IF q.id = p.account_id
                                     THEN FoundOr(get_account(v, q.id), NotFound) ELSE Denied
    [] q.op = "list_accounts"   -> FoundOr(v.accounts, NotFound)
    [] q.op = "get_order"       -> FoundOr(get_order(v, q.id), Denied)
    [] q.op = "list_orders"     -> Returned(list_orders(v, NULL, q.status))
    [] q.op = "get_ticket"      -> FoundOr(get_ticket(v, q.id), Denied)
    [] q.op = "list_tickets"    -> Returned(list_tickets(v, NULL, q.status))
    [] q.op = "get_doc_chunk"   -> FoundOr(get_doc_chunk(v, q.id), Denied)
    [] q.op = "list_doc_chunks" -> Returned(v.doc_chunks)

\* Every method answers a customer from its view, as the selection says.
LEMMA CustomerAnswer ==
  ASSUME NEW p \in Principals, Customer(p), NEW q \in Requests, NEW s \in Store
  PROVE  Answer(p, q, s) = ViewAnswer(p, q, View(p, s))
<1> DEFINE v == View(p, s)
<1>0. ~can_read_cross_account(p.role) /\ p.account_id \in AccountIds
  BY PrincipalFacts
<1> USE DEF Answer, ViewAnswer
<1>1. CASE q.op = "get_account"
  <2>1. Answer(p, q, s) = GetAccount(p, q.id, s)
    BY <1>1
  <2>2. q.id \in AccountIds
    BY <1>1, RequestFacts
  <2>3. QED
    BY <1>1, <2>1, <2>2, CustomerAccounts
<1>2. CASE q.op = "list_accounts"
  <2>1. Answer(p, q, s) = GetAccount(p, p.account_id, s)
    BY <1>0, <1>2 DEF ListAccounts
  <2>2. GetAccount(p, p.account_id, s) = FoundOr(v.accounts, NotFound)
    BY <1>0, CustomerAccounts
  <2>3. QED
    BY <1>2, <2>1, <2>2
<1>3. CASE q.op = "get_order"
  <2>1. {o \in OrdersFor(p, NULL, NULL, s) : o.order_id = q.id} = get_order(v, q.id)
    BY CustomerOrders, GetWithinList
  <2>2. QED
    BY <1>0, <1>3, <2>1 DEF GetOrder
<1>4. CASE q.op = "list_orders"
  BY <1>4, CustomerOrders DEF ListOrders
<1>5. CASE q.op = "get_ticket"
  <2>1. {t \in TicketsFor(p, NULL, NULL, s) : t.ticket_id = q.id} = get_ticket(v, q.id)
    BY CustomerTickets, GetWithinList
  <2>2. QED
    BY <1>0, <1>5, <2>1 DEF GetTicket
<1>6. CASE q.op = "list_tickets"
  BY <1>6, CustomerTickets DEF ListTickets
<1>7. CASE q.op = "get_doc_chunk"
  BY <1>0, <1>7, CustomerChunks DEF GetDocChunk, get_doc_chunk
<1>8. CASE q.op = "list_doc_chunks"
  BY <1>8, CustomerChunks DEF ListDocChunks
<1>9. QED
  BY <1>1, <1>2, <1>3, <1>4, <1>5, <1>6, <1>7, <1>8, RequestFacts

\* The rows of every answer are those the request selects in the view.
LEMMA AnswerRows ==
  ASSUME NEW p \in Principals, NEW q \in Requests, NEW s \in Store
  PROVE  Answer(p, q, s).rows = Selected(p, q, View(p, s))
<1>1. CASE Customer(p)
  <2>1. ViewAnswer(p, q, View(p, s)).rows = Selected(p, q, View(p, s))
    <3> DEFINE v == View(p, s)
    <3>1. q.op = "get_account" /\ q.id # p.account_id => get_account(v, q.id) = {}
      <4>1. q.op = "get_account" => q.id \in AccountIds
        BY RequestFacts
      <4>2. QED
        BY <1>1, <4>1, CustomerAccounts
    <3>2. Denied.rows = {}
      BY DEF Denied
    <3> HIDE DEF v
    <3>3. ViewAnswer(p, q, v).rows = Selected(p, q, v)
      BY <1>1, <3>1, <3>2, KindRows, RequestFacts DEF ViewAnswer, Selected
    <3>4. QED
      BY <3>3 DEF v
  <2>2. QED
    BY <1>1, <2>1, CustomerAnswer
<1>2. CASE ~Customer(p)
  <2>1. can_read_cross_account(p.role) /\ View(p, s) = s
    BY <1>2, PrincipalFacts DEF View
  <2>2. QED
    BY <1>2, <2>1, KindRows, RequestFacts
    DEF Answer, Selected, GetAccount, ListAccounts, GetOrder, ListOrders, OrdersFor,
        ScopedAccount, GetTicket, ListTickets, TicketsFor, GetDocChunk, ListDocChunks,
        ChunksFor, list_accounts, get_doc_chunk, list_doc_chunks
<1>3. QED
  BY <1>1, <1>2
-----------------------------------------------------------------------------

\* A reply is the answer, over the present contents, to a request of a principal.
ReplyIsAnswer ==
  reply # NoReply =>
    /\ reply.who \in Principals
    /\ reply.request \in Requests
    /\ reply.answer = Answer(reply.who, reply.request, store)

RInv == store \in Datasets /\ ReplyIsAnswer

\* A reply is the answer of its method over the present contents.
LEMMA ReplyInvariance == Spec => []RInv
<1>1. Init => RInv
  BY DEF Init, RInv, ReplyIsAnswer
<1>2. RInv /\ [Next]_vars => RInv'
  <2> SUFFICES ASSUME RInv, [Next]_vars PROVE RInv'
    OBVIOUS
  <2>1. CASE Build
    BY <2>1 DEF Build, RInv, ReplyIsAnswer
  <2>2. ASSUME NEW p \in Principals, NEW q \in Requests, Call(p, q)
        PROVE  RInv'
    <3>1. /\ reply' = [who |-> p, request |-> q, answer |-> Answer(p, q, store)]
          /\ store' = store
      BY <2>2 DEF Call
    <3>2. Answer(p, q, store) = Answer(p, q, store')
      BY <3>1
    <3>3. reply'.who = p /\ reply'.request = q /\ reply'.answer = Answer(p, q, store')
      BY <3>1, <3>2
    <3>4. reply'.answer = Answer(reply'.who, reply'.request, store')
      BY <3>3
    <3>5. QED
      BY <3>1, <3>3, <3>4 DEF RInv, ReplyIsAnswer
  <2>3. CASE UNCHANGED vars
    <3>1. store' = store /\ reply' = reply
      BY <2>3 DEF vars
    <3>2. Answer(reply'.who, reply'.request, store') = Answer(reply.who, reply.request, store)
      BY <3>1
    <3>3. QED
      BY <3>1, <3>2 DEF RInv, ReplyIsAnswer
  <2>4. QED
    BY <2>1, <2>2, <2>3 DEF Next
<1>3. QED
  BY <1>1, <1>2, PTL DEF Spec

\* Every method returns exactly the rows its request selects in the caller's
\* view, for any contents a build may leave.
THEOREM AnswersAlwaysFromView == Spec => []AnswersFromView
<1>1. RInv => AnswersFromView
  <2> SUFFICES ASSUME RInv, reply # NoReply
               PROVE  reply.answer.rows =
                        Selected(reply.who, reply.request, View(reply.who, store))
    BY DEF AnswersFromView
  <2>1. store \in Store
    BY DatasetsAssumption DEF RInv
  <2>2. QED
    BY <2>1, AnswerRows DEF RInv, ReplyIsAnswer
<1>2. QED
  BY <1>1, ReplyInvariance, PTL

\* Two databases a customer may see the same part of are answered alike, down
\* to the kind of the exception: no row, denial or error depends on another
\* account's data or on a staff-only column.
THEOREM CustomersCannotInterfere == Spec => []NonInterference
<1>1. RInv => NonInterference
  <2> SUFFICES ASSUME RInv, reply # NoReply, Customer(reply.who),
                      NEW twin \in Datasets,
                      View(reply.who, twin) = View(reply.who, store)
               PROVE  Answer(reply.who, reply.request, twin) = reply.answer
    BY DEF NonInterference
  <2>1. store \in Store /\ twin \in Store
    BY DatasetsAssumption DEF RInv
  <2>2. reply.who \in Principals /\ reply.request \in Requests
    BY DEF RInv, ReplyIsAnswer
  <2>3. Answer(reply.who, reply.request, twin) = Answer(reply.who, reply.request, store)
    BY <2>1, <2>2, CustomerAnswer
  <2>4. QED
    BY <2>3 DEF RInv, ReplyIsAnswer
<1>2. QED
  BY <1>1, ReplyInvariance, PTL

-----------------------------------------------------------------------------

\* Redaction keeps a row a row.
LEMMA RedactedTyped ==
  /\ \A a \in Account : redact_account(a) \in Account
  /\ \A t \in Ticket : redact_ticket(t) \in Ticket
BY DEF Account, Ticket, redact_account, redact_ticket

\* Every method answers with rows of one table, or refuses.
LEMMA AnswerTyped ==
  ASSUME NEW p \in Principals, NEW q \in Requests, NEW s \in Store
  PROVE  Answer(p, q, s) \in [kind : {"rows", "denied", "not_found"},
                             rows : (SUBSET Account) \cup (SUBSET Order) \cup (SUBSET Ticket)
                                      \cup (SUBSET DocChunk)]
<1> DEFINE Rows == (SUBSET Account) \cup (SUBSET Order) \cup (SUBSET Ticket) \cup (SUBSET DocChunk)
           Answers == [kind : {"rows", "denied", "not_found"}, rows : Rows]
<1>1. \A rs \in Rows : /\ Returned(rs) \in Answers
                        /\ FoundOr(rs, NotFound) \in Answers
                        /\ FoundOr(rs, Denied) \in Answers
                        /\ Denied \in Answers
  BY DEF FoundOr, Returned, Denied, NotFound
<1>2. /\ s.accounts \subseteq Account /\ s.orders \subseteq Order
      /\ s.tickets \subseteq Ticket /\ s.doc_chunks \subseteq DocChunk
  BY DEF Store
<1>0. /\ \A rs : rs \subseteq Account => rs \in Rows
      /\ \A rs : rs \subseteq Order => rs \in Rows
      /\ \A rs : rs \subseteq Ticket => rs \in Rows
      /\ \A rs : rs \subseteq DocChunk => rs \in Rows
  OBVIOUS
<1>3. \A id : GetAccount(p, id, s) \in Answers
  <2> TAKE id
  <2>1. get_account(s, id) \in Rows
    BY <1>2 DEF get_account
  <2>2. {redact_account(a) : a \in get_account(s, id)} \in Rows
    BY <1>2, RedactedTyped DEF get_account
  <2> HIDE DEF Rows, Answers
  <2> QED
    BY <1>1, <2>1, <2>2 DEF GetAccount
<1>4. \A account, status : OrdersFor(p, account, status, s) \subseteq Order
  BY <1>2 DEF OrdersFor, list_orders
<1>5. \A account, status : TicketsFor(p, account, status, s) \subseteq Ticket
  BY <1>2, RedactedTyped DEF TicketsFor, list_tickets
<1>6. ChunksFor(p, s) \subseteq DocChunk
  BY <1>2 DEF ChunksFor, list_doc_chunks
<1>7. ListAccounts(p, s) \in Answers
  <2>1. list_accounts(s) \in Rows
    BY <1>2 DEF list_accounts
  <2> HIDE DEF Rows, Answers
  <2> QED
    BY <1>1, <1>3, <2>1 DEF ListAccounts
<1>8. \A id : GetOrder(p, id, s) \in Answers
  <2> TAKE id
  <2>a. get_order(s, id) \subseteq Order
    BY <1>2 DEF get_order
  <2>b. {o \in OrdersFor(p, NULL, NULL, s) : o.order_id = id} \subseteq Order
    BY <1>4
  <2> HIDE DEF Rows, Answers
  <2>1. get_order(s, id) \in Rows
    BY <1>0, <2>a
  <2>2. {o \in OrdersFor(p, NULL, NULL, s) : o.order_id = id} \in Rows
    BY <1>0, <2>b
  <2> QED
    BY <1>1, <2>1, <2>2 DEF GetOrder
<1>9. \A id : GetTicket(p, id, s) \in Answers
  <2> TAKE id
  <2>a. get_ticket(s, id) \subseteq Ticket
    BY <1>2 DEF get_ticket
  <2>b. {t \in TicketsFor(p, NULL, NULL, s) : t.ticket_id = id} \subseteq Ticket
    BY <1>5
  <2> HIDE DEF Rows, Answers
  <2>1. get_ticket(s, id) \in Rows
    BY <1>0, <2>a
  <2>2. {t \in TicketsFor(p, NULL, NULL, s) : t.ticket_id = id} \in Rows
    BY <1>0, <2>b
  <2> QED
    BY <1>1, <2>1, <2>2 DEF GetTicket
<1>10. \A id : GetDocChunk(p, id, s) \in Answers
  <2> TAKE id
  <2>a. {c \in ChunksFor(p, s) : c.chunk_id = id} \subseteq DocChunk
    BY <1>6
  <2> HIDE DEF Rows, Answers
  <2>1. {c \in ChunksFor(p, s) : c.chunk_id = id} \in Rows
    BY <1>0, <2>a
  <2> QED
    BY <1>1, <2>1 DEF GetDocChunk
<1>11. /\ \A account, status : ListOrders(p, account, status, s) \in Answers
       /\ \A account, status : ListTickets(p, account, status, s) \in Answers
       /\ ListDocChunks(p, s) \in Answers
  <2> HIDE DEF Rows, Answers
  <2>1. /\ \A account, status : OrdersFor(p, account, status, s) \in Rows
        /\ \A account, status : TicketsFor(p, account, status, s) \in Rows
        /\ ChunksFor(p, s) \in Rows
    BY <1>0, <1>4, <1>5, <1>6
  <2> QED
    BY <1>1, <2>1 DEF ListOrders, ListTickets, ListDocChunks
<1> HIDE DEF Rows, Answers
<1>12. Answer(p, q, s) \in Answers
  BY <1>3, <1>7, <1>8, <1>9, <1>10, <1>11, RequestFacts DEF Answer
<1> QED
  BY <1>12 DEF Answers, Rows

\* Every reply is an answer to a request of a principal, of rows of one table.
THEOREM RepliesTypeCorrect == Spec => []TypeOK
<1>1. Init => TypeOK
  BY DEF Init, TypeOK
<1>2. TypeOK /\ [Next]_vars => TypeOK'
  <2> SUFFICES ASSUME TypeOK, [Next]_vars PROVE TypeOK'
    OBVIOUS
  <2>1. CASE Build
    BY <2>1 DEF Build, TypeOK
  <2>2. ASSUME NEW p \in Principals, NEW q \in Requests, Call(p, q)
        PROVE  TypeOK'
    <3>1. store \in Store
      BY DatasetsAssumption DEF TypeOK
    <3>2. reply' \in Replies
      BY <2>2, <3>1, AnswerTyped DEF Call, Replies
    <3> QED
      BY <2>2, <3>2 DEF Call, TypeOK
  <2>3. CASE UNCHANGED vars
    BY <2>3 DEF vars, TypeOK
  <2> QED
    BY <2>1, <2>2, <2>3 DEF Next
<1> QED
  BY <1>1, <1>2, PTL DEF Spec

-----------------------------------------------------------------------------
(* Which errors a customer meets *)

HasAccount(p, s) == \E a \in s.accounts : a.account_id = p.account_id

\* The requests for the caller's own account row.
AsksForOwn(p, q) == q.op = "list_accounts" \/ (q.op = "get_account" /\ q.id = p.account_id)

\* A customer meets NotFoundError exactly where it asks for its own account
\* and there is no such row.
NotFoundMeansNoAccount ==
  reply # NoReply /\ Customer(reply.who) =>
    (reply.answer.kind = "not_found" <=>
       AsksForOwn(reply.who, reply.request) /\ ~HasAccount(reply.who, store))

LEMMA CustomerNotFound ==
  ASSUME NEW p \in Principals, Customer(p), NEW q \in Requests, NEW s \in Store
  PROVE  Answer(p, q, s).kind = "not_found" <=> AsksForOwn(p, q) /\ ~HasAccount(p, s)
<1> DEFINE v == View(p, s)
<1>1. v.accounts = {} <=> ~HasAccount(p, s)
  BY DEF View, HasAccount
<1>2. get_account(v, p.account_id) = v.accounts
  BY CustomerAccounts, PrincipalFacts
<1>3. \A rs : /\ FoundOr(rs, Denied).kind # "not_found"
              /\ FoundOr(rs, NotFound).kind = "not_found" <=> rs = {}
              /\ Returned(rs).kind # "not_found"
              /\ Denied.kind # "not_found"
  BY DEF FoundOr, Returned, Denied, NotFound
<1>4. Answer(p, q, s) = ViewAnswer(p, q, v)
  BY CustomerAnswer
<1> HIDE DEF v
<1>5. ViewAnswer(p, q, v).kind = "not_found" <=> AsksForOwn(p, q) /\ v.accounts = {}
  BY <1>2, <1>3, RequestFacts DEF ViewAnswer, AsksForOwn
<1> QED
  BY <1>1, <1>4, <1>5

\* For any contents, the exception to "only ever raised for a principal whose
\* role already grants unscoped read access" is the one named.
THEOREM CustomersNotFoundExplained == Spec => []NotFoundMeansNoAccount
<1>1. RInv => NotFoundMeansNoAccount
  <2>1. RInv => store \in Store
    BY DatasetsAssumption DEF RInv
  <2> QED
    BY <2>1, CustomerNotFound DEF RInv, ReplyIsAnswer, NotFoundMeansNoAccount
<1> QED
  BY <1>1, ReplyInvariance, PTL

\* Every customer that can log in has an account row in every data pack.
AccountsOnFile ==
  \A s \in Datasets, p \in Principals : Customer(p) => HasAccount(p, s)

\* Where customers' accounts are on file the docstring holds as it stands.
THEOREM NotFoundIsInternal ==
  ASSUME AccountsOnFile
  PROVE  Spec => []NotFoundOnlyForInternal
<1>1. RInv /\ NotFoundMeansNoAccount => NotFoundOnlyForInternal
  <2> SUFFICES ASSUME RInv, NotFoundMeansNoAccount, reply # NoReply,
                      reply.answer.kind = "not_found"
               PROVE  reply.who.role \in Internal
    BY DEF NotFoundOnlyForInternal
  <2>1. store \in Datasets /\ reply.who \in Principals
    BY DEF RInv, ReplyIsAnswer
  <2>2. ~Customer(reply.who)
    BY <2>1 DEF NotFoundMeansNoAccount, AccountsOnFile
  <2> QED
    BY <2>1, <2>2, PrincipalFacts DEF can_read_cross_account
<1> QED
  BY <1>1, ReplyInvariance, CustomersNotFoundExplained, PTL
=============================================================================
