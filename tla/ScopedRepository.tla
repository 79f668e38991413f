-------------------------- MODULE ScopedRepository --------------------------
(***************************************************************************)
(* The authorization chokepoint: class ScopedRepository of                 *)
(* src/backend/auth/authorize.py, for principals of every role, over a     *)
(* database that builds replace between calls.  Each method issues exactly *)
(* one query, so one call is one step; a call returns rows or raises       *)
(* AuthorizationError ("denied") or NotFoundError ("not_found").           *)
(***************************************************************************)
EXTENDS Queries

CONSTANTS
  Datasets,    \* the contents a build may leave in var/app.db
  Principals   \* the principals that hold a repository

Internal == {"internal_agent", "internal_admin"}
Roles    == Internal \cup {"customer"}

\* The validator of Principal: a customer has an account.
Principal == {p \in [role : Roles, account_id : AccountIds \cup {NULL}] :
                p.role = "customer" => p.account_id # NULL}

ASSUME DatasetsAssumption   == Datasets \subseteq Store
ASSUME PrincipalsAssumption == Principals \subseteq Principal
ASSUME NullAssumption       == NULL \notin AccountIds \cup Statuses \cup Staff

\* The personas of the mocked sessions: two fixed ones, and one per account.
INTERNAL_AGENT == [role |-> "internal_agent", account_id |-> NULL]
INTERNAL_ADMIN == [role |-> "internal_admin", account_id |-> NULL]
customer_principal(account_id) == [role |-> "customer", account_id |-> account_id]

can_read_cross_account(role) == role \in Internal

-----------------------------------------------------------------------------
(* Responses *)

Returned(rs) == [kind |-> "rows", rows |-> rs]
Denied       == [kind |-> "denied", rows |-> {}]
NotFound     == [kind |-> "not_found", rows |-> {}]

\* Mutant: one of the two staff-only columns is forgotten.
redact_assignee(t) == [t EXCEPT !.assigned_to = NULL]

redact_account(a) == [a EXCEPT !.csm = NULL]
redact_ticket(t)  == [t EXCEPT !.assigned_to = NULL, !.historical_resolution = NULL]

\* Mutant: a missing row is returned as None.
FoundOrNone(rs, absent) == [kind |-> IF rs = {} THEN "none" ELSE "rows", rows |-> rs]

\* The row found, or what its absence raises.
FoundOr(rs, absent) == IF rs = {} THEN absent ELSE Returned(rs)

-----------------------------------------------------------------------------
(* The methods, for principal p over store s *)

GetAccount(p, id, s) ==
  IF can_read_cross_account(p.role)
    THEN FoundOr(get_account(s, id), NotFound)
  ELSE IF id # p.account_id
    THEN Denied
  ELSE FoundOr({redact_account(a) : a \in get_account(s, id)}, NotFound)

ListAccounts(p, s) ==
  IF can_read_cross_account(p.role)
    THEN Returned(list_accounts(s))
    ELSE GetAccount(p, p.account_id, s)

\* A customer's own account replaces whatever account was asked for.
ScopedAccount(p, account) ==
  IF can_read_cross_account(p.role) THEN account ELSE p.account_id

OrdersFor(p, account, status, s) == list_orders(s, ScopedAccount(p, account), status)

ListOrders(p, account, status, s) == Returned(OrdersFor(p, account, status, s))

\* Mutant: the order is looked up first, and its owner checked afterwards.
GetOrderUnscoped(p, id, s) ==
  IF get_order(s, id) = {} THEN NotFound
  ELSE FoundOr({o \in get_order(s, id) :
                  can_read_cross_account(p.role) \/ o.account_id = p.account_id}, Denied)

GetOrder(p, id, s) ==
  IF can_read_cross_account(p.role)
    THEN FoundOr(get_order(s, id), NotFound)
    ELSE FoundOr({o \in OrdersFor(p, NULL, NULL, s) : o.order_id = id}, Denied)

TicketsFor(p, account, status, s) ==
  LET found == list_tickets(s, ScopedAccount(p, account), status)
  IN  IF can_read_cross_account(p.role) THEN found ELSE {redact_ticket(t) : t \in found}

ListTickets(p, account, status, s) == Returned(TicketsFor(p, account, status, s))

GetTicket(p, id, s) ==
  IF can_read_cross_account(p.role)
    THEN FoundOr(get_ticket(s, id), NotFound)
    ELSE FoundOr({t \in TicketsFor(p, NULL, NULL, s) : t.ticket_id = id}, Denied)

ChunksFor(p, s) ==
  IF can_read_cross_account(p.role)
    THEN list_doc_chunks(s)
    ELSE {c \in list_doc_chunks(s) : c.customer_account_id \in {NULL, p.account_id}}

ListDocChunks(p, s) == Returned(ChunksFor(p, s))

GetDocChunk(p, id, s) ==
  FoundOr({c \in ChunksFor(p, s) : c.chunk_id = id},
          IF can_read_cross_account(p.role) THEN NotFound ELSE Denied)

-----------------------------------------------------------------------------
(* Requests: a method and its arguments *)

GetRequests(op, ids)  == [op : {op}, id : ids]
ListRequests(op)      == [op : {op}]
FilterRequests(op)    == [op : {op}, account : AccountIds \cup {NULL},
                          status : Statuses \cup {NULL}]

Requests ==
  GetRequests("get_account", AccountIds) \cup ListRequests("list_accounts")
    \cup GetRequests("get_order", OrderIds) \cup FilterRequests("list_orders")
    \cup GetRequests("get_ticket", TicketIds) \cup FilterRequests("list_tickets")
    \cup GetRequests("get_doc_chunk", ChunkIds) \cup ListRequests("list_doc_chunks")

Answer(p, q, s) ==
  CASE q.op = "get_account"     -> GetAccount(p, q.id, s)
    [] q.op = "list_accounts"   -> ListAccounts(p, s)
    [] q.op = "get_order"       -> GetOrder(p, q.id, s)
    [] q.op = "list_orders"     -> ListOrders(p, q.account, q.status, s)
    [] q.op = "get_ticket"      -> GetTicket(p, q.id, s)
    [] q.op = "list_tickets"    -> ListTickets(p, q.account, q.status, s)
    [] q.op = "get_doc_chunk"   -> GetDocChunk(p, q.id, s)
    [] q.op = "list_doc_chunks" -> ListDocChunks(p, s)

-----------------------------------------------------------------------------

VARIABLES
  store,   \* the committed contents of var/app.db
  reply    \* the last call since the last build: who, request, answer

vars == <<store, reply>>

NoReply == [who |-> NULL]
Replies ==
  [who : Principals, request : Requests,
   answer : [kind : {"rows", "denied", "not_found"},
             rows : (SUBSET Account) \cup (SUBSET Order) \cup (SUBSET Ticket)
                      \cup (SUBSET DocChunk)]]

Init == store \in Datasets /\ reply = NoReply

Call(p, q) ==
  /\ reply' = [who |-> p, request |-> q, answer |-> Answer(p, q, store)]
  /\ UNCHANGED store

Build ==
  /\ store' \in Datasets
  /\ reply' = NoReply

Next == Build \/ \E p \in Principals, q \in Requests : Call(p, q)

Spec == Init /\ [][Next]_vars

TypeOK == store \in Datasets /\ (reply # NoReply => reply \in Replies)

-----------------------------------------------------------------------------
(* Properties *)

Customer(p) == p.role = "customer"

\* What a principal is entitled to: everything for an internal role; for a
\* customer the rows of its own account without the staff-only columns, the
\* general documents and its own contract.
View(p, s) ==
  IF ~Customer(p) THEN s ELSE
    [accounts   |-> {[a EXCEPT !.csm = NULL] : a \in {b \in s.accounts : b.account_id = p.account_id}},
     orders     |-> {o \in s.orders : o.account_id = p.account_id},
     tickets    |-> {[t EXCEPT !.assigned_to = NULL, !.historical_resolution = NULL] :
                       t \in {u \in s.tickets : u.account_id = p.account_id}},
     doc_chunks |-> {c \in s.doc_chunks : c.customer_account_id = NULL
                                           \/ c.customer_account_id = p.account_id}]

\* Which rows of a view a request selects.  A customer cannot choose the account.
Selected(p, q, v) ==
  CASE q.op = "get_account"     -> get_account(v, q.id)
    [] q.op = "list_accounts"   -> v.accounts
    [] q.op = "get_order"       -> get_order(v, q.id)
    [] q.op = "list_orders"     -> list_orders(v, IF Customer(p) THEN NULL ELSE q.account, q.status)
    [] q.op = "get_ticket"      -> get_ticket(v, q.id)
    [] q.op = "list_tickets"    -> list_tickets(v, IF Customer(p) THEN NULL ELSE q.account, q.status)
    [] q.op = "get_doc_chunk"   -> get_doc_chunk(v, q.id)
    [] q.op = "list_doc_chunks" -> v.doc_chunks

\* Every method, get or list, returns exactly the rows its request selects in
\* the caller's view: nothing of another account, nothing staff-only, and
\* nothing of its own withheld.
AnswersFromView ==
  reply # NoReply =>
    reply.answer.rows = Selected(reply.who, reply.request, View(reply.who, store))

\* A customer learns nothing about what it may not see, from rows, denials or
\* errors: any other database with the same view gives the same answer.
NonInterference ==
  reply # NoReply /\ Customer(reply.who) =>
    \A twin \in Datasets :
      View(reply.who, twin) = View(reply.who, store) =>
        Answer(reply.who, reply.request, twin) = reply.answer

\* NotFoundError is "only ever raised for a principal whose role already
\* grants unscoped read access" (the docstring of the class).
NotFoundOnlyForInternal ==
  reply # NoReply /\ reply.answer.kind = "not_found" => reply.who.role \in Internal
=============================================================================
