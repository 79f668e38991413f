------------------------------ MODULE Queries ------------------------------
(***************************************************************************)
(* The trusted, unscoped query functions of src/backend/db/queries.py over *)
(* one committed state of var/app.db.  A row keeps the columns that decide *)
(* who may see it, the status filters and the columns that are redacted;   *)
(* the other columns follow the key.  A list is the set of its rows: every *)
(* query orders by the primary key.  A get returns a set of at most one    *)
(* row, the empty set standing for None.                                   *)
(***************************************************************************)
CONSTANTS
  AccountIds, OrderIds, TicketIds, ChunkIds,   \* primary keys
  Statuses,                                    \* statuses of orders and tickets
  Staff,                                       \* contents of staff-only columns
  NULL                                         \* None

Account  == [account_id : AccountIds, csm : Staff \cup {NULL}]
Order    == [order_id : OrderIds, account_id : AccountIds, status : Statuses]
Ticket   == [ticket_id : TicketIds, account_id : AccountIds, status : Statuses,
             assigned_to : Staff \cup {NULL}, historical_resolution : Staff \cup {NULL}]
DocChunk == [chunk_id : ChunkIds, customer_account_id : AccountIds \cup {NULL}]

Store == [accounts : SUBSET Account, orders : SUBSET Order,
          tickets : SUBSET Ticket, doc_chunks : SUBSET DocChunk]

\* A filter argument that is None selects every row.
Matches(column, filter) == filter = NULL \/ column = filter

get_account(s, id) == {a \in s.accounts : a.account_id = id}
list_accounts(s)   == s.accounts

get_order(s, id) == {o \in s.orders : o.order_id = id}
list_orders(s, account, status) ==
  {o \in s.orders : Matches(o.account_id, account) /\ Matches(o.status, status)}

get_ticket(s, id) == {t \in s.tickets : t.ticket_id = id}
list_tickets(s, account, status) ==
  {t \in s.tickets : Matches(t.account_id, account) /\ Matches(t.status, status)}

get_doc_chunk(s, id) == {c \in s.doc_chunks : c.chunk_id = id}

\* The two filters of list_doc_chunks are not used by any caller in src/.
list_doc_chunks(s) == s.doc_chunks
=============================================================================
