------------------------ MODULE MCScopedRepository ------------------------
(* Instances of ScopedRepository for TLC.  The tables do not interact, so the *)
(* contents vary accounts with orders, and tickets with chunks, over every    *)
(* combination of owner, status, staff column and scope; rows of an account   *)
(* that is itself absent are among them (foreign keys are not enforced).      *)
EXTENDS ScopedRepository

CONSTANTS a1, a2, o1, o2, t1, c1, c2, open, closed, s1

\* The sets of at most one row of R for each key of K under column k.
Keyed(R, key(_), K) ==
  {{f[k] : k \in D} : <<D, f>> \in
     UNION {{<<D, f>> : f \in {g \in [D -> R] : \A k \in D : key(g[k]) = k}} :
              D \in SUBSET K}}

SomeAccounts == Keyed(Account, LAMBDA r : r.account_id, AccountIds)
SomeOrders   == Keyed(Order, LAMBDA r : r.order_id, OrderIds)
SomeTickets  == Keyed({t \in Ticket : t.assigned_to = NULL \/ t.historical_resolution = NULL},
                      LAMBDA r : r.ticket_id, TicketIds)
SomeChunks   == Keyed(DocChunk, LAMBDA r : r.chunk_id, ChunkIds)

BothAccounts == {[account_id |-> a, csm |-> s1] : a \in AccountIds}

MCDatasets ==
  [accounts : SomeAccounts, orders : SomeOrders, tickets : {{}}, doc_chunks : {{}}]
    \cup
  [accounts : {BothAccounts}, orders : {{}}, tickets : SomeTickets, doc_chunks : SomeChunks]

MCPrincipals ==
  {INTERNAL_AGENT, INTERNAL_ADMIN} \cup {customer_principal(a) : a \in AccountIds}
=============================================================================
