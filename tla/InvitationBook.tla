---------------------------- MODULE InvitationBook ----------------------------
(***************************************************************************)
(* What the invitations promise, without requests, token lookups or        *)
(* statements: a book of invitations, each to one place and address until  *)
(* it is settled; hands that hold what somebody has read of it and may     *)
(* still act on; and the seats at the places, which invitations give.      *)
(***************************************************************************)
CONSTANTS Ids,        \* the ids and tokens of invitations
          Places,     \* what invitations are to
          Addresses,  \* whom they are for
          Canon,      \* address -> the spelling that counts
          Offers,     \* the roles they offer
          NoOffer,    \* no seat
          People, Nobody,
          Hands,
          None        \* the row of an id without an invitation

VARIABLES book,   \* id -> the row, or None
          drawn,  \* the ids and tokens drawn so far
          hand,   \* hand -> who holds which readings, and from a list or not
          seats   \* place -> person -> role, or NoOffer

bvars == <<book, drawn, hand, seats>>

Empty == [who |-> Nobody, listed |-> FALSE, of |-> {}]

BInit ==
  /\ book = [i \in Ids |-> None]
  /\ drawn = {}
  /\ hand = [h \in Hands |-> Empty]
  /\ seats = [p \in Places |-> [x \in People |-> NoOffer]]

IsPending(i) == book[i] # None /\ book[i].status = "pending"

Open == {i \in Ids : IsPending(i) /\ ~book[i].expired}

PendingFor(p, a) ==
  {i \in Ids : IsPending(i) /\ book[i].ws = p /\ book[i].email = a}

OpenFor(a) == {i \in Open : Canon[book[i].email] = Canon[a]}

\* What an invitation says to whoever reads it.
Reading(i) == [id |-> i, ws |-> book[i].ws, role |-> book[i].role]

Take(h, x, listed, I) ==
  /\ hand[h] = Empty
  /\ I # {}
  /\ hand' = [hand EXCEPT ![h] = [who |-> x, listed |-> listed,
                                  of |-> {Reading(i) : i \in I}]]
  /\ UNCHANGED <<book, drawn, seats>>

\* Somebody with an address lists all that is open for it ...
List(h, x, a) == Take(h, x, TRUE, OpenFor(a))

\* ... or somebody looks up one open invitation.
LookUp(h, x, i) == i \in Open /\ Take(h, x, FALSE, {i})

\* What was read is given up.
Drop(h) ==
  /\ hand' = [hand EXCEPT ![h] = Empty]
  /\ UNCHANGED <<book, drawn, seats>>

\* The row may have been renewed, settled or withdrawn since it was read.  One
\* that was looked up is settled only while it is pending.
Settle(s, listed) ==
  book' = IF book[s.id] # None /\ (listed \/ book[s.id].status = "pending")
          THEN [book EXCEPT ![s.id].status = "accepted"]
          ELSE book

\* A reading is acted on, once: its holder takes the seat it offers.
Accept(h, s) ==
  /\ s \in hand[h].of
  /\ Settle(s, hand[h].listed)
  /\ seats' = [seats EXCEPT ![s.ws][hand[h].who] = s.role]
  /\ hand' = [hand EXCEPT ![h] = IF hand[h].of = {s} THEN Empty
                                 ELSE [hand[h] EXCEPT !.of = @ \ {s}]]
  /\ UNCHANGED drawn

Draw(t) == t \notin drawn /\ drawn' = drawn \cup {t}

Fresh(p, a, role, t) == [ws |-> p, email |-> a, role |-> role, token |-> t,
                         status |-> "pending", expired |-> FALSE]

\* An address is invited that no pending invitation to the place is for.
Issue(p, a, role, t) ==
  /\ Draw(t)
  /\ PendingFor(p, a) = {}
  /\ book' = [book EXCEPT ![t] = Fresh(p, a, role, t)]
  /\ UNCHANGED <<hand, seats>>

\* The one pending invitation to the place for the address is renewed: it keeps
\* its id, its token is one never used before.
Renew(i, role, t) ==
  /\ Draw(t)
  /\ IsPending(i)
  /\ PendingFor(book[i].ws, book[i].email) = {i}
  /\ book' = [book EXCEPT ![i] = Fresh(book[i].ws, book[i].email, role, t)]
  /\ UNCHANGED <<hand, seats>>

Revoke(i) ==
  /\ IsPending(i)
  /\ book' = [book EXCEPT ![i].status = "revoked"]
  /\ UNCHANGED <<drawn, hand, seats>>

Lapse(i) ==
  /\ IsPending(i)
  /\ book' = [book EXCEPT ![i].expired = TRUE]
  /\ UNCHANGED <<drawn, hand, seats>>

\* Somebody gets a seat, or leaves it, without an invitation.
Seat(p, x) ==
  /\ UNCHANGED <<book, drawn, hand>>
  /\ \E role \in Offers \cup {NoOffer} : seats' = [seats EXCEPT ![p][x] = role]

\* The place is gone, and its seats; it may take its invitations along.
Close(p) ==
  /\ seats' = [seats EXCEPT ![p] = [x \in People |-> NoOffer]]
  /\ book' \in {book, [i \in Ids |-> IF book[i] # None /\ book[i].ws = p
                                     THEN None ELSE book[i]]}
  /\ UNCHANGED <<drawn, hand>>

BNext ==
  \/ \E h \in Hands : \/ Drop(h)
                      \/ \E x \in People, a \in Addresses : List(h, x, a)
                      \/ \E x \in People, i \in Ids : LookUp(h, x, i)
                      \/ \E s \in hand[h].of : Accept(h, s)
  \/ \E t \in Ids, role \in Offers :
       \/ \E p \in Places, a \in Addresses : Issue(p, a, role, t)
       \/ \E i \in Ids : Renew(i, role, t)
  \/ \E i \in Ids : Revoke(i) \/ Lapse(i)
  \/ \E p \in Places : \/ \E x \in People : Seat(p, x)
                       \/ Close(p)

BSpec == BInit /\ [][BNext]_bvars
=============================================================================
