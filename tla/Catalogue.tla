------------------------------ MODULE Catalogue ------------------------------
(***************************************************************************)
(* One agent, its service and the orders placed for it (agents/service.py, *)
(* services/service.py, create_order and payment_instructions in           *)
(* orders/service.py, and what the marketplace lists).                     *)
(*                                                                         *)
(* A request loads the rows, decides, and writes the columns that differ   *)
(* from what it loaded (READ COMMITTED, no locks); what the tables refuse, *)
(* or the code does, is rolled back.  0 stands for NULL.  Left out: who    *)
(* may call, names and texts, units, the range of quantities (checked like *)
(* the price), and suspension, which nothing in the application does.      *)
(***************************************************************************)
EXTENDS Naturals, FiniteSets

CONSTANTS Requests,    \* requests under way at a time
          OrderIds,
          Wallets,     \* verified wallets of the organization's members
          Prices, Hours, ReleaseHours, \* terms a provider may ask for, or a buyer
          DefaultHours,                \* DEFAULT_DELIVERY_WINDOW
          MaxBegun     \* bound: requests that have begun

CatalogueAssumption ==
    /\ IsFiniteSet(OrderIds)
    /\ Prices # {} /\ Prices \cup Hours \cup ReleaseHours \subseteq Nat \ {0}
    /\ DefaultHours \in Nat \ {0} /\ MaxBegun \in Nat

VARIABLES agent,    \* its row: status and payout wallet
          service,  \* its row: status, terms and order_count
          orders,   \* per id: the order's row
          txn,      \* per request: what it has loaded, and what it will write
          begun,    \* requests that have begun
          offered,  \* the terms the service has been published with
          told,     \* per order: the windows payment instructions have named
          crossed   \* whether two placements have been under way at a time

vars == <<agent, service, orders, txn, begun, offered, told, crossed>>

NoWallet == "no wallet"
AgentStatus == {"draft", "active", "paused", "retired"}
ServiceStatus == {"none", "draft", "published", "unavailable", "archived"}

Terms == {"model", "price", "hours", "release"}
Offer == [model : {"fixed", "negotiated"}, price : Prices \cup {0},
          hours : Hours \cup {0}, release : ReleaseHours]
TermsOf(row) == [c \in Terms |-> row[c]]

NoOrder == [status |-> "none"]
Idle == [kind |-> "none"]

-----------------------------------------------------------------------------
(* What the tables take.                                                   *)

\* _validate_pricing_coherence, and the constraint it anticipates.
Coherent(row) == row.model = "negotiated" \/ row.price # 0

ServiceChecks(row) == row.model = "negotiated" \/ row.price # 0
AgentChecks(row) == row.status = "active" => row.payout # NoWallet

WholeRow(committed, loaded, new) == new
\* An UPDATE sets the columns that differ from the row as it was loaded.
Written(committed, loaded, new) ==
    [c \in DOMAIN committed |-> IF new[c] # loaded[c] THEN new[c] ELSE committed[c]]

-----------------------------------------------------------------------------
(* Requests that change the agent or the service.                          *)

Begin(p, kind, newAgent, newService) ==
    /\ txn[p] = Idle
    /\ begun < MaxBegun
    /\ begun' = begun + 1
    /\ txn' = [txn EXCEPT ![p] =
                [kind |-> kind, agent |-> agent, service |-> service,
                 newAgent |-> newAgent, newService |-> newService]]
    /\ UNCHANGED <<agent, service, orders, offered, told, crossed>>

OfAgent(p, newAgent) == Begin(p, "edit", newAgent, service)
OfService(p, newService) == Begin(p, "edit", agent, newService)

SetPayoutWallet(p, w) == OfAgent(p, [agent EXCEPT !.payout = w])

PublishAgent(p) ==
    /\ agent.status # "active"
    /\ agent.payout # NoWallet
    /\ OfAgent(p, [agent EXCEPT !.status = "active"])

PauseAgent(p) == agent.status # "paused" /\ OfAgent(p, [agent EXCEPT !.status = "paused"])

RetireAgent(p) == agent.status # "retired" /\ OfAgent(p, [agent EXCEPT !.status = "retired"])

CreateService(p, offer) ==
    /\ service.status = "none"
    /\ agent.status # "retired"
    /\ Coherent(offer)
    /\ OfService(p, [c \in DOMAIN service |-> IF c \in Terms THEN offer[c]
                                      ELSE IF c = "status" THEN "draft" ELSE 0])

\* Any of the terms may be changed, whatever the status.
UpdateService(p, offer) ==
    LET new == [c \in DOMAIN service |-> IF c \in Terms THEN offer[c] ELSE service[c]] IN
    /\ service.status # "none"
    /\ new # service
    /\ Coherent(new)
    /\ OfService(p, new)

PublishService(p) ==
    /\ service.status \in {"draft", "unavailable", "archived"}
    /\ agent.status = "active"
    /\ agent.payout # NoWallet
    /\ Coherent(service)
    /\ OfService(p, [service EXCEPT !.status = "published"])

SetAvailability(p, available) ==
    /\ service.status = IF available THEN "unavailable" ELSE "published"
    /\ OfService(p, [service EXCEPT !.status = IF available THEN "published" ELSE "unavailable"])

ArchiveService(p) ==
    /\ service.status \notin {"none", "archived"}
    /\ OfService(p, [service EXCEPT !.status = "archived"])

-----------------------------------------------------------------------------
(* Placing an order.                                                       *)

\* _resolve_unit_price: a named price counts where the price is negotiated.
UnitPrice(row, named) == IF row.model = "negotiated" THEN named ELSE row.price

\* What create_order asks of the service and of its agent; the agent's row is
\* read by a statement of its own, after the service's.
TakesOrders(row) == row.status = "published"
CanBePaid(row) == row.status = "active" /\ row.payout # NoWallet

LoadService(p, o, named) ==
    /\ txn[p] = Idle
    /\ orders[o] = NoOrder
    /\ \A q \in Requests : txn[q].kind = "order" => txn[q].order # o
    /\ TakesOrders(service)
    /\ UnitPrice(service, named) # 0
    /\ begun < MaxBegun /\ begun' = begun + 1
    /\ txn' = [txn EXCEPT ![p] = [kind |-> "order", order |-> o, named |-> named,
                                  service |-> service, ready |-> FALSE]]
    /\ crossed' = (crossed \/ \E q \in Requests : txn[q].kind = "order")
    /\ UNCHANGED <<agent, service, orders, offered, told>>

LoadAgent(p) ==
    /\ txn[p].kind = "order" /\ ~txn[p].ready
    /\ CanBePaid(agent)
    /\ txn' = [txn EXCEPT ![p].ready = TRUE]
    /\ UNCHANGED <<agent, service, orders, begun, offered, told, crossed>>

\* order_count is incremented from the value loaded.
Counted(row) == [row EXCEPT !.count = @ + 1]

PlaceOrder(p) ==
    LET t == txn[p] IN
    /\ t.kind = "order" /\ t.ready
    /\ orders' = [orders EXCEPT ![t.order] =
                    [status |-> "pending", price |-> UnitPrice(t.service, t.named),
                     hours |-> t.service.hours, release |-> t.service.release]]
    /\ service' = Written(service, t.service, Counted(t.service))
    /\ txn' = [txn EXCEPT ![p] = Idle]
    /\ UNCHANGED <<agent, begun, offered, told, crossed>>

-----------------------------------------------------------------------------
(* The end of a request.                                                   *)

Commit(p) ==
    LET t == txn[p] IN
    /\ t.kind = "edit"
    /\ agent' = Written(agent, t.agent, t.newAgent)
    /\ service' = Written(service, t.service, t.newService)
    /\ AgentChecks(agent') /\ ServiceChecks(service')
    /\ offered' = IF service'.status = "published" THEN offered \cup {TermsOf(service')}
                  ELSE offered
    /\ txn' = [txn EXCEPT ![p] = Idle]
    /\ UNCHANGED <<orders, begun, told, crossed>>

\* The tables refuse, a check of the code fails, or the connection is lost.
Fail(p) ==
    /\ txn[p] # Idle
    /\ txn' = [txn EXCEPT ![p] = Idle]
    /\ UNCHANGED <<agent, service, orders, begun, offered, told, crossed>>

-----------------------------------------------------------------------------
(* Payment instructions, and the end of the time to pay.                   *)

Either(a, b) == IF a # 0 THEN a ELSE b

\* resolve_windows: the order's own terms, where it has them.
Windows(order) ==
    [delivery |-> Either(Either(order.hours, service.hours), DefaultHours),
     release |-> Either(order.release, service.release)]

TellPayment(o) ==
    /\ orders[o].status = "pending"
    /\ agent.payout # NoWallet
    /\ told' = [told EXCEPT ![o] = @ \cup {Windows(orders[o])}]
    /\ UNCHANGED <<agent, service, orders, txn, begun, offered, crossed>>

\* The funding deadline passes, or the order is paid or cancelled.
CloseFunding(o) ==
    /\ orders[o].status = "pending"
    /\ orders' = [orders EXCEPT ![o].status = "closed"]
    /\ UNCHANGED <<agent, service, txn, begun, offered, told, crossed>>

-----------------------------------------------------------------------------
\* What the catalogue may hold after requests that did not overlap.
Init ==
    /\ agent \in [status : AgentStatus, payout : Wallets \cup {NoWallet}]
    /\ AgentChecks(agent)
    /\ \E status \in {"none", "draft", "published"}, offer \in Offer :
          /\ Coherent(offer)
          /\ status = "published" => agent.status # "draft" /\ agent.payout # NoWallet
          /\ service = [c \in Terms \cup {"status", "count"} |->
                          IF c \in Terms THEN offer[c] ELSE IF c = "status" THEN status ELSE 0]
          /\ offered = IF status = "published" THEN {offer} ELSE {}
    /\ orders = [o \in OrderIds |-> NoOrder]
    /\ txn = [p \in Requests |-> Idle]
    /\ begun = 0 /\ crossed = FALSE
    /\ told = [o \in OrderIds |-> {}]

Edit(p) ==
    \/ \E w \in Wallets : SetPayoutWallet(p, w)
    \/ PublishAgent(p) \/ PauseAgent(p) \/ RetireAgent(p)
    \/ \E offer \in Offer : CreateService(p, offer) \/ UpdateService(p, offer)
    \/ PublishService(p) \/ ArchiveService(p)
    \/ \E available \in BOOLEAN : SetAvailability(p, available)

Next ==
    \/ \E p \in Requests :
          \/ Edit(p)
          \/ \E o \in OrderIds, named \in Prices \cup {0} : LoadService(p, o, named)
          \/ LoadAgent(p) \/ PlaceOrder(p) \/ Commit(p) \/ Fail(p)
    \/ \E o \in OrderIds : TellPayment(o) \/ CloseFunding(o)

Spec == Init /\ [][Next]_vars

-----------------------------------------------------------------------------
TypeOK ==
    /\ agent \in [status : AgentStatus, payout : Wallets \cup {NoWallet}]
    /\ service.status \in ServiceStatus /\ TermsOf(service) \in Offer
    /\ service.count \in 0 .. Cardinality(OrderIds)
    /\ \A o \in OrderIds : orders[o] # NoOrder => orders[o].price \in Prices

\* "Should be unreachable: a published non-negotiated service must have a price":
\* of two edits at the same time, each coherent with the row it loaded, the
\* second is refused (_validate_pricing_coherence and the constraint behind it).
PriceAlwaysThere == service.model # "negotiated" => service.price # 0

\* What the marketplace shows as taking orders, create_order takes: its agent is
\* active and can be paid, and the service has a price to be ordered at.
Shown == service.status \in {"published", "unavailable"}
ShownAlone == Shown
Discoverable == Shown /\ agent.status = "active"

DiscoverableIsOrderable ==
    Discoverable /\ service.status = "published" =>
        CanBePaid(agent) /\ \E named \in Prices : UnitPrice(service, named) # 0

\* Whatever is edited meanwhile, an order has the terms the service was once
\* published with, all of one moment, and a buyer's own price only where the
\* price is negotiated (create_order, _resolve_unit_price).
OrderTermsOffered ==
    \A o \in OrderIds :
        orders[o] # NoOrder =>
            \E t \in offered :
                /\ t.hours = orders[o].hours /\ t.release = orders[o].release
                /\ t.model # "negotiated" => t.price = orders[o].price

\* order_count counts the orders, whatever edits overlap the placements: only
\* two placements at the same time count as one (create_order).
CountedUnlessOverlapped ==
    ~crossed => service.count = Cardinality({o \in OrderIds : orders[o] # NoOrder})

\* An order placed while the service stated a delivery time keeps its windows,
\* whatever the provider edits afterwards (resolve_windows).
StatedWindowsStay ==
    \A o \in OrderIds :
        orders[o] # NoOrder /\ orders[o].hours # 0 => Cardinality(told[o]) <= 1

=============================================================================
