-------------------------- MODULE EquipmentRentals --------------------------
(***************************************************************************)
(* Rented equipment: the passport of an asset with its stock status, the   *)
(* rentals that name assets, and the calls of the warehouse that reserve,  *)
(* confirm, hand over, take back and move them (equipment-rental.service,  *)
(* equipment-rental-handover.service, equipment-inventory.service,         *)
(* equipment-inspection.service, center-equipment-management.service,      *)
(* dive-center-portal.service).                                            *)
(*                                                                         *)
(* A call reads in statements of their own and writes in a serializable    *)
(* transaction that looks at the asset's row again, so what it read may    *)
(* be old by then.  A call that is refused or dies changes nothing.        *)
(* Prices, due dates and their extension, locations, and transfers between *)
(* locations do not touch any of this.                                     *)
(***************************************************************************)
EXTENDS Naturals, FiniteSets

CONSTANTS
    Assets,     \* the EquipmentBarcode rows
    Rentals,    \* identities of the EquipmentRental rows
    Handlers,   \* requests in flight
    NORENTAL

ASSUME EquipmentAssumption == NORENTAL \notin Rentals

VARIABLES
    stock,      \* stockStatus of each asset
    unfit,      \* assets whose latest inspection, or its expiry, blocks them
    rental,     \* the EquipmentRental rows
    handler     \* what each request in flight has read

equipmentVars == <<stock, unfit, rental, handler>>

StockStatus == {"AVAILABLE", "CHECKED_OUT", "MAINTENANCE", "QUARANTINED", "RETIRED"}
Movements == {"CHECK_IN", "CHECK_OUT", "MAINTENANCE", "QUARANTINE", "RELEASE", "RETIRE"}

\* The rows of a rental: its assets, the ones handed over and the ones returned.
RentalRecords ==
    [status : {"NONE", "RESERVED", "ACTIVE", "RETURNED"}, paid : BOOLEAN,
     items : SUBSET Assets, out : SUBSET Assets, back : SUBSET Assets]

\* A request: what it does, its rental and assets, the assets it has yet to find available,
\* whether it has yet to look at the inspections, and the stock status a movement started from.
HandlerRecords ==
    [does : {"nothing", "create", "pay", "scan", "return"} \cup Movements,
     rental : Rentals \cup {NORENTAL}, items : SUBSET Assets, left : SUBSET Assets,
     inspects : BOOLEAN, seen : StockStatus]

NoRequest == [does |-> "nothing", rental |-> NORENTAL, items |-> {}, left |-> {},
              inspects |-> FALSE, seen |-> "AVAILABLE"]

EquipmentInit ==
    /\ stock = [a \in Assets |-> "AVAILABLE"]
    /\ unfit = {}
    /\ rental = [r \in Rentals |-> [status |-> "NONE", paid |-> FALSE, items |-> {}, out |-> {}, back |-> {}]]
    /\ handler = [h \in Handlers |-> NoRequest]

Starts(h, request) ==
    /\ handler[h] = NoRequest
    /\ handler' = [handler EXCEPT ![h] = request]
    /\ UNCHANGED <<stock, unfit, rental>>

Ends(h) == handler' = [handler EXCEPT ![h] = NoRequest]
Ready(h, does) == handler[h].does = does /\ handler[h].left = {} /\ ~handler[h].inspects
AssetOf(h) == CHOOSE a \in handler[h].items : TRUE

-----------------------------------------------------------------------------
\* What a request reads before its transaction.

\* create(): the assets are looked up one after the other.
BeginCreate(h, S) ==
    Starts(h, [NoRequest EXCEPT !.does = "create", !.items = S, !.left = S])

\* confirmPayment(): a rental that is not paid for yet, then its assets, then their inspections.
BeginPay(h, r) ==
    /\ rental[r].status # "NONE" /\ ~rental[r].paid
    /\ Starts(h, [NoRequest EXCEPT !.does = "pay", !.rental = r, !.items = rental[r].items,
                                   !.left = rental[r].items, !.inspects = TRUE])

\* scan(): a piece of a paid rental that was not handed over, then its inspection.
BeginScan(h, r, a) ==
    /\ rental[r].paid /\ rental[r].status \in {"RESERVED", "ACTIVE"}
    /\ a \in rental[r].items \ rental[r].out
    /\ Starts(h, [NoRequest EXCEPT !.does = "scan", !.rental = r, !.items = {a}, !.inspects = TRUE])

\* Mutant of BeginReturn: nobody asks whether the rental is active.
BeginReturnAnytime(h, r, a) ==
    /\ a \in rental[r].items \ rental[r].back
    /\ Starts(h, [NoRequest EXCEPT !.does = "return", !.rental = r, !.items = {a}])

\* returnScan(): a piece of an active rental that was not returned.
BeginReturn(h, r, a) ==
    /\ rental[r].status = "ACTIVE"
    /\ a \in rental[r].items \ rental[r].back
    /\ Starts(h, [NoRequest EXCEPT !.does = "return", !.rental = r, !.items = {a}])

\* What a movement requires of the stock status, and what it makes of it.
Movable(movement, status) ==
    /\ status # "RETIRED"
    /\ movement = "CHECK_OUT" => status = "AVAILABLE"
    /\ movement = "CHECK_IN" => status = "CHECKED_OUT"
    /\ movement = "RELEASE" => status \in {"MAINTENANCE", "QUARANTINED"}

StatusAfter(movement) ==
    CASE movement = "CHECK_OUT" -> "CHECKED_OUT"
      [] movement = "MAINTENANCE" -> "MAINTENANCE"
      [] movement = "QUARANTINE" -> "QUARANTINED"
      [] movement = "RETIRE" -> "RETIRED"
      [] OTHER -> "AVAILABLE"

\* move() of the warehouse: the row, then its inspection if it is to leave.
BeginMove(h, a, movement) ==
    /\ Movable(movement, stock[a])
    /\ Starts(h, [NoRequest EXCEPT !.does = movement, !.items = {a}, !.seen = stock[a],
                                   !.inspects = movement = "CHECK_OUT"])

FindAvailable(h, a) ==
    /\ a \in handler[h].left
    /\ stock[a] = "AVAILABLE"
    /\ handler' = [handler EXCEPT ![h].left = @ \ {a}]
    /\ UNCHANGED <<stock, unfit, rental>>

\* evaluate(): one look at the latest inspections of all the assets.
FindFit(h) ==
    /\ handler[h].left = {} /\ handler[h].inspects
    /\ handler[h].items \cap unfit = {}
    /\ handler' = [handler EXCEPT ![h].inspects = FALSE]
    /\ UNCHANGED <<stock, unfit, rental>>

-----------------------------------------------------------------------------
\* What its transaction writes.

\* create(): nothing is looked at again, and nothing is held.
Create(h, r) ==
    /\ Ready(h, "create")
    /\ rental[r].status = "NONE"
    /\ rental' = [rental EXCEPT ![r] = [@ EXCEPT !.status = "RESERVED", !.items = handler[h].items]]
    /\ Ends(h)
    /\ UNCHANGED <<stock, unfit>>

\* Mutant of Pay: the rental becomes active when it is paid for, as in markPaid().
PayAndActivate(h) ==
    /\ Ready(h, "pay")
    /\ rental' = [rental EXCEPT ![handler[h].rental] = [@ EXCEPT !.paid = TRUE, !.status = "ACTIVE"]]
    /\ Ends(h)
    /\ UNCHANGED <<stock, unfit>>

\* confirmPayment(): the rental is paid for and stays reserved.
Pay(h) ==
    /\ Ready(h, "pay")
    /\ rental' = [rental EXCEPT ![handler[h].rental].paid = TRUE]
    /\ Ends(h)
    /\ UNCHANGED <<stock, unfit>>

\* scan(): the asset, still available, leaves with the renter; the last piece activates the rental.
Scan(h) ==
    LET r == handler[h].rental  a == AssetOf(h)  out == rental[r].out \cup {a} IN
    /\ Ready(h, "scan")
    /\ stock[a] = "AVAILABLE"
    /\ rental' = [rental EXCEPT ![r] = [@ EXCEPT !.out = out,
                                                 !.status = IF out = rental[r].items THEN "ACTIVE" ELSE rental[r].status]]
    /\ stock' = [stock EXCEPT ![a] = "CHECKED_OUT"]
    /\ Ends(h)
    /\ UNCHANGED unfit

\* returnScan(): the asset, still checked out, is back in some condition; the last piece closes
\* the rental.
Return(h, condition) ==
    LET r == handler[h].rental  a == AssetOf(h)  back == rental[r].back \cup {a} IN
    /\ Ready(h, "return")
    /\ stock[a] = "CHECKED_OUT"
    /\ rental' = [rental EXCEPT ![r] = [@ EXCEPT !.back = back,
                                                 !.status = IF back = rental[r].items THEN "RETURNED" ELSE rental[r].status]]
    /\ stock' = [stock EXCEPT ![a] = IF condition = "OK" THEN "AVAILABLE" ELSE "QUARANTINED"]
    /\ Ends(h)
    /\ UNCHANGED unfit

\* Mutant of Move: the stock status is not compared with the one read before.
MoveAnyway(h) ==
    \E movement \in Movements :
       /\ Ready(h, movement)
       /\ stock' = [stock EXCEPT ![AssetOf(h)] = StatusAfter(movement)]
       /\ Ends(h)
       /\ UNCHANGED <<unfit, rental>>

\* move(): refused if the stock status is another one by now.
Move(h) ==
    \E movement \in Movements :
       /\ Ready(h, movement)
       /\ stock[AssetOf(h)] = handler[h].seen
       /\ stock' = [stock EXCEPT ![AssetOf(h)] = StatusAfter(movement)]
       /\ Ends(h)
       /\ UNCHANGED <<unfit, rental>>

\* A request is refused, or its process dies.
GiveUp(h) ==
    /\ handler[h] # NoRequest
    /\ Ends(h)
    /\ UNCHANGED <<stock, unfit, rental>>

-----------------------------------------------------------------------------
\* What others do, in one transaction or one statement each.

\* moveEquipment() of a dive center.
MoveOfCenter(a, movement) ==
    /\ Movable(movement, stock[a])
    /\ movement = "CHECK_OUT" => a \notin unfit
    /\ stock' = [stock EXCEPT ![a] = StatusAfter(movement)]
    /\ UNCHANGED <<unfit, rental, handler>>

\* recordInspection() of a dive center: never a pass, and the asset is quarantined.
InspectionOfCenter(a) ==
    /\ stock[a] # "RETIRED"
    /\ unfit' = unfit \cup {a}
    /\ stock' = [stock EXCEPT ![a] = "QUARANTINED"]
    /\ UNCHANGED <<rental, handler>>

\* record() of a reviewer, or the end of the service period of an asset that had passed.
Inspection(a) ==
    /\ unfit' = IF a \in unfit THEN unfit \ {a} ELSE unfit \cup {a}
    /\ UNCHANGED <<stock, rental, handler>>

EquipmentNext ==
    \/ \E h \in Handlers :
          \/ \E S \in (SUBSET Assets) \ {{}} : BeginCreate(h, S)
          \/ \E r \in Rentals : BeginPay(h, r) \/ Create(h, r)
          \/ \E r \in Rentals, a \in Assets : BeginScan(h, r, a) \/ BeginReturn(h, r, a)
          \/ \E a \in Assets : FindAvailable(h, a) \/ \E movement \in Movements : BeginMove(h, a, movement)
          \/ FindFit(h) \/ Pay(h) \/ Scan(h) \/ Move(h) \/ GiveUp(h)
          \/ \E condition \in {"OK", "DAMAGED"} : Return(h, condition)
    \/ \E a \in Assets :
          \/ InspectionOfCenter(a) \/ Inspection(a)
          \/ \E movement \in Movements : MoveOfCenter(a, movement)

EquipmentSpec == EquipmentInit /\ [][EquipmentNext]_equipmentVars

-----------------------------------------------------------------------------
\* What the warehouse can rely on.

\* Every row keeps its type; only what a rental names is handed over, and only what was handed
\* over comes back.
EquipmentTypeOK ==
    /\ stock \in [Assets -> StockStatus]
    /\ unfit \subseteq Assets
    /\ rental \in [Rentals -> RentalRecords]
    /\ handler \in [Handlers -> HandlerRecords]
    /\ \A r \in Rentals : rental[r].back \subseteq rental[r].out /\ rental[r].out \subseteq rental[r].items

\* The status of a rental follows from its pieces, whoever scanned the last one: it is reserved
\* until all of a paid rental was handed over, and closed only when all of it is back.
StatusFollowsPieces ==
    \A r \in Rentals : rental[r].status # "NONE" =>
       /\ rental[r].status = "RESERVED" <=> rental[r].out # rental[r].items
       /\ rental[r].out # {} => rental[r].paid
       /\ rental[r].status = "RETURNED" => rental[r].back = rental[r].items
       /\ rental[r].back = rental[r].items => rental[r].status \in {"ACTIVE", "RETURNED"}

\* What was withdrawn is not handed out by a request that looked at it before: a retired asset
\* stays retired ("Retired equipment cannot return to circulation."), and one in quarantine or
\* maintenance is available again only by a release ("Quarantine also fences a checkout that
\* evaluated inspection policy before this transaction.").
WithdrawnStays ==
    [][\A a \in Assets :
          /\ stock[a] = "RETIRED" => stock'[a] = "RETIRED"
          /\ stock[a] \in {"QUARANTINED", "MAINTENANCE"} => stock'[a] # "CHECKED_OUT"]_equipmentVars

\* "payment/check-out takes row locks": the pieces of a rental are in stock when its payment is
\* confirmed.
PaidFromStock ==
    [][\A r \in Rentals : ~rental[r].paid /\ rental'[r].paid =>
          \A a \in rental[r].items : stock[a] = "AVAILABLE"]_equipmentVars

=============================================================================
