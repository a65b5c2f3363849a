---------------------- MODULE EquipmentRentals_proofs ----------------------
(***************************************************************************)
(* Proofs about rented equipment: the status of a rental follows from its  *)
(* pieces, only what was handed over comes back, and what was withdrawn is *)
(* not handed out by a request that looked at it before.                   *)
(***************************************************************************)
EXTENDS EquipmentRentals, TLAPS

-----------------------------------------------------------------------------
\* The inductive invariant.

\* A row of a rental: pieces that only move on, and a status that follows from them.
RowFits(row) ==
    /\ row.back \subseteq row.out /\ row.out \subseteq row.items
    /\ row.status = "NONE" => row.out = {} /\ row.back = {}
    /\ row.status # "NONE" =>
          /\ row.status = "RESERVED" <=> row.out # row.items
          /\ row.out # {} => row.paid
          /\ row.status = "RETURNED" => row.back = row.items
          /\ row.back = row.items => row.status \in {"ACTIVE", "RETURNED"}

\* What a request has read that still holds of the rental it is about, however late it writes.
Recalls(request, rows) ==
    /\ request.does = "create" => request.items # {}
    /\ request.does \in {"pay", "scan", "return"} =>
          request.rental \in Rentals /\ rows[request.rental].status # "NONE"
    /\ request.does \in {"scan", "return"} =>
          \E a \in Assets : request.items = {a} /\ a \in rows[request.rental].items
    /\ request.does = "scan" => rows[request.rental].paid
    /\ request.does = "return" => rows[request.rental].status \in {"ACTIVE", "RETURNED"}
    /\ request.does \in Movements =>
          /\ \E a \in Assets : request.items = {a}
          /\ Movable(request.does, request.seen)

EquipmentIInv ==
    /\ EquipmentTypeOK
    /\ \A r \in Rentals : RowFits(rental[r])
    /\ \A h \in Handlers : Recalls(handler[h], rental)

LEMMA EquipmentPromises == EquipmentIInv => EquipmentTypeOK /\ StatusFollowsPieces
  BY DEF EquipmentIInv, RowFits, StatusFollowsPieces

LEMMA EquipmentInitInv == EquipmentInit => EquipmentIInv
<1> SUFFICES ASSUME EquipmentInit PROVE EquipmentIInv
  OBVIOUS
<1>1. NoRequest \in HandlerRecords /\ Recalls(NoRequest, rental)
  BY DEF NoRequest, HandlerRecords, StockStatus, Recalls, Movements
<1>2. EquipmentTypeOK
  BY <1>1 DEF EquipmentInit, EquipmentTypeOK, StockStatus, RentalRecords
<1> QED
  BY <1>1, <1>2 DEF EquipmentInit, EquipmentIInv, RowFits

-----------------------------------------------------------------------------
\* How a step changes the rows and the requests.

\* A rental that moves on keeps what any request recalls of it.
MovesOn(old, new) ==
    old.status # "NONE" =>
       /\ new.status # "NONE" /\ new.items = old.items
       /\ old.paid => new.paid
       /\ old.status \in {"ACTIVE", "RETURNED"} => new.status \in {"ACTIVE", "RETURNED"}

LEMMA RecallsKept ==
    ASSUME NEW request, NEW rows, NEW later, Recalls(request, rows),
           \A r \in Rentals : MovesOn(rows[r], later[r])
    PROVE  Recalls(request, later)
  BY DEF Recalls, MovesOn

\* A request begins, or reads on, or ends.
LEMMA OnlyRequest ==
    ASSUME EquipmentIInv, NEW h \in Handlers, NEW request \in HandlerRecords, Recalls(request, rental),
           handler' = [handler EXCEPT ![h] = request], UNCHANGED rental,
           stock' \in [Assets -> StockStatus], unfit' \subseteq Assets
    PROVE  EquipmentIInv'
<1>1. \A k \in Handlers : handler'[k] = IF k = h THEN request ELSE handler[k]
  BY DEF EquipmentIInv, EquipmentTypeOK
<1>2. handler' \in [Handlers -> HandlerRecords]
  BY DEF EquipmentIInv, EquipmentTypeOK
<1> QED
  BY <1>1, <1>2 DEF EquipmentIInv, EquipmentTypeOK

\* A request writes a row of a rental and ends.
LEMMA RowWritten ==
    ASSUME EquipmentIInv, NEW h \in Handlers, NEW r \in Rentals, NEW row \in RentalRecords,
           rental' = [rental EXCEPT ![r] = row], RowFits(row), MovesOn(rental[r], row), Ends(h),
           stock' \in [Assets -> StockStatus], UNCHANGED unfit
    PROVE  EquipmentIInv'
<1>1. NoRequest \in HandlerRecords /\ Recalls(NoRequest, rental')
  BY DEF NoRequest, HandlerRecords, StockStatus, Recalls, Movements
<1>2. \A k \in Handlers : handler'[k] = IF k = h THEN NoRequest ELSE handler[k]
  BY DEF EquipmentIInv, EquipmentTypeOK, Ends
<1>3. \A q \in Rentals : rental'[q] = IF q = r THEN row ELSE rental[q]
  BY DEF EquipmentIInv, EquipmentTypeOK
<1>4. handler' \in [Handlers -> HandlerRecords] /\ rental' \in [Rentals -> RentalRecords]
  BY <1>1 DEF EquipmentIInv, EquipmentTypeOK, Ends
<1>5. \A q \in Rentals : MovesOn(rental[q], rental'[q])
  BY <1>3 DEF MovesOn
<1>6. ASSUME NEW k \in Handlers PROVE Recalls(handler'[k], rental')
  <2>1. CASE k = h
    BY <2>1, <1>1, <1>2
  <2>2. CASE k # h
    <3>1. Recalls(handler[k], rental)
      BY DEF EquipmentIInv
    <3> QED
      BY <3>1, <1>5, <2>2, <1>2, RecallsKept
  <2> QED
    BY <2>1, <2>2
<1>7. \A q \in Rentals : RowFits(rental'[q])
  BY <1>3 DEF EquipmentIInv
<1>8. EquipmentTypeOK'
  BY <1>4, <1>7 DEF EquipmentTypeOK, RowFits, EquipmentIInv
<1> QED
  BY <1>6, <1>7, <1>8 DEF EquipmentIInv

\* Only the stock or the inspections move.
LEMMA OnlyStock ==
    ASSUME EquipmentIInv, UNCHANGED <<rental, handler>>,
           stock' \in [Assets -> StockStatus], unfit' \subseteq Assets
    PROVE  EquipmentIInv'
  BY DEF EquipmentIInv, EquipmentTypeOK

-----------------------------------------------------------------------------
\* The steps.

LEMMA BeginsCreate ==
    ASSUME EquipmentIInv, NEW h \in Handlers, NEW S \in (SUBSET Assets) \ {{}},
           BeginCreate(h, S)
    PROVE  EquipmentIInv'
<1> USE DEF Starts, NoRequest
<1> DEFINE request == [NoRequest EXCEPT !.does = "create", !.items = S, !.left = S]
<1>1. request \in HandlerRecords /\ Recalls(request, rental)
  BY DEF HandlerRecords, StockStatus, Recalls, Movements
<1>2. /\ handler' = [handler EXCEPT ![h] = request]
      /\ UNCHANGED rental /\ stock' \in [Assets -> StockStatus] /\ unfit' \subseteq Assets
  BY DEF BeginCreate, EquipmentIInv, EquipmentTypeOK
<1> HIDE DEF request
<1> QED
  BY <1>1, <1>2, OnlyRequest

LEMMA BeginsPay ==
    ASSUME EquipmentIInv, NEW h \in Handlers, NEW r \in Rentals,
           BeginPay(h, r)
    PROVE  EquipmentIInv'
<1> USE DEF Starts, NoRequest
<1> DEFINE request == [NoRequest EXCEPT !.does = "pay", !.rental = r, !.items = rental[r].items,
                                          !.left = rental[r].items, !.inspects = TRUE]
<1>1. rental[r].items \in SUBSET Assets /\ rental[r].status # "NONE"
  BY DEF BeginPay, EquipmentIInv, EquipmentTypeOK, RentalRecords
<1>2. request \in HandlerRecords /\ Recalls(request, rental)
  BY <1>1 DEF HandlerRecords, StockStatus, Recalls, Movements
<1> QED
  BY <1>2, OnlyRequest DEF BeginPay, EquipmentIInv, EquipmentTypeOK

LEMMA BeginsScan ==
    ASSUME EquipmentIInv, NEW h \in Handlers, NEW r \in Rentals, NEW a \in Assets,
           BeginScan(h, r, a)
    PROVE  EquipmentIInv'
<1> USE DEF Starts, NoRequest
<1> DEFINE request == [NoRequest EXCEPT !.does = "scan", !.rental = r, !.items = {a}, !.inspects = TRUE]
<1>1. a \in rental[r].items /\ rental[r].paid /\ rental[r].status # "NONE"
  BY DEF BeginScan
<1>2. request \in HandlerRecords /\ Recalls(request, rental)
  BY <1>1 DEF HandlerRecords, StockStatus, Recalls, Movements
<1> QED
  BY <1>2, OnlyRequest DEF BeginScan, EquipmentIInv, EquipmentTypeOK

LEMMA BeginsReturn ==
    ASSUME EquipmentIInv, NEW h \in Handlers, NEW r \in Rentals, NEW a \in Assets,
           BeginReturn(h, r, a)
    PROVE  EquipmentIInv'
<1> USE DEF Starts, NoRequest
<1> DEFINE request == [NoRequest EXCEPT !.does = "return", !.rental = r, !.items = {a}]
<1>1. a \in rental[r].items /\ rental[r].status = "ACTIVE"
  BY DEF BeginReturn
<1>2. request \in HandlerRecords /\ Recalls(request, rental)
  BY <1>1 DEF HandlerRecords, StockStatus, Recalls, Movements
<1> QED
  BY <1>2, OnlyRequest DEF BeginReturn, EquipmentIInv, EquipmentTypeOK

LEMMA BeginsMove ==
    ASSUME EquipmentIInv, NEW h \in Handlers, NEW a \in Assets, NEW movement \in Movements,
           BeginMove(h, a, movement)
    PROVE  EquipmentIInv'
<1> USE DEF Starts, NoRequest
<1> DEFINE request == [NoRequest EXCEPT !.does = movement, !.items = {a}, !.seen = stock[a],
                                          !.inspects = movement = "CHECK_OUT"]
<1>1. stock[a] \in StockStatus /\ Movable(movement, stock[a])
  BY DEF BeginMove, EquipmentIInv, EquipmentTypeOK
<1>2. request \in HandlerRecords
  BY <1>1 DEF HandlerRecords
<1>3. Recalls(request, rental)
  BY <1>1 DEF Recalls, Movements
<1> QED
  BY <1>2, <1>3, OnlyRequest DEF BeginMove, EquipmentIInv, EquipmentTypeOK

LEMMA Finds ==
    ASSUME EquipmentIInv, NEW h \in Handlers, NEW a \in Assets, FindAvailable(h, a)
    PROVE  EquipmentIInv'
<1>1. handler[h] \in HandlerRecords /\ Recalls(handler[h], rental)
  BY DEF EquipmentIInv, EquipmentTypeOK
<1> DEFINE request == [handler[h] EXCEPT !.left = handler[h].left \ {a}]
<1>2. request \in HandlerRecords /\ Recalls(request, rental)
  BY <1>1 DEF HandlerRecords, Recalls
<1>3. handler' = [handler EXCEPT ![h] = request]
  BY DEF FindAvailable
<1> QED
  BY <1>2, <1>3, OnlyRequest DEF FindAvailable, EquipmentIInv, EquipmentTypeOK

LEMMA FindsFit ==
    ASSUME EquipmentIInv, NEW h \in Handlers, FindFit(h)
    PROVE  EquipmentIInv'
<1>1. handler[h] \in HandlerRecords /\ Recalls(handler[h], rental)
  BY DEF EquipmentIInv, EquipmentTypeOK
<1> DEFINE request == [handler[h] EXCEPT !.inspects = FALSE]
<1>2. request \in HandlerRecords /\ Recalls(request, rental)
  BY <1>1 DEF HandlerRecords, Recalls
<1>3. handler' = [handler EXCEPT ![h] = request]
  BY DEF FindFit
<1> QED
  BY <1>2, <1>3, OnlyRequest DEF FindFit, EquipmentIInv, EquipmentTypeOK

LEMMA GivesUp ==
    ASSUME EquipmentIInv, NEW h \in Handlers, GiveUp(h)
    PROVE  EquipmentIInv'
<1>1. NoRequest \in HandlerRecords /\ Recalls(NoRequest, rental)
  BY DEF NoRequest, HandlerRecords, StockStatus, Recalls, Movements
<1> QED
  BY <1>1, OnlyRequest DEF GiveUp, Ends, EquipmentIInv, EquipmentTypeOK

LEMMA Creates ==
    ASSUME EquipmentIInv, NEW h \in Handlers, NEW r \in Rentals, Create(h, r)
    PROVE  EquipmentIInv'
<1> DEFINE row == [rental[r] EXCEPT !.status = "RESERVED", !.items = handler[h].items]
<1>1. rental[r] \in RentalRecords /\ RowFits(rental[r]) /\ rental[r].status = "NONE"
  BY DEF EquipmentIInv, EquipmentTypeOK, Create
<1>2. handler[h].items \in SUBSET Assets /\ handler[h].items # {}
  BY DEF EquipmentIInv, EquipmentTypeOK, HandlerRecords, Create, Ready, Recalls
<1>3. row \in RentalRecords /\ RowFits(row) /\ MovesOn(rental[r], row)
  BY <1>1, <1>2 DEF RentalRecords, RowFits, MovesOn
<1>4. rental' = [rental EXCEPT ![r] = row]
  BY DEF Create
<1> QED
  BY <1>3, <1>4, RowWritten DEF Create, EquipmentIInv, EquipmentTypeOK

LEMMA Pays ==
    ASSUME EquipmentIInv, NEW h \in Handlers, Pay(h)
    PROVE  EquipmentIInv'
<1>1. Recalls(handler[h], rental) /\ handler[h].does = "pay"
  BY DEF EquipmentIInv, Pay, Ready
<1>2. PICK r \in Rentals : r = handler[h].rental /\ rental[r].status # "NONE"
  BY <1>1 DEF Recalls
<1> DEFINE row == [rental[r] EXCEPT !.paid = TRUE]
<1>3. rental[r] \in RentalRecords /\ RowFits(rental[r])
  BY DEF EquipmentIInv, EquipmentTypeOK
<1>4. row \in RentalRecords /\ RowFits(row) /\ MovesOn(rental[r], row)
  BY <1>2, <1>3 DEF RentalRecords, RowFits, MovesOn
<1>5. rental' = [rental EXCEPT ![r] = row]
  BY <1>2 DEF Pay
<1> QED
  BY <1>4, <1>5, RowWritten DEF Pay, EquipmentIInv, EquipmentTypeOK

LEMMA Scans ==
    ASSUME EquipmentIInv, NEW h \in Handlers, Scan(h)
    PROVE  EquipmentIInv'
<1>1. Recalls(handler[h], rental) /\ handler[h].does = "scan"
  BY DEF EquipmentIInv, Scan, Ready
<1>2. PICK r \in Rentals : r = handler[h].rental /\ rental[r].status # "NONE" /\ rental[r].paid
  BY <1>1 DEF Recalls
<1>3. PICK a \in Assets : handler[h].items = {a} /\ a \in rental[r].items
  BY <1>1, <1>2 DEF Recalls
<1>4. AssetOf(h) = a
  BY <1>3 DEF AssetOf
<1> DEFINE out == rental[r].out \cup {a}
           row == [rental[r] EXCEPT !.out = out,
                                    !.status = IF out = rental[r].items THEN "ACTIVE" ELSE rental[r].status]
<1>5. rental[r] \in RentalRecords /\ RowFits(rental[r])
  BY DEF EquipmentIInv, EquipmentTypeOK
<1>6. row \in RentalRecords
  BY <1>5, <1>3 DEF RentalRecords
<1>7. RowFits(row)
  BY <1>2, <1>3, <1>5 DEF RentalRecords, RowFits
<1>8. MovesOn(rental[r], row)
  BY <1>2, <1>5 DEF RentalRecords, MovesOn
<1>9. /\ rental' = [rental EXCEPT ![r] = row] /\ Ends(h) /\ UNCHANGED unfit
      /\ stock' \in [Assets -> StockStatus]
  BY <1>2, <1>4 DEF Scan, EquipmentIInv, EquipmentTypeOK, StockStatus
<1> QED
  BY <1>6, <1>7, <1>8, <1>9, RowWritten

LEMMA Returns ==
    ASSUME EquipmentIInv, NEW h \in Handlers, NEW condition, Return(h, condition)
    PROVE  EquipmentIInv'
<1>1. Recalls(handler[h], rental) /\ handler[h].does = "return"
  BY DEF EquipmentIInv, Return, Ready
<1>2. PICK r \in Rentals : r = handler[h].rental /\ rental[r].status \in {"ACTIVE", "RETURNED"}
  BY <1>1 DEF Recalls
<1>3. PICK a \in Assets : handler[h].items = {a} /\ a \in rental[r].items
  BY <1>1, <1>2 DEF Recalls
<1>4. AssetOf(h) = a
  BY <1>3 DEF AssetOf
<1> DEFINE back == rental[r].back \cup {a}
           row == [rental[r] EXCEPT !.back = back,
                                    !.status = IF back = rental[r].items THEN "RETURNED" ELSE rental[r].status]
<1>5. rental[r] \in RentalRecords /\ RowFits(rental[r])
  BY DEF EquipmentIInv, EquipmentTypeOK
<1>6. row \in RentalRecords
  BY <1>5, <1>3 DEF RentalRecords
<1>7. RowFits(row)
  BY <1>2, <1>3, <1>5 DEF RentalRecords, RowFits
<1>8. MovesOn(rental[r], row)
  BY <1>2, <1>5 DEF RentalRecords, MovesOn
<1>9. /\ rental' = [rental EXCEPT ![r] = row] /\ Ends(h) /\ UNCHANGED unfit
      /\ stock' \in [Assets -> StockStatus]
  BY <1>2, <1>4 DEF Return, EquipmentIInv, EquipmentTypeOK, StockStatus
<1> QED
  BY <1>6, <1>7, <1>8, <1>9, RowWritten

LEMMA AfterMovement == \A movement \in Movements : StatusAfter(movement) \in StockStatus
  BY DEF Movements, StatusAfter, StockStatus

LEMMA Moves ==
    ASSUME EquipmentIInv, NEW h \in Handlers, Move(h)
    PROVE  EquipmentIInv'
<1>1. NoRequest \in HandlerRecords /\ Recalls(NoRequest, rental)
  BY DEF NoRequest, HandlerRecords, StockStatus, Recalls, Movements
<1>2. stock' \in [Assets -> StockStatus]
  BY AfterMovement DEF Move, EquipmentIInv, EquipmentTypeOK
<1> QED
  BY <1>1, <1>2, OnlyRequest DEF Move, Ends, EquipmentIInv, EquipmentTypeOK

LEMMA Inspects ==
    ASSUME EquipmentIInv, NEW a \in Assets, InspectionOfCenter(a) \/ Inspection(a)
    PROVE  EquipmentIInv'
<1>1. stock \in [Assets -> StockStatus] /\ unfit \subseteq Assets /\ "QUARANTINED" \in StockStatus
  BY DEF EquipmentIInv, EquipmentTypeOK, StockStatus
<1>2. CASE InspectionOfCenter(a)
  BY <1>1, <1>2, OnlyStock DEF InspectionOfCenter
<1>3. CASE Inspection(a)
  BY <1>1, <1>3, OnlyStock DEF Inspection
<1> QED
  BY <1>2, <1>3

LEMMA MovesOfCenter ==
    ASSUME EquipmentIInv, NEW a \in Assets, NEW movement \in Movements, MoveOfCenter(a, movement)
    PROVE  EquipmentIInv'
<1>1. stock' \in [Assets -> StockStatus] /\ unfit' \subseteq Assets
  BY AfterMovement DEF EquipmentIInv, EquipmentTypeOK, MoveOfCenter
<1> QED
  BY <1>1, OnlyStock DEF MoveOfCenter

LEMMA EquipmentStep == EquipmentIInv /\ [EquipmentNext]_equipmentVars => EquipmentIInv'
<1> SUFFICES ASSUME EquipmentIInv, [EquipmentNext]_equipmentVars PROVE EquipmentIInv'
  OBVIOUS
<1>1. CASE UNCHANGED equipmentVars
  BY <1>1, OnlyStock DEF equipmentVars, EquipmentIInv, EquipmentTypeOK
<1>2. CASE EquipmentNext
  <2>1. CASE \E h \in Handlers : \/ \E S \in (SUBSET Assets) \ {{}} : BeginCreate(h, S)
                                 \/ \E r \in Rentals : BeginPay(h, r) \/ Create(h, r)
    BY <2>1, BeginsCreate, BeginsPay, Creates
  <2>2. CASE \E h \in Handlers : \E r \in Rentals, a \in Assets : BeginScan(h, r, a) \/ BeginReturn(h, r, a)
    BY <2>2, BeginsScan, BeginsReturn
  <2>3. CASE \E h \in Handlers, a \in Assets :
                FindAvailable(h, a) \/ \E movement \in Movements : BeginMove(h, a, movement)
    BY <2>3, Finds, BeginsMove
  <2>4. CASE \E h \in Handlers : \/ FindFit(h) \/ Pay(h) \/ Scan(h) \/ Move(h) \/ GiveUp(h)
                                 \/ \E condition \in {"OK", "DAMAGED"} : Return(h, condition)
    BY <2>4, FindsFit, Pays, Scans, Moves, GivesUp, Returns
  <2>5. CASE \E a \in Assets : \/ InspectionOfCenter(a) \/ Inspection(a)
                               \/ \E movement \in Movements : MoveOfCenter(a, movement)
    BY <2>5, Inspects, MovesOfCenter
  <2> QED
    BY <1>2, <2>1, <2>2, <2>3, <2>4, <2>5 DEF EquipmentNext
<1> QED
  BY <1>1, <1>2

LEMMA EquipmentInvariant == EquipmentSpec => []EquipmentIInv
<1> QED
  BY EquipmentInitInv, EquipmentStep, PTL DEF EquipmentSpec

-----------------------------------------------------------------------------
\* The results.

\* Every row of the warehouse keeps its type, and only what was handed over comes back.
THEOREM EquipmentTypes == EquipmentSpec => []EquipmentTypeOK
<1> QED
  BY EquipmentInvariant, EquipmentPromises, PTL

\* Whoever scans the last piece, a rental is reserved until all of it was handed over, and closed
\* only when all of it is back.
THEOREM StatusOfRentals == EquipmentSpec => []StatusFollowsPieces
<1> QED
  BY EquipmentInvariant, EquipmentPromises, PTL

LEMMA WithdrawnStep ==
    ASSUME EquipmentIInv, [EquipmentNext]_equipmentVars, NEW a \in Assets
    PROVE  /\ stock[a] = "RETIRED" => stock'[a] = "RETIRED"
           /\ stock[a] \in {"QUARANTINED", "MAINTENANCE"} => stock'[a] # "CHECKED_OUT"
<1>1. stock \in [Assets -> StockStatus]
  BY DEF EquipmentIInv, EquipmentTypeOK
<1>2. CASE UNCHANGED stock
  BY <1>2
<1>3. CASE \E h \in Handlers : Scan(h) \/ \E condition \in {"OK", "DAMAGED"} : Return(h, condition)
  <2>1. PICK h \in Handlers : Scan(h) \/ \E condition \in {"OK", "DAMAGED"} : Return(h, condition)
    BY <1>3
  <2>2. PICK u, v : stock[u] \in {"AVAILABLE", "CHECKED_OUT"} /\ stock' = [stock EXCEPT ![u] = v]
    BY <2>1 DEF Scan, Return
  <2> QED
    BY <2>2, <1>1
<1>4. CASE \E h \in Handlers : Move(h)
  <2>1. PICK h \in Handlers, movement \in Movements :
              /\ handler[h].does = movement /\ stock[AssetOf(h)] = handler[h].seen
              /\ stock' = [stock EXCEPT ![AssetOf(h)] = StatusAfter(movement)]
    BY <1>4 DEF Move, Ready
  <2>2. Movable(movement, stock[AssetOf(h)])
    BY <2>1 DEF EquipmentIInv, Recalls
  <2> QED
    BY <2>1, <2>2, <1>1 DEF Movable, StatusAfter, Movements
<1>5. CASE \E b \in Assets, movement \in Movements : MoveOfCenter(b, movement)
  BY <1>5, <1>1 DEF MoveOfCenter, Movable, StatusAfter, Movements
<1>6. CASE \E b \in Assets : InspectionOfCenter(b)
  BY <1>6, <1>1 DEF InspectionOfCenter
<1>7. \/ UNCHANGED stock
      \/ \E h \in Handlers : Scan(h) \/ \E condition \in {"OK", "DAMAGED"} : Return(h, condition)
      \/ \E h \in Handlers : Move(h)
      \/ \E b \in Assets, movement \in Movements : MoveOfCenter(b, movement)
      \/ \E b \in Assets : InspectionOfCenter(b)
  BY DEF EquipmentNext, equipmentVars, BeginCreate, BeginPay, Create, BeginScan, BeginReturn,
         FindAvailable, BeginMove, FindFit, Pay, GiveUp, Inspection, Starts
<1> QED
  BY <1>2, <1>3, <1>4, <1>5, <1>6, <1>7

\* A retired asset stays retired, and none in quarantine or maintenance is handed out, by whatever
\* request that looked at it before.
THEOREM WithdrawnIsNotHandedOut == EquipmentSpec => WithdrawnStays
<1>1. EquipmentIInv /\ [EquipmentNext]_equipmentVars =>
        [\A a \in Assets :
            /\ stock[a] = "RETIRED" => stock'[a] = "RETIRED"
            /\ stock[a] \in {"QUARANTINED", "MAINTENANCE"} => stock'[a] # "CHECKED_OUT"]_equipmentVars
  BY WithdrawnStep
<1> QED
  BY <1>1, EquipmentInvariant, PTL DEF EquipmentSpec, WithdrawnStays

=============================================================================
