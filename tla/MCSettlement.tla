---------------------------- MODULE MCSettlement ----------------------------
(***************************************************************************)
(* Settlement on a trip of three nights. A base of bills that brings every *)
(* way of settling a line is combined with every folio of a family: two    *)
(* nights' rooms, as one charge or as two of the same price, a meal, and a *)
(* third charge that policy never pays or whose amount cannot be read,     *)
(* with taxes that do not divide evenly, with a discount, with a sum that  *)
(* does not add up, and with sums that cannot be read. Two small trips     *)
(* lose nothing to policy; one of them has mail that is not a bill.        *)
(***************************************************************************)
EXTENDS Settlement

Paper ==
    [file |-> 0, kind |-> "context", known |-> TRUE, label |-> "none", rows |-> <<>>,
     subtotal |-> Unread, total |-> Unread, parts |-> <<>>, merchant |-> "none",
     branded |-> FALSE, sender |-> "none", day |-> NoDay, clock |-> Unread, no |-> Unread,
     nights |-> 0, payer |-> "nobody", payment |-> "silent", hosted |-> FALSE, typed |-> <<>>]

Row(label, amount) == [label |-> label, amount |-> amount, day |-> 16]

\* An itemised ride of the claimant's, and one of a colleague's that states a total only.
Cab == [Paper EXCEPT !.file = 2, !.kind = "cab", !.label = "airport to hotel", !.total = 7,
                     !.parts = <<4, 2, 1>>, !.merchant = "uber", !.branded = TRUE,
                     !.sender = "uber", !.day = 16, !.clock = 5, !.payer = "claimant",
                     !.payment = "own"]
ColleaguesCab == [Paper EXCEPT !.file = 3, !.kind = "forward", !.label = "office to airport",
                               !.total = 6, !.merchant = "uber", !.branded = TRUE,
                               !.sender = "mehta", !.day = 17, !.clock = 8, !.payer = "other"]

\* Two flights on the company's card, one of them without a readable fare.
Ticket == [Paper EXCEPT !.file = 4, !.kind = "flight", !.merchant = "indigo", !.branded = TRUE,
                        !.sender = "travel desk", !.no = 71,
                        !.rows = <<[label |-> "outbound", amount |-> 40, day |-> 16],
                                   [label |-> "return", amount |-> Unread, day |-> 19]>>,
                        !.payer = "claimant", !.payment = "company"]

\* A photographed dinner that adds up, and one with guests.
Dinner == [Paper EXCEPT !.file = 5, !.kind = "restaurant", !.label = "dinner", !.subtotal = 7,
                        !.parts = <<1, 1>>, !.total = 9, !.merchant = "kitchen",
                        !.sender = "reddy", !.day = 16, !.clock = 20, !.no = 12]
HostedDinner == [Dinner EXCEPT !.file = 6, !.label = "dinner, 4 covers", !.hosted = TRUE,
                               !.day = 17, !.total = 9, !.no = 13, !.clock = 21]

\* A lunch of a vendor without a parser, and one of a colleague's that nothing could read, entered
\* by hand.
Lunch == [Paper EXCEPT !.file = 7, !.kind = "restaurant", !.known = FALSE, !.label = "lunch",
                       !.total = 4, !.sender = "cafe", !.day = 16, !.clock = 13]
TypedLunch == [Paper EXCEPT !.file = 7, !.kind = "restaurant", !.merchant = "cafe", !.day = 16,
                            !.payer = "other", !.payment = "own",
                            !.typed = <<[label |-> "lunch", amount |-> 4, day |-> 16,
                                         nights |-> 0]>>]
Promotion == [Paper EXCEPT !.file = 8]

\* The folio's family. A third charge is food by its label, or not, and never paid either way.
Rooms == {<<Row("room charge", 15)>>, <<Row("room charge", 7), Row("room charge", 7)>>}
Thirds == {<<>>, <<Row("laundry", 2)>>, <<Row("laundry", Unread), Row("mini bar snack", 3)>>}
FolioRows == {room \o <<Row("in-room dining", 5)>> \o third : room \in Rooms, third \in Thirds}
FolioOf(rows, subtotal, total) ==
    [Paper EXCEPT !.file = 9, !.kind = "hotel", !.label = "hotel stay", !.rows = rows,
                  !.subtotal = subtotal, !.total = total,
                  !.parts = IF Unread \in {subtotal, total} THEN <<>> ELSE <<total - subtotal>>,
                  !.sender = "park", !.day = 16, !.no = 1188, !.nights = 2,
                  !.payer = "claimant", !.payment = "own"]
FoliosOf(rows) ==
    LET sum == SumFunction(Amounts(Readable(rows)))
    IN  {FolioOf(rows, sum, sum + tax) : tax \in {-2, 1, 4}}
        \cup {FolioOf(rows, sum, Unread), FolioOf(rows, sum + 1, sum + 3),
              FolioOf(rows, Unread, sum + 3)}

Common == {Cab, ColleaguesCab, Ticket, Dinner}
WithFolio == {Common \cup extra \cup {folio} :
                extra \in {{Lunch, HostedDinner}, {TypedLunch}},
                folio \in UNION {FoliosOf(rows) : rows \in FolioRows}}
SmallAndFolio ==
    WithFolio \cup {{Cab, ColleaguesCab, Ticket, Promotion}, {Cab, ColleaguesCab, Dinner, TypedLunch}}

\* A trip of a folio and a lunch.
LunchAndFolio == {{Lunch, FolioOf(<<Row("room charge", 15)>>, 15, 19)}}

\* Every trip here is one of which the properties on forwards say something.
ASSUME NoTwins == \A trip \in SmallAndFolio \cup LunchAndFolio : Apart(trip)

Places == {1, 10}

\* The claimant forwards receipts from their own address.
Claimant == {"reddy"}
TripDays == 16..19
TripNights == 16..18
Room == {"room charge"}
Food == {"in-room dining", "mini bar snack"}
Lodging == {"room charge", "in-room dining", "hotel stay"}
Personal == {"laundry", "mini bar snack"}
=============================================================================
