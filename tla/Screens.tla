------------------------------- MODULE Screens -------------------------------
(***************************************************************************)
(* The screens and the services of one page, each by itself: they share no *)
(* state, so that a behaviour picks one of them at the start and the       *)
(* others stay as they are.  The modules' names overlap: two are extended, *)
(* each of the others is an instance with a prefix of its own.             *)
(***************************************************************************)
EXTENDS GuestChannel, Shifts

CONSTANTS
  Shown,   \* the screens to look into
  Dishes, Cooked, MaxCart, MaxRounds, MaxSessions, MaxNights, Bills,
  MaxAnswers, MaxUndone, NightOrders, MaxLines, MaxTimers,
  Guests, MaxPosts, Screens, MaxTaps, Orders, MaxLists, MaxAlertLists, Chips, Typed,
  MaxReads, Calls, Mine, Stations, MaxAcks, ServiceTables, MaxSheets,
  MaxSends, Attendants, Zones,
  MaxFetches, MaxSaves, People, MaxFlights, MaxResets, Ticks, Rollover,
  Week, LastTick, Discounts, MaxPromos, Pins, MaxAsks, MaxPasswords, Pack,
  Openings, MaxShelf, MaxMoves,
  HomeOf, TableOf, CategoryOf, Windows, DayLists

\* What the proofs ask of them.  The chips are 1 to 6 (CoversPicker.tsx:29), what
\* is typed is a number; the names that stand for nobody and for no call are
\* nobody's and no call's; a station is none of the account pages
\* (AuthGuard.tsx:47-57); somebody works here, and there are PINs to be had; rounds
\* are counted, a menu is finite; the form takes times of a day (tonight page), and
\* so is the hour of the rollover; a crate holds a bottle or more, and what a shelf
\* opens with is a number.
ASSUME CountsAreNumbers   == Chips \subseteq 1 .. 200 /\ Typed \subseteq Nat
ASSUME CallsAreNamed      == "none" \notin Calls
ASSUME ListsAndSheets     == MaxAlertLists \in Nat \ {0} /\ MaxSheets \in Nat
ASSUME PeopleAreNamed     == "nobody" \notin People
ASSUME HomesAreStations   ==
  \A p \in People : HomeOf[p] \notin {"root", "login", "pin", "register", "reset"}
ASSUME StaffHavePins      == People # {} /\ Pins # {}
ASSUME RoundsAreCounted   == MaxRounds \in Nat
ASSUME MenuIsFinite       == IsFiniteSet(Dishes)
ASSUME CratesHoldBottles  == Pack \in Nat \ {0} /\ Openings \subseteq Nat
ASSUME TimesAreOfADay     ==
  /\ Ticks \in Nat \ {0} /\ Rollover \in 0 .. Ticks - 1 /\ LastTick \in Nat
  /\ \A w \in Windows : w[1] \in 0 .. Ticks - 1 /\ w[2] \in 0 .. Ticks - 1

VARIABLES
  which,  \* the screen of this behaviour
  phone, wire, stored, made, table, night,
  bill, answers, due, undone, late,
  till, posted, owing, charge, onTick, slips,
  door, scans, passes, front, vouched, lapsed, doubled, lost,
  shows, stationCalls, queue, step, stamped, taps, hurried,
  pad, lists, patches, running, blind,
  covers, typing, save, headcount, reads, countsRaced,
  floor, alertLists, acks, alert, behind, let,
  sheet, sends, kept, rounds, told, torn, lostKeyed, between,
  plan, grid, fetches, saves, runs, meant, loose,
  tab, browser, flights, epoch, link, signedOut, refreshCrossed,
  now, promos, promoPage,
  desk, team, asked, asks, rosters, handed, given, beside, fumbled,
  store, bookings, posts, stock, shelf, truck, broken, moves, because

Visit   == INSTANCE GuestVisit
Bill    == INSTANCE GuestBill
Cashier == INSTANCE Till
Door    == INSTANCE DoorScreen
Ticket  == INSTANCE StationScreens WITH calls <- stationCalls
Floor   == INSTANCE FloorOrders
Covers  == INSTANCE CoversPicker WITH raced <- countsRaced
Summons == INSTANCE FloorCalls WITH lists <- alertLists, MaxLists <- MaxAlertLists
Sheet   == INSTANCE OrderSheet
Plan    == INSTANCE OwnerTables WITH Tables <- ServiceTables
Entry   == INSTANCE SignIn WITH kept <- browser, crossed <- refreshCrossed
Tonight == INSTANCE Promos WITH page <- promoPage
Team    == INSTANCE OwnerStaff
Room    == INSTANCE StockRoom

visitVars    == <<phone, wire, stored, made, table, night>>
billVars     == <<bill, answers, due, undone, late>>
cashierVars  == <<till, posted, owing, charge, onTick, slips>>
doorVars     == <<door, scans, passes, front, vouched, lapsed, doubled, lost>>
ticketVars   == <<shows, stationCalls, queue, step, stamped, taps, hurried>>
floorVars    == <<pad, lists, patches, running, blind>>
coversVars   == <<covers, typing, save, headcount, reads, countsRaced>>
summonsVars  == <<floor, alertLists, acks, alert, behind, let>>
sheetVars    == <<sheet, sends, kept, rounds, told, torn, lostKeyed,
                   between>>
planVars     == <<plan, grid, fetches, saves, runs, meant, loose>>
entryVars    == <<tab, browser, flights, epoch, link, signedOut,
                   refreshCrossed>>
tonightVars  == <<now, promos, promoPage>>
teamVars     == <<desk, team, asked, asks, rosters, handed, given, beside,
                   fumbled>>
roomVars     == <<store, bookings, posts, stock, shelf, truck, broken,
                   moves, because>>

vars == <<which, visitVars, billVars, channel, cashierVars, doorVars,
                ticketVars, floorVars, coversVars, summonsVars, sheetVars,
                shifts, planVars, entryVars, tonightVars, teamVars,
                roomVars>>

\* A screen that is not this behaviour's stays as it was at first.
Only(s) ==
  /\ s # "visit" => UNCHANGED visitVars
  /\ s # "bill" => UNCHANGED billVars
  /\ s # "channel" => UNCHANGED channel
  /\ s # "till" => UNCHANGED cashierVars
  /\ s # "door" => UNCHANGED doorVars
  /\ s # "stations" => UNCHANGED ticketVars
  /\ s # "floor" => UNCHANGED floorVars
  /\ s # "covers" => UNCHANGED coversVars
  /\ s # "calls" => UNCHANGED summonsVars
  /\ s # "sheet" => UNCHANGED sheetVars
  /\ s # "shifts" => UNCHANGED shifts
  /\ s # "tables" => UNCHANGED planVars
  /\ s # "signin" => UNCHANGED entryVars
  /\ s # "promos" => UNCHANGED tonightVars
  /\ s # "staff" => UNCHANGED teamVars
  /\ s # "store" => UNCHANGED roomVars

Init ==
  /\ which \in Shown
  /\ Visit!GuestInit
  /\ Bill!BillInit
  /\ ChannelInit
  /\ Cashier!TillInit
  /\ Door!DoorInit
  /\ Ticket!StationInit
  /\ Floor!FloorInit
  /\ Covers!PickerInit
  /\ Summons!CallsInit
  /\ Sheet!SheetInit
  /\ ShiftsInit
  /\ Plan!TablesInit
  /\ Entry!SignInInit
  /\ Tonight!PromosInit
  /\ Team!StaffInit
  /\ Room!StoreInit
  /\ which # "till" => charge = 1
  /\ which # "staff" => \A p \in DOMAIN team : team[p].active
  /\ which # "store" => stock = 1

Next ==
  /\ UNCHANGED which
  /\ Only(which)
  /\ \/ which = "visit" /\ Visit!GuestNext
     \/ which = "bill" /\ Bill!BillNext
     \/ which = "channel" /\ ChannelNext
     \/ which = "till" /\ Cashier!TillNext
     \/ which = "door" /\ Door!DoorNext
     \/ which = "stations" /\ Ticket!StationNext
     \/ which = "floor" /\ Floor!FloorNext
     \/ which = "covers" /\ Covers!PickerNext
     \/ which = "calls" /\ Summons!CallsNext
     \/ which = "sheet" /\ Sheet!SheetNext
     \/ which = "shifts" /\ ShiftsNext
     \/ which = "tables" /\ Plan!TablesNext
     \/ which = "signin" /\ Entry!SignInNext
     \/ which = "promos" /\ Tonight!PromosNext
     \/ which = "staff" /\ Team!StaffNext
     \/ which = "store" /\ Room!StoreNext

Spec == Init /\ [][Next]_vars

-----------------------------------------------------------------------------
\* An unpaid round of tonight that is on no bill the phone can open was still on
\* its way when the menu called its visit settled (table page:300-310).
StrandedNeedsOutbox == Visit!StrandedNeedsOutbox

\* The visit's line never claims more than the guest has sent (table page:396).
VisitNeverOverstates == Visit!VisitNeverOverstates

\* The bill page says goodbye only over orders that are paid and served, however
\* its answers cross, unless the venue took that back or the round was placed
\* with the page open (bill page:120-129).
GoodbyeIsTrue == Bill!GoodbyeIsTrue

\* A tick of "cash received" covers one cash payment, and one more for every
\* recorded payment that was left too soon or whose answer was lost (cashier
\* page:123-144).
TickCoversOnePayment == Cashier!TickCoversOnePayment

\* ALLOW on the guard's screen is for a pass that was shown valid and is spent now,
\* a refusal for one that was not valid or lapsed meanwhile; both are about the
\* guest in front if one scan was sent and answered (security page:67-82).
VerdictIsForGuest == Door!VerdictIsForGuest

\* A ticket line goes backwards only by taps made in a hurry (useOffline.tsx:85).
BackwardsNeedsHurry == Ticket!BackwardsNeedsHurry

\* A served line that is not on the bill was tapped, on the floor or at a station,
\* on a list that was behind or before a void overtook it (orders.py:256).
ServedIsBilled == Floor!ServedIsBilled

\* With nothing under way the headcount on the card is the one the venue has,
\* unless a list crossed a PATCH or an answer was lost (CoversPicker.tsx:43-60).
ShownIsSaved == Covers!ShownIsSaved

\* A guest's call that rang here is on this screen until somebody answers it
\* (staff page:159-185).
NobodyWaitsUnseen == Summons!NobodyWaitsUnseen

\* What the attendant was told is sent is what the table is billed for, and an
\* answer takes off the sheet only what was sent (TakeOrderSheet.tsx:76, 127-157).
SheetIsTrue == Sheet!SheetIsTrue

\* A table is covered by whom the owners put there, unless they asked on a card
\* that was behind, beside another request, or in vain (owner tables page:158-164).
TableIsAsMeant == Plan!TableIsAsMeant

\* A shared tablet acts as the person it shows, and as nobody after a sign-out
\* (lib/api.ts:26-37).
TokenIsTheScreens == Entry!TokenIsTheScreens

\* At every minute the price is that of the best promo on its poster, however
\* windows wrap and nights roll (venue_time.py:12-14, 39-80).
PricedAsAdvertised == Tonight!PricedAsAdvertised

\* A PIN or password on the owner's screen opens the account of the person it is
\* shown for, and no other (routers/staff.py:41-91, owner staff page:159-410).
HandedOverWorks == Team!HandedOverWorks

\* The stored level is what stands on the shelf, but for the named causes (owner
\* stock page:118-168, ReceiveDelivery.tsx:122-163).
LevelIsShelf == Room!LevelIsShelf
=============================================================================
