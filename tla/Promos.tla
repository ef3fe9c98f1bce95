------------------------------- MODULE Promos -------------------------------
(***************************************************************************)
(* The venue's clock and the promotions on it: the owner's page, the rows  *)
(* it makes, and the price apply_promo works out of them at any minute     *)
(* (venue_time.py, promo_service.py).  Time is counted in ticks; a night   *)
(* runs from the tick of the rollover to the next day's.  Which items a    *)
(* promo is for is left out: the page makes promos for all of them.        *)
(***************************************************************************)
EXTENDS Integers, Sequences, FiniteSetsExt, Functions

CONSTANTS
  Ticks,      \* of a day
  Rollover,   \* BUSINESS_DAY_START_HOUR, as a tick of the day
  Week,       \* days after which the weekdays start again
  LastTick,   \* where the clock stops
  Windows,    \* <<start, end>>, ticks of a day
  DayLists,   \* the sets of weekdays that can be chosen; none means all
  Discounts,  \* percentages
  MaxPromos   \* promos a behaviour makes

VARIABLES
  now,     \* ticks since a midnight
  promos,  \* the rows, in the order they were made; Deleted once it is
  page     \* the owner's page

pricing == <<now, promos, page>>

-----------------------------------------------------------------------------
\* The price.

ClockOf(t) == t % Ticks

\* Mutant: the date on the calendar.
CalendarDate(t) == t \div Ticks

\* business_date: the small hours belong to the night before.
BusinessDate(t) == IF ClockOf(t) < Rollover THEN (t \div Ticks) - 1 ELSE t \div Ticks
Weekday(t)      == BusinessDate(t) % Week

InWindow(c, start, end) ==
  CASE start = end -> TRUE
    [] start < end -> start <= c /\ c <= end
    [] OTHER       -> c >= start \/ c <= end

Runs(p, t) ==
  /\ InWindow(ClockOf(t), p.start, p.end)
  /\ p.days = {} \/ Weekday(t) \in p.days

\* apply_promo: the best discount, they do not add up.
Best(ps) == Max({0} \union {p.pct : p \in ps})
Price(t) == 100 - Best({p \in Range(promos) : Runs(p, t)})

-----------------------------------------------------------------------------
\* The owner's page.

Deleted == [start |-> 0, end |-> 0, days |-> {}, pct |-> 0]
Entries == {[start |-> w[1], end |-> w[2], days |-> d, pct |-> c] :
              w \in Windows, d \in DayLists, c \in Discounts}

NewPromo ==
  /\ ~page.open
  /\ page' = [page EXCEPT !.open = TRUE]
  /\ UNCHANGED <<now, promos>>

Cancel ==
  /\ page.open
  /\ page' = [page EXCEPT !.open = FALSE]
  /\ UNCHANGED <<now, promos>>

\* Name, discount, times and the days toggled.  The button can be pressed again
\* while the first request is on its way.
CreatePromo(e) ==
  /\ page.open
  /\ Len(promos) + Len(page.posts) < MaxPromos
  /\ page' = [page EXCEPT !.posts = Append(@, e)]
  /\ UNCHANGED <<now, promos>>

\* What the list shows after a reload, which may fail.
Reloaded(rows) == {page.listed, {i \in DOMAIN rows : rows[i] # Deleted}}

\* The row is made, and the form closed whatever is in it by now.
Created ==
  /\ page.posts # <<>>
  /\ promos' = Append(promos, Head(page.posts))
  /\ \E l \in Reloaded(promos') :
       page' = [page EXCEPT !.posts = Tail(@), !.open = FALSE, !.listed = l]
  /\ UNCHANGED now

CreateFails ==
  /\ page.posts # <<>>
  /\ page' = [page EXCEPT !.posts = Tail(@)]
  /\ UNCHANGED <<now, promos>>

\* A promo that is gone already is deleted like any other.
DeletePromo(i) ==
  /\ i \in page.listed
  /\ promos' = [promos EXCEPT ![i] = Deleted]
  /\ \E l \in Reloaded(promos') : page' = [page EXCEPT !.listed = l]
  /\ UNCHANGED now

Tick ==
  /\ now < LastTick
  /\ now' = now + 1
  /\ UNCHANGED <<promos, page>>

PromosInit ==
  /\ now = 0 /\ promos = <<>>
  /\ page = [open |-> FALSE, posts |-> <<>>, listed |-> {}]

PromosNext ==
  \/ NewPromo \/ Cancel \/ Created \/ CreateFails
  \/ \E e \in Entries : CreatePromo(e)
  \/ \E i \in page.listed : DeletePromo(i)
  \/ Tick

-----------------------------------------------------------------------------
\* A promo as it is put on a poster: on each of its nights it opens at its
\* start, in the small hours after midnight if that is where it lies, and
\* closes at the first tick after that which is its end; with no width it is
\* there all night.
AllNight(p)  == p.start = p.end
Opens(p, night) ==
  night * Ticks + (IF AllNight(p) THEN Rollover
                   ELSE IF p.start < Rollover THEN p.start + Ticks ELSE p.start)
Lasts(p)     == IF AllNight(p) THEN Ticks - 1 ELSE (p.end - p.start) % Ticks
OnNight(p, night) == p.days = {} \/ night % Week \in p.days
Advertised(p, t) ==
  \E night \in -1 .. LastTick \div Ticks :
    OnNight(p, night) /\ Opens(p, night) <= t /\ t <= Opens(p, night) + Lasts(p)

\* A window with the rollover inside it changes its weekday on the way: no
\* poster says that.
Plain(p) == AllNight(p) \/ ((p.start - Rollover) % Ticks) + Lasts(p) < Ticks

\* "A promo advertised as 'Friday, 10pm till 2am' is one Friday promo, not two
\* windows on two days" (venue_time.py:12-14): at every minute the price is that
\* of the best promo on its poster, however windows wrap and nights roll.
PricedAsAdvertised ==
  (\A p \in Range(promos) : p # Deleted => Plain(p)) =>
    Price(now) = 100 - Best({p \in Range(promos) : Advertised(p, now)})

\* What the proof needs of the rows: each was put together from the windows,
\* days and discounts of the form, or is deleted.
PromosInv ==
  /\ now \in 0 .. LastTick
  /\ promos \in Seq(Entries \union {Deleted})
  /\ page \in [open : BOOLEAN, posts : Seq(Entries), listed : SUBSET Nat]
=============================================================================
