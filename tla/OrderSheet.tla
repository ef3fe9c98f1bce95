----------------------------- MODULE OrderSheet -----------------------------
(***************************************************************************)
(* An attendant keys in a round for a table.  One key goes with one sheet, *)
(* not with one attempt: a double tap, a retry and a replay of the outbox  *)
(* are the same round.  The sheet can be closed while its round is on its  *)
(* way, and what an answer closes is the sheet that is open by then.       *)
(***************************************************************************)
EXTENDS Naturals, FiniteSets

CONSTANTS
  Dishes, CategoryOf,  \* the menu
  ServiceTables,       \* the tables that are in use
  MaxSheets,           \* sheets opened, each with a key of its own
  MaxSends             \* attempts to send a round

NoTable == "none"
Unsent  == {}

VARIABLES
  sheet,   \* the sheet on screen
  sends,   \* attempts on their way: what was sent and what the server said
  kept,    \* the outbox: rounds to be replayed, by key
  rounds,  \* the server: per key the round it stands for
  told,    \* rounds the attendant was told are sent or saved
  torn,    \* keys with an attempt that neither arrived for sure nor was saved
  lostKeyed, \* since a sheet was last opened: an answer took away what nobody had sent
  between  \* since then: a dish was keyed in with a round on its way

orderSheet == <<sheet, sends, kept, rounds, told, torn, lostKeyed, between>>

NoSheet == [on |-> FALSE, loaded |-> FALSE, table |-> NoTable, category |-> "all",
            basket |-> {}, key |-> 0, sending |-> FALSE]
Round(k, t, b) == [key |-> k, table |-> t, basket |-> b]
Keys    == 1 .. MaxSheets
Opened  == sheet.key

-----------------------------------------------------------------------------
\* The panels: first the table, then what they are having.

TableButtons == IF sheet.on /\ sheet.table = NoTable /\ sheet.loaded THEN ServiceTables ELSE {}
MenuOpen     == sheet.on /\ sheet.table # NoTable
Categories   == {"all"} \union {CategoryOf[d] : d \in Dishes}
Visible      == IF MenuOpen /\ sheet.loaded
                THEN {d \in Dishes : sheet.category \in {"all", CategoryOf[d]}} ELSE {}
\* The count and the button are about the whole basket, hidden dishes too.
SendButton   == MenuOpen /\ sheet.basket # {} /\ ~sheet.sending
BackButton   == MenuOpen

Server == UNCHANGED <<sends, kept, rounds, told, torn>>

\* Mutant: the key of the sheet before serves the next one.
SameKey == IF Opened = 0 THEN 1 ELSE Opened
NextKey == Opened + 1

OpenSheet ==
  /\ ~sheet.on /\ Opened < MaxSheets
  /\ sheet' = [NoSheet EXCEPT !.on = TRUE, !.key = NextKey]
  /\ between' = FALSE /\ lostKeyed' = FALSE
  /\ Server

\* Tables, dishes and categories; a failure leaves the sheet without.
Load ==
  /\ sheet.on /\ ~sheet.loaded
  /\ sheet' = [sheet EXCEPT !.loaded = TRUE]
  /\ Server /\ UNCHANGED <<lostKeyed, between>>

\* The cross is there while a round is on its way, too.
CloseSheet ==
  /\ sheet.on
  /\ sheet' = [NoSheet EXCEPT !.key = Opened]
  /\ Server /\ UNCHANGED <<lostKeyed, between>>

ChooseTable(t) ==
  /\ t \in TableButtons
  /\ sheet' = [sheet EXCEPT !.table = t]
  /\ Server /\ UNCHANGED <<lostKeyed, between>>

\* The basket stays, and so does the key.
Back ==
  /\ BackButton
  /\ sheet' = [sheet EXCEPT !.table = NoTable]
  /\ Server /\ UNCHANGED <<lostKeyed, between>>

ChooseCategory(c) ==
  /\ MenuOpen /\ c # sheet.category
  /\ sheet' = [sheet EXCEPT !.category = c]
  /\ Server /\ UNCHANGED <<lostKeyed, between>>

\* One more or one less.
Bump(d) ==
  /\ d \in Visible
  /\ sheet' = [sheet EXCEPT !.basket = IF d \in @ THEN @ \ {d} ELSE @ \union {d}]
  /\ between' = (between \/ sends # {})
  /\ Server /\ UNCHANGED lostKeyed

Send ==
  /\ SendButton
  /\ Cardinality(told) + Cardinality(sends) < MaxSends
  /\ sends' = sends \union {[round |-> Round(sheet.key, sheet.table, sheet.basket), said |-> "none"]}
  /\ sheet' = [sheet EXCEPT !.sending = TRUE]
  /\ UNCHANGED <<kept, rounds, told, torn, lostKeyed, between>>

-----------------------------------------------------------------------------
\* place_order: the key's round, if it has one; a refusal leaves the key free.
Placed(r) == rounds' = IF rounds[r.key] # Unsent THEN rounds ELSE [rounds EXCEPT ![r.key] = {r}]


SendServed(s) ==
  /\ s.said = "none"
  /\ \/ Placed(s.round) /\ sends' = (sends \ {s}) \union {[s EXCEPT !.said = "ok"]}
     \/ /\ rounds[s.round.key] = Unsent
        /\ UNCHANGED rounds /\ sends' = (sends \ {s}) \union {[s EXCEPT !.said = "refused"]}
  /\ UNCHANGED <<sheet, kept, told, torn, lostKeyed, between>>

\* onClose: the sheet that is open goes, with what it has in it.
Closed(s) == [NoSheet EXCEPT !.key = Opened]

\* The sheet stays open and can be sent again, if it still is the one.
Reopened(s) == IF sheet.on /\ sheet.key = s.round.key
               THEN [sheet EXCEPT !.sending = FALSE] ELSE sheet

\* What the answer takes off the screen, beside what it is about.
TakesAway(accepted) ==
  lostKeyed' = (lostKeyed \/ (sheet.on /\ ~sheet'.on /\ sheet.basket # {}
                  /\ \A r \in accepted : sheet.key # r.key \/ sheet.basket # r.basket))

SentToBar(s) ==
  /\ s.said = "ok"
  /\ sends' = sends \ {s} /\ told' = told \union {s.round}
  /\ sheet' = Closed(s) /\ TakesAway({s.round})
  /\ UNCHANGED <<kept, rounds, torn, between>>

\* The call fails, or its answer; the outbox saves the round.
SavedForLater(s) ==
  /\ sends' = sends \ {s} /\ told' = told \union {s.round}
  /\ kept' = kept \union {s.round}
  /\ sheet' = Closed(s) /\ TakesAway({s.round})
  /\ UNCHANGED <<rounds, torn, between>>

SendRefused(s) ==
  /\ s.said = "refused"
  /\ sends' = sends \ {s}
  /\ sheet' = Reopened(s) /\ TakesAway({})
  /\ UNCHANGED <<kept, rounds, told, torn, between>>

\* The call fails and the browser has no room for the outbox.
NotSaved(s) ==
  /\ sends' = sends \ {s} /\ torn' = torn \union {s.round.key}
  /\ sheet' = Reopened(s) /\ TakesAway({})
  /\ UNCHANGED <<kept, rounds, told, between>>

Replay(r) ==
  /\ kept' = kept \ {r}
  /\ Placed(r)
  /\ UNCHANGED <<sheet, sends, told, torn, lostKeyed, between>>

SheetInit ==
  /\ sheet = NoSheet /\ sends = {} /\ kept = {} /\ told = {} /\ torn = {}
  /\ rounds = [k \in Keys |-> Unsent]
  /\ lostKeyed = FALSE /\ between = FALSE

SheetNext ==
  \/ OpenSheet \/ Load \/ CloseSheet \/ Back \/ Send
  \/ \E t \in ServiceTables : ChooseTable(t)
  \/ \E c \in Categories : ChooseCategory(c)
  \/ \E d \in Dishes : Bump(d)
  \/ \E s \in sends : SendServed(s) \/ SentToBar(s) \/ SavedForLater(s) \/ SendRefused(s) \/ NotSaved(s)
  \/ \E r \in kept : Replay(r)

SheetSpec == SheetInit /\ [][SheetNext]_orderSheet

-----------------------------------------------------------------------------
\* What the attendant was told is sent is what the table is billed for.  One key
\* for a basket that can be changed between two attempts breaks that only when
\* the first attempt failed with nobody knowing whether it arrived.
ToldIsBilled ==
  \A r \in told : rounds[r.key] \in {Unsent, {r}} \/ r.key \in torn

\* An answer takes away what the attendant has keyed in only where it was keyed
\* in while a round was on its way.
KeyedIsKept == lostKeyed => between

\* The sheet, its answers and the toasts are true (TakeOrderSheet.tsx:127-157).
SheetIsTrue == ToldIsBilled /\ KeyedIsKept

\* Why: there is at most one attempt per key on its way, none once the attendant
\* was told or the sheet can be sent again, so that a key that is not torn stands
\* for one round; and what was keyed in beside an attempt is noted.
SheetTypeOK ==
  /\ DOMAIN sheet = DOMAIN NoSheet /\ sheet.key \in 0 .. MaxSheets
  /\ DOMAIN rounds = Keys /\ kept \subseteq told
  /\ \A s \in sends : s = [round |-> s.round, said |-> s.said]
KeysAreOpened ==
  /\ sheet.on => sheet.key > 0
  /\ \A s \in sends : s.round.key \in 1 .. sheet.key
  /\ \A r \in told : r.key \in 1 .. sheet.key
  /\ \A k \in Keys : k > sheet.key => rounds[k] = Unsent
OneAttempt ==
  /\ \A s, t \in sends : s.round.key = t.round.key => s = t
  /\ \A s \in sends, r \in told : s.round.key # r.key
  /\ \A r, q \in told : r.key = q.key => r = q
  /\ sheet.on => \A r \in told : r.key # sheet.key
  /\ sheet.on /\ ~sheet.sending => \A s \in sends : s.round.key # sheet.key
OneRound ==
  \A k \in Keys \ torn :
    rounds[k] # Unsent =>
      \/ \E s \in sends : s.said = "ok" /\ s.round.key = k /\ rounds[k] = {s.round}
      \/ \E r \in told : r.key = k /\ rounds[k] = {r}
KeyedBeside ==
  sheet.on /\ ~between =>
    \A s \in sends : sheet.basket = IF s.round.key = sheet.key THEN s.round.basket ELSE {}
SheetInv == SheetTypeOK /\ KeysAreOpened /\ OneAttempt /\ OneRound /\ KeyedBeside /\ KeyedIsKept
=============================================================================
