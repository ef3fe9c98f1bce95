------------------------------- MODULE SignIn -------------------------------
(***************************************************************************)
(* Who a station believes to be: the tokens in the browser's storage, the  *)
(* person in the page's store, and the answers on their way.  Three doors  *)
(* write the tokens, the e-mail form, the PIN pad and the registration,    *)
(* and so does the refresh of an expired token, which starts by itself and *)
(* ends whenever its answer comes.                                         *)
(***************************************************************************)
EXTENDS Naturals, FiniteSets

CONSTANTS
  People, HomeOf,  \* the staff, and the page of each one's role
  MaxFlights,      \* requests on their way at a time
  MaxResets        \* passwords set anew

Nobody  == "nobody"
NoToken == [who |-> Nobody, epoch |-> 0]
Homes   == {HomeOf[p] : p \in People}

VARIABLES
  tab,       \* the page on screen, its store, the forms
  kept,      \* the browser's storage: the two tokens, the venue
  flights,   \* requests on their way
  epoch,     \* per person: how often the password was set anew
  link,      \* per person: a recovery link that has not been used
  signedOut, \* the last thing somebody did here was to sign out
  crossed    \* somebody signed out with a refresh on its way

session == <<tab, kept, flights, epoch, link, signedOut, crossed>>

FreshTab(page) == [page |-> page, user |-> Nobody, loading |-> FALSE,
                   step |-> "venue", digits |-> 0, forgot |-> "closed"]
Flight(kind, token, then) == [kind |-> kind, token |-> token, then |-> then]
Room     == Cardinality(flights) < MaxFlights
TokenOf(p) == [who |-> p, epoch |-> epoch[p]]
\* Issued after the person's cut-off; an access token also grows old.
Good(token) == token.who # Nobody /\ token.epoch = epoch[token.who]
Accepted    == Good(kept.access) /\ ~kept.old

Server == UNCHANGED <<epoch, link>>
Ghosts == UNCHANGED <<signedOut, crossed>>

-----------------------------------------------------------------------------
\* Screens.

LoginForm   == tab.page = "login" /\ ~tab.loading
ForgotForm  == tab.page = "login" /\ tab.forgot = "form"
VenueStep   == tab.page = "pin" /\ tab.step = "venue"
PinPad      == tab.page = "pin" /\ tab.step = "pin" /\ ~tab.loading
RegisterForm == tab.page = "register" /\ ~tab.loading
ResetForm   == tab.page = "reset"
\* A station shows itself to whoever the store has; without anybody, a spinner.
Station     == tab.page \in Homes /\ tab.user # Nobody /\ ~tab.loading

\* Where the store's person belongs, if not here.
RoleHome(page, user) == IF page \in Homes \union {"root"} THEN HomeOf[user] ELSE page

\* AuthGuard as it mounts on a page of some role, and the root page, which does
\* the same: without a token back to the form, without a person ask who it is.
Guarded(t, access) ==
  IF access = NoToken THEN [t EXCEPT !.page = "login"]
  ELSE IF t.user = Nobody THEN [t EXCEPT !.loading = TRUE]
  ELSE [t EXCEPT !.page = RoleHome(t.page, t.user)]
AsksWho(t, access) == IF access # NoToken /\ t.user = Nobody
                      THEN {Flight("me", access, "guard")} ELSE {}

\* A page load: the store is empty and nobody waits for what is on its way.
Visit(page) ==
  /\ tab' = IF page \in Homes \union {"root"} THEN Guarded(FreshTab(page), kept.access)
            ELSE [FreshTab(page) EXCEPT !.step = IF page = "pin" /\ kept.venue THEN "pin" ELSE @]
  /\ flights' = IF page \in Homes \union {"root"} THEN AsksWho(FreshTab(page), kept.access) ELSE {}
  /\ UNCHANGED kept /\ Server /\ Ghosts

-----------------------------------------------------------------------------
\* The three doors.

SubmitLogin(p) ==
  /\ LoginForm /\ Room
  /\ tab' = [tab EXCEPT !.loading = TRUE]
  /\ flights' = flights \union {Flight("login", TokenOf(p), "none")}
  /\ UNCHANGED kept /\ Server /\ Ghosts

\* Typed in; a venue that is remembered goes straight to the pad.
ResolveVenue ==
  /\ VenueStep
  /\ tab' = [tab EXCEPT !.step = "pin"]
  /\ UNCHANGED <<kept, flights>> /\ Server /\ Ghosts

ChangeVenue ==
  /\ PinPad
  /\ tab' = [tab EXCEPT !.step = "venue", !.digits = 0]
  /\ UNCHANGED <<kept, flights>> /\ Server /\ Ghosts

\* The fourth key sends; whoever's PIN it is.
PressKey(p) ==
  /\ PinPad /\ Room
  /\ tab' = [tab EXCEPT !.digits = @ + 1, !.loading = tab.digits = 3]
  /\ flights' = IF tab.digits = 3 THEN flights \union {Flight("pin", TokenOf(p), "none")} ELSE flights
  /\ UNCHANGED kept /\ Server /\ Ghosts

SubmitRegister(p) ==
  /\ RegisterForm /\ Room
  /\ tab' = [tab EXCEPT !.loading = TRUE]
  /\ flights' = flights \union {Flight("register", TokenOf(p), "none")}
  /\ UNCHANGED kept /\ Server /\ Ghosts

DeleteKey ==
  /\ PinPad /\ tab.digits > 0
  /\ tab' = [tab EXCEPT !.digits = @ - 1]
  /\ UNCHANGED <<kept, flights>> /\ Server /\ Ghosts

Tokens(t) == kept' = [kept EXCEPT !.access = t, !.refresh = t, !.old = FALSE]

\* The e-mail form stores the tokens and asks who it is.
LoginServed(f) ==
  /\ f.kind = "login"
  /\ Tokens(f.token)
  /\ flights' = (flights \ {f}) \union {Flight("me", f.token, "login")}
  /\ signedOut' = FALSE
  /\ UNCHANGED <<tab, crossed>> /\ Server

\* Pad and registration read the role out of the token and go there; whoever is
\* in the store stays in it.
DoorServed(f) ==
  /\ f.kind \in {"pin", "register"}
  /\ kept' = [kept EXCEPT !.access = f.token, !.refresh = f.token, !.old = FALSE,
                          !.venue = @ \/ f.kind = "pin"]
  /\ LET t == [tab EXCEPT !.page = HomeOf[f.token.who], !.loading = FALSE]
     IN  /\ tab' = Guarded(t, f.token)
         /\ flights' = (flights \ {f}) \union AsksWho(t, f.token)
  /\ signedOut' = FALSE
  /\ UNCHANGED crossed /\ Server

\* Refused, too many attempts, or no answer.
DoorFails(f) ==
  /\ f.kind \in {"login", "pin", "register"}
  /\ flights' = flights \ {f}
  /\ tab' = [tab EXCEPT !.loading = FALSE, !.digits = 0]
  /\ UNCHANGED kept /\ Server /\ Ghosts

-----------------------------------------------------------------------------
\* Who is this?

MeServed(f) ==
  /\ f.kind = "me" /\ Good(f.token)
  /\ flights' = flights \ {f}
  /\ LET p == f.token.who
     IN  tab' = [tab EXCEPT !.user = p, !.loading = FALSE,
                            !.page = IF f.then = "login" THEN HomeOf[p] ELSE RoleHome(@, p)]
  /\ UNCHANGED kept /\ Server /\ Ghosts

\* No answer: the form shows an error and has its tokens all the same, a station
\* goes on showing its spinner.
MeFails(f) ==
  /\ f.kind = "me"
  /\ flights' = flights \ {f}
  /\ tab' = [tab EXCEPT !.loading = FALSE, !.user = IF f.then = "login" THEN @ ELSE Nobody,
                        !.page = IF @ = "root" THEN "login" ELSE @]
  /\ UNCHANGED kept /\ Server /\ Ghosts

\* localStorage.clear() and a page load: the venue is forgotten with the tokens.
Cleared ==
  /\ kept' = [access |-> NoToken, refresh |-> NoToken, old |-> FALSE, venue |-> FALSE]
  /\ tab' = FreshTab("login") /\ flights' = {}
  /\ signedOut' = TRUE

\* The interceptor's answer to a 401.
Refreshes(f) ==
  IF kept.refresh = NoToken THEN Cleared
  ELSE /\ flights' = (flights \ {f}) \union {Flight("refresh", kept.refresh, f.then)}
       /\ UNCHANGED <<tab, kept, signedOut>>

MeRefused(f) ==
  /\ f.kind = "me" /\ (~Good(f.token) \/ (kept.old /\ f.token = kept.access))
  /\ Refreshes(f)
  /\ UNCHANGED crossed /\ Server

\* Any call of a station, of which there are many; only a refused one matters.
CallRefused ==
  /\ Station /\ ~Accepted /\ Room
  /\ Refreshes(Flight("call", kept.access, "none"))
  /\ UNCHANGED crossed /\ Server

\* The answer's tokens are stored, whoever is signed in by now, and the refused
\* request is sent again.
RefreshServed(f) ==
  /\ f.kind = "refresh" /\ Good(f.token)
  /\ Tokens(f.token)
  /\ flights' = (flights \ {f}) \union
                (IF f.then = "none" THEN {} ELSE {Flight("me", f.token, f.then)})
  /\ UNCHANGED tab /\ Server /\ Ghosts

\* Revoked, or merely no answer.
RefreshFails(f) ==
  /\ f.kind = "refresh"
  /\ Cleared
  /\ UNCHANGED crossed /\ Server

TokenGrowsOld ==
  /\ kept.access # NoToken /\ ~kept.old
  /\ kept' = [kept EXCEPT !.old = TRUE]
  /\ UNCHANGED <<tab, flights>> /\ Server /\ Ghosts

\* Mutant: the person is forgotten and the tokens stay.
OnlyForgets(k) == k
Removed(k) == [k EXCEPT !.access = NoToken, !.refresh = NoToken, !.old = FALSE]

Logout ==
  /\ Station
  /\ kept' = Removed(kept)
  /\ tab' = FreshTab("login")
  /\ signedOut' = TRUE
  /\ crossed' = (crossed \/ \E f \in flights : f.kind = "refresh")
  /\ UNCHANGED flights /\ Server

-----------------------------------------------------------------------------
\* Recovery.

ToggleForgot ==
  /\ tab.page = "login"
  /\ tab' = [tab EXCEPT !.forgot = IF @ = "closed" THEN "form" ELSE "closed"]
  /\ UNCHANGED <<kept, flights>> /\ Server /\ Ghosts

\* The same words for every address, and for a request that never arrived.
SendLink(p) ==
  /\ ForgotForm
  /\ tab' = [tab EXCEPT !.forgot = "sent"]
  /\ link' \in {link, link \union {p}}
  /\ UNCHANGED <<kept, flights, epoch>> /\ Ghosts

\* The link works once, and cuts off every token from before.
SetPassword(p) ==
  /\ ResetForm /\ p \in link /\ epoch[p] < MaxResets
  /\ epoch' = [epoch EXCEPT ![p] = @ + 1]
  /\ link' = link \ {p}
  /\ tab' = FreshTab("login")
  /\ UNCHANGED <<kept, flights>> /\ Ghosts

SignInInit ==
  /\ tab = FreshTab("login")
  /\ kept = [access |-> NoToken, refresh |-> NoToken, old |-> FALSE, venue |-> FALSE]
  /\ flights = {} /\ link = {} /\ signedOut = FALSE /\ crossed = FALSE
  /\ epoch = [p \in People |-> 0]

SignInNext ==
  \/ \E page \in {"root", "login", "pin", "register", "reset"} \union Homes : Visit(page)
  \/ \E p \in People : \/ SubmitLogin(p) \/ PressKey(p) \/ SubmitRegister(p)
                       \/ SendLink(p) \/ SetPassword(p)
  \/ ResolveVenue \/ ChangeVenue \/ DeleteKey \/ CallRefused \/ TokenGrowsOld \/ Logout \/ ToggleForgot
  \/ \E f \in flights : \/ LoginServed(f) \/ DoorServed(f) \/ DoorFails(f) \/ MeServed(f)
                        \/ MeFails(f) \/ MeRefused(f) \/ RefreshServed(f) \/ RefreshFails(f)

SignInSpec == SignInInit /\ [][SignInNext]_session

-----------------------------------------------------------------------------
\* A shared tablet acts as the person it shows, and as nobody once that person
\* has signed out: unless a refresh was on its way at that moment, whose answer
\* signs them in again, also over the next person.
TokenIsTheScreens ==
  ~crossed => /\ Station => kept.access.who = tab.user
              /\ signedOut => kept.access = NoToken

\* Why: a station asks one thing about who it is at a time, from the page where
\* that began; what is on its way about tokens is about the person whose tokens
\* the browser has; and the page has a person only where that person belongs.
Doors   == {"login", "pin", "register"}
InHand(f) == f.kind # "refresh" \/ f.then # "none"
OnItsWay(f) ==
  /\ f = Flight(f.kind, f.token, f.then) /\ f.token.who \in People
  /\ f.kind \in Doors \union {"me", "refresh"}
  /\ f.kind \in Doors => f.then = "none"
  /\ f.kind = "me" => f.then \in {"guard", "login"}
  /\ f.kind = "refresh" => f.then \in {"none", "guard", "login"}
TabOK(t)  == DOMAIN t = DOMAIN FreshTab("login") /\ t.user \in People \union {Nobody}
KeptOK(k) == /\ DOMAIN k = {"access", "refresh", "old", "venue"}
             /\ k.refresh = k.access /\ (k.access = NoToken \/ k.access.who \in People)
SignInTypeOK == TabOK(tab) /\ KeptOK(kept) /\ \A f \in flights : OnItsWay(f)
OneInHand ==
  /\ \A f, g \in flights : InHand(f) => f = g
  /\ \A f \in flights : InHand(f) => tab.loading
AskedFromHere ==
  \A f \in flights :
    /\ f.kind \in Doors => tab.page = f.kind
    /\ f.then = "login" => tab.page = "login"
    /\ f.then = "guard" => tab.page \in Homes \union {"root"}
    /\ ~InHand(f) => tab.page \in Homes
OnePerson ==
  /\ \A f \in flights : f.kind \in {"me", "refresh"} => f.token.who = kept.access.who
  /\ tab.user # Nobody => tab.page \in Homes /\ tab.user = kept.access.who
  /\ signedOut => kept.access = NoToken
  /\ tab.page = "reset" => flights = {}
SignInInv == SignInTypeOK /\ (~crossed => OneInHand /\ AskedFromHere /\ OnePerson)
=============================================================================
