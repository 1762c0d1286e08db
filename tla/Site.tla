--------------------------------- MODULE Site ---------------------------------
(***************************************************************************)
(* The page as a whole: which view is shown at which address, its menu,    *)
(* and the walker that the view of walkers has selected.  An address leads *)
(* to a view by way of Sammy, the view may send the reader on to another   *)
(* address, and until the walkers have been loaded it goes on trying.      *)
(***************************************************************************)
EXTENDS Routes, HappeningsPage

CONSTANTS
    Walker,      \* the ids of the walkers
    Address,     \* the addresses that a reader may open
    Entry,       \* the pages that may be loaded, see LoadPage
    MaxRetries,  \* 100
    MaxOpens,    \* bound: addresses opened
    MaxPages     \* bound: pages loaded

\* Whether a contributor has signed in, and whether the happening is the default.
Profile == [contributor : BOOLEAN, isDefault : BOOLEAN]

ASSUME SiteAssumption ==
    /\ NoId \notin Walker
    /\ \A a \in Address : a \in Seq(STRING) /\ a # NoUrl
    /\ \A id \in Walker \cup {NoId}, d \in BOOLEAN : Url("attendees", id, d) \in Address
    /\ \A e \in Entry : /\ e.address \in Address /\ e.profile \in Profile
                        /\ e.address = Root => e.profile.isDefault
    /\ MaxRetries \in Nat /\ MaxOpens \in Nat /\ MaxPages \in Nat \ {0}

VARIABLES
    profile,    \* who loaded the page, for which happening, see Profile
    start,      \* the address the page was loaded at
    address,    \* the address now, which is Sammy's last_location, too
    view,       \* what is shown
    menu,       \* the items of the menu
    walkers,    \* the view of walkers: NotLoaded, or the ids that it knows
    selected,   \* the id of the selected one
    context,    \* the address of sammyContext
    retries,    \* AttendeesViewModel.retries
    timers,     \* the addresses that onload is to be called for again, in order
    opens, pages, \* how many there have been
    late        \* history: it was called again for an address that had been left

walkerVars == <<walkers, selected, context, retries, timers>>

siteVars == <<profile, start, address, view, menu, walkerVars, opens, pages, late>>

vars == <<siteVars, happeningsVars>>

NotLoaded == {NoId}

Init ==
    /\ HappeningsInit
    /\ profile = [contributor |-> FALSE, isDefault |-> FALSE]
    /\ start = NoUrl
    /\ address = NoUrl
    /\ view = "none"
    /\ menu = {}
    /\ walkers = NotLoaded
    /\ selected = NoId
    /\ context = NoUrl
    /\ retries = 0
    /\ timers = <<>>
    /\ opens = 0
    /\ pages = 0
    /\ late = FALSE

-----------------------------------------------------------------------------
(* Sammy and the menu.                                                     *)

DeclaredFor(p) ==
    LET Names == DOMAIN PublicRoutes \cup (IF p.contributor THEN DOMAIN ContributorRoutes ELSE {})
    IN  [n \in Names |-> IF n \in DOMAIN PublicRoutes THEN PublicRoutes[n] ELSE ContributorRoutes[n]]

\* What the scripts of a page do, one view model after the other, before anybody asks for
\* the routes. A name that is taken would throw; no two view models share one.
Registered(p) ==
    [NoRoutes(p.isDefault) EXCEPT
        !.registered = [n \in DOMAIN DeclaredFor(p) |-> Named(DeclaredFor(p)[n])]]

MapRoutes(all) ==
    UNION {{[name |-> n, url |-> all.registered[n].urlMap[i], order |-> all.registered[n].order] :
               i \in DOMAIN all.registered[n].urlMap} : n \in DOMAIN all.registered}

Leading(known, a) == {m \in known : Matches(m.url, a)}

\* The route of lowest order, or of the longest url, of those whose pattern fits, and
\* context.params["id"].
Lookup(known, a) ==
    IF Leading(known, a) = {} THEN [name |-> "404", id |-> NoId]
    ELSE LET m == CHOOSE m \in Leading(known, a) :
                    \A n \in Leading(known, a) :
                        m.order < n.order \/ (m.order = n.order /\ Len(m.url) >= Len(n.url))
         IN  [name |-> m.name, id |-> IF Last(m.url) = Parameter THEN Last(a) ELSE NoId]

\* What then stays: the routes, what Sammy was told of them, and where that leads.
Scripts ==
    {LET all == All(Registered(p))
         known == MapRoutes(all)
     IN  [profile |-> p, routes |-> all, mapped |-> known,
          leads |-> {[address |-> a, to |-> Lookup(known, a)] : a \in Address}] : p \in Profile}

After(p) == CHOOSE s \in Scripts : s.profile = p

LeadsTo(p, a) == (CHOOSE l \in After(p).leads : l.address = a).to

IdOf(a) == LeadsTo(profile, a).id

KoRoute(all, n) ==
    [name |-> n, url |-> all.registered[n].navigationUrl, active |-> FALSE]

\* The first navigation fills the menu, every one marks the item of its route.
Navigated(all, items, name) ==
    LET filled == IF items # {} THEN items ELSE {KoRoute(all, n) : n \in NavigableRoutes(all)}
    IN  {[i EXCEPT !.active = (i.url = all.registered[name].navigationUrl)] : i \in filled}

\* Nothing is published where there is no route.
AfterNavigation(all, items, name) ==
    IF name = "404" THEN items ELSE Navigated(All(all), items, name)

-----------------------------------------------------------------------------
(* The view of walkers.                                                    *)

\* Mutant: whoever was selected stays where none is found.
FoundOrSelected(id) == IF id \in walkers THEN id ELSE selected

Found(id) == IF id \in walkers THEN id ELSE NoId

AttendeeUrl(id) == Url("attendees", id, profile.isDefault)

\* selected(w), in the context of address c, at address a: who selects another walker
\* is sent to their address. Sammy takes c for the address it was last at, and runs
\* the route only where the new address is not c.
Select(w, c, a) ==
    /\ selected' = w
    /\ IF w = selected \/ c = NoUrl
         THEN address' = a /\ context' = c
         ELSE address' = AttendeeUrl(w) /\ context' = AttendeeUrl(w)

\* Whether selecting runs the route.
RunsRoute(w, c) == w # selected /\ c # NoUrl /\ AttendeeUrl(w) # c

\* onload for a context of address c, when the address is a and timers are waiting.
OnloadAttendees(c, a, waiting) ==
    /\ IF walkers = NotLoaded
         THEN /\ context' = c /\ address' = a
              /\ retries' = IF retries < MaxRetries THEN retries + 1 ELSE retries
              /\ timers' = IF retries < MaxRetries THEN Append(waiting, c) ELSE waiting
              /\ UNCHANGED selected
         ELSE /\ Select(Found(IdOf(c)), c, a)
              /\ timers' = waiting
              /\ UNCHANGED retries
    /\ UNCHANGED walkers

-----------------------------------------------------------------------------
(* What the reader does.                                                   *)

\* A page is loaded: the scripts run, then Sammy starts at its address.
LoadPage(a, p) ==
    /\ pages < MaxPages
    /\ pages' = pages + 1
    /\ profile' = p
    /\ LET m == LeadsTo(p, a)
       IN  /\ view' = m.name
           /\ menu' = AfterNavigation(After(p).routes, {}, m.name)
           /\ retries' = IF m.name = "attendees" /\ MaxRetries > 0 THEN 1 ELSE 0
           /\ timers' = IF m.name = "attendees" /\ MaxRetries > 0 THEN <<a>> ELSE <<>>
           /\ context' = IF m.name = "attendees" THEN a ELSE NoUrl
           /\ editor' = IF m.name = "edithappenings"
                          THEN [Unopened EXCEPT !.asked = 1] ELSE Unopened
    /\ start' = a
    /\ address' = a
    /\ walkers' = NotLoaded
    /\ selected' = NoId
    /\ late' = FALSE
    /\ mishaps' = IF commands = {} THEN {} ELSE mishaps \cup {"else"}
    /\ UNCHANGED <<opens, serverVars, commands, given>>

\* A link of the page, or the way back: a link without a route loads a page instead.
OpenAddress(a) ==
    /\ pages > 0 /\ opens < MaxOpens
    /\ a # address
    /\ a = start \/ LeadsTo(profile, a).name # "404"
    /\ opens' = opens + 1
    /\ LET m == LeadsTo(profile, a)
       IN  /\ view' = m.name
           /\ menu' = AfterNavigation(After(profile).routes, menu, m.name)
           /\ IF m.name = "attendees" THEN OnloadAttendees(a, a, timers)
              ELSE address' = a /\ UNCHANGED walkerVars
           /\ IF m.name = "edithappenings" THEN OnloadHappenings
              ELSE UNCHANGED happeningsVars
    /\ UNCHANGED <<profile, start, pages, late>>

\* The list on top of a walker's page, which has an entry for none.
SelectWalker(w) ==
    /\ view = "attendees" /\ walkers # NotLoaded /\ selected # NoId
    /\ w # selected
    /\ opens < MaxOpens
    /\ opens' = opens + 1
    /\ Select(w, context, address)
    /\ menu' = IF RunsRoute(w, context) THEN Navigated(After(profile).routes, menu, "attendees") ELSE menu
    /\ UNCHANGED <<profile, start, view, walkers, retries, timers, pages, late>>
    /\ UNCHANGED happeningsVars

-----------------------------------------------------------------------------
(* What comes by itself.                                                   *)

LoadWalkers ==
    /\ pages > 0 /\ walkers = NotLoaded
    /\ walkers' = Walker
    /\ UNCHANGED <<profile, start, address, view, menu, selected, context,
                   retries, timers, opens, pages, late>>
    /\ UNCHANGED happeningsVars

\* The timer has kept its context, wherever the reader has gone.
Retry ==
    /\ timers # <<>>
    /\ LET c == Head(timers)
           ran == walkers # NotLoaded /\ RunsRoute(Found(IdOf(c)), c)
       IN  /\ OnloadAttendees(c, address, Tail(timers))
           /\ view' = IF ran THEN "attendees" ELSE view
           /\ menu' = IF ran THEN Navigated(After(profile).routes, menu, "attendees") ELSE menu
           /\ late' = (late \/ c # address)
    /\ UNCHANGED <<profile, start, opens, pages>>
    /\ UNCHANGED happeningsVars

Next ==
    \/ \E e \in Entry : LoadPage(e.address, e.profile)
    \/ \E a \in Address : OpenAddress(a)
    \/ \E w \in Walker \cup {NoId} : SelectWalker(w)
    \/ LoadWalkers
    \/ Retry
    \/ HappeningsNext /\ UNCHANGED siteVars

Spec == Init /\ [][Next]_vars

-----------------------------------------------------------------------------
(* Properties.                                                             *)

\* The view that was declared for an address, if any. The pattern of "/" fits whatever
\* ends like it.
Declared(p, a) ==
    LET names == {n \in DOMAIN DeclaredFor(p) : \E i \in DOMAIN DeclaredFor(p)[n].urlMap :
                    LET u == AddHappeningToUrl(DeclaredFor(p)[n].urlMap[i], p.isDefault)
                    IN  Len(u) = Len(a) /\ Matches(u, a)}
    IN  CASE names # {} -> CHOOSE n \in names : TRUE
          [] names = {} /\ p.isDefault /\ Last(a) = "" -> "report"
          [] OTHER -> "404"

Declarations == {<<p, a, Declared(p, a)>> : p \in Profile, a \in Address}

\* What Sammy's patterns, which are bound to the end only, take for another address: none
\* of the addresses, apart from what "/" fits.
Unmistakable ==
    \A p \in Profile, a \in Address : \A m \in After(p).mapped :
        Matches(m.url, a) => Len(m.url) = Len(a) \/ m.url = Root

\* When nothing is under way the page shows what its address says: the view declared
\* for it and, once the walkers are there, the walker that is named in it or none. An
\* onload that was called again for an address left since may undo that, and there
\* is no walker for an address opened when all retries were spent.
AddressShown ==
    pages > 0 /\ timers = <<>> /\ ~late =>
        /\ <<profile, address, view>> \in Declarations
        /\ view = "attendees" /\ walkers # NotLoaded /\ retries < MaxRetries =>
              selected = IF IdOf(address) \in walkers THEN IdOf(address) ELSE NoId

\* Every item of the menu has an address that leads to its own view, and the item
\* marked is the one of the view shown: none for a view outside the menu. After an
\* address without a view the item of the last view stays marked.
MenuLeads ==
    \A i \in menu :
        /\ \E m \in After(profile).mapped : m.name = i.name /\ m.url = i.url
        /\ view # "404" => (i.active <=> i.name = view)

=============================================================================
