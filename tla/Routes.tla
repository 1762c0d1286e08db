-------------------------------- MODULE Routes --------------------------------
(***************************************************************************)
(* Ksx.Routes: the addresses of the views of the page.  Each view model    *)
(* registers a route; before the routes are used the happening is put in   *)
(* front of their urls, once.  A url is the sequence of what stands behind *)
(* its slashes, so "/" is <<"">>; Parameter stands for one.              *)
(***************************************************************************)
EXTENDS Naturals, Sequences

CONSTANT Current \* Globals.Happening

Root == <<"">>
Parameter == ":id"
NoUrl == <<>>
NoId == ""

Route(urlMap, order, showOnNavigation) ==
    [urlMap |-> urlMap, navigationUrl |-> NoUrl, order |-> order,
     showOnNavigation |-> showOnNavigation]

-----------------------------------------------------------------------------
(* The routes of the view models, by domroot.                              *)

ReportRoute == Route(<<Root>>, 0, TRUE)

AttendeesRoute ==
    [Route(<<<<"attendees", Parameter>>, <<"attendees">>>>, 5, TRUE)
        EXCEPT !.navigationUrl = <<"attendees">>]

RouteRoute == Route(<<<<"route">>>>, 50, TRUE)

AboutRoute == Route(<<<<"about">>>>, 90, TRUE)

EditHappeningsRoute == Route(<<<<"edit", "happenings">>>>, 90, TRUE)

RegistrationsRoute == Route(<<<<"edit", "registrations">>>>, 90, TRUE)

PeopleRoute == Route(<<<<"edit", "people">>>>, 90, TRUE)

ScanRoute == Route(<<<<"scanlog">>>>, 94, FALSE)

StartScanRoute == Route(<<<<"readings", "start">>>>, 94, FALSE)

ScanInstructionsRoute == Route(<<<<"scaninstructions">>>>, 94, FALSE)

SystemRoute == Route(<<<<"edit", "system">>>>, 99, TRUE)

PublicRoutes ==
    [report |-> ReportRoute, attendees |-> AttendeesRoute, route |-> RouteRoute,
     about |-> AboutRoute]

\* The scripts of the second bundle are there only for who has signed in.
ContributorRoutes ==
    [edithappenings |-> EditHappeningsRoute, registrations |-> RegistrationsRoute,
     people |-> PeopleRoute, scan |-> ScanRoute, startscan |-> StartScanRoute,
     scaninstructions |-> ScanInstructionsRoute, system |-> SystemRoute]

-----------------------------------------------------------------------------
(* What is done with them.                                                 *)

\* isDefault: the page is for the default happening.
NoRoutes(isDefault) == [registered |-> <<>>, intercepted |-> FALSE, isDefault |-> isDefault]

AddHappeningToUrl(u, isDefault) ==
    IF u = Root /\ isDefault THEN u ELSE <<Current>> \o u

InterceptRoute(r, isDefault) ==
    [r EXCEPT !.navigationUrl = AddHappeningToUrl(@, isDefault),
              !.urlMap = [i \in DOMAIN @ |-> AddHappeningToUrl(@[i], isDefault)]]

\* register, while nothing has been intercepted: a route without an address for the menu
\* gets its first url.
Named(r) ==
    IF r.navigationUrl = NoUrl THEN [r EXCEPT !.navigationUrl = r.urlMap[1]] ELSE r

Intercepted(routes) ==
    [n \in DOMAIN routes.registered |-> InterceptRoute(routes.registered[n], routes.isDefault)]

\* Mutant: what has been done is not remembered.
AllAgain(routes) == [routes EXCEPT !.registered = Intercepted(routes)]

All(routes) ==
    IF routes.intercepted THEN routes
    ELSE [routes EXCEPT !.registered = Intercepted(routes), !.intercepted = TRUE]

NavigableRoutes(routes) ==
    {n \in DOMAIN All(routes).registered : All(routes).registered[n].showOnNavigation}

AppendToUrl(u, text) == IF text = NoId THEN u ELSE Append(u, text)

Url(name, id, isDefault) ==
    AddHappeningToUrl(AppendToUrl(AppendToUrl(NoUrl, name), id), isDefault)

-----------------------------------------------------------------------------
(* Sammy. Its patterns are bound to the end of an address only.            *)

Matches(u, a) ==
    /\ Len(u) <= Len(a)
    /\ \A i \in DOMAIN u :
          LET text == a[Len(a) - Len(u) + i]
          IN  text = u[i] \/ (u[i] = Parameter /\ text # "")

=============================================================================
