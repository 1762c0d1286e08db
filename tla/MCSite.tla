-------------------------------- MODULE MCSite --------------------------------
(* Two walkers and an id that nobody has; two happenings and a key for another. *)
EXTENDS Site

MCOld == <<"h1", "h2">>

MCAddress == {Root, <<"h", "">>, <<"h">>, <<"h", "about">>, <<"h", "attendees">>,
              <<"h", "attendees", "w1">>, <<"h", "attendees", "w2">>,
              <<"h", "attendees", "x">>, <<"h", "edit", "happenings">>}

At(a, contributor, isDefault) ==
    [address |-> a, profile |-> [contributor |-> contributor, isDefault |-> isDefault]]

MCEntry == {At(Root, FALSE, TRUE), At(<<"h", "">>, FALSE, FALSE), At(<<"h">>, FALSE, FALSE),
            At(<<"h", "attendees", "w1">>, FALSE, FALSE),
            At(<<"h", "attendees", "x">>, FALSE, TRUE),
            At(<<"h", "edit", "happenings">>, TRUE, FALSE)}

\* None of these ends like another view's url: what AddressShownHolds asks for.
ASSUME MCAddressAssumption == Unmistakable

\* Placemarks before and between lines, and the bare coordinates.
MCDocument ==
    {<<"<kml>", "<coordinates>", "p", "</coordinates>",
       "<LineString>", "<coordinates>", "a", ",0.0", "b", ",0.0", "</coordinates>", "</LineString>",
       "<coordinates>", "q", "</coordinates>",
       "<LineString>", "<coordinates>", "c", ",0.0", "</coordinates>", "</LineString>">>,
     <<"a", ",0.0", "b">>}

\* Both are what PathIsLineHolds asks for.
ASSUME MCDocumentAssumption == \A doc \in Document : WellFormed(doc)

\* The reader looks at walkers or the administrator at happenings, and at the route of
\* one of these. Of two things that may go wrong together, a command that is overtaken and
\* one refused, the list is missing a happening; the properties say little of others.
OneThing ==
    /\ editor # Unopened \/ given > 0 \/ guarded # {} =>
          /\ walkers = NotLoaded /\ timers = <<>> /\ opens + pages <= 3
          /\ address \in {<<"h", "about">>, <<"h", "edit", "happenings">>}
    /\ pages = 2 => given > 0
    /\ Cardinality({i \in DOMAIN editor.rows : editor.rows[i].path # NoPath}) <= 1
    /\ Cardinality(mishaps) <= 1 \/ mishaps = {"overtaken", "refused"}

=============================================================================
