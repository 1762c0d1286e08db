---------------------------- MODULE HappeningsPage ----------------------------
(***************************************************************************)
(* The view of an administrator for the list of happenings, beside the     *)
(* list of the server (HappeningsInventory has its streams and races) and  *)
(* the query model EditHappenings that the view is loaded from.  The view  *)
(* shows at once what it asks for, and is not told what became of it.      *)
(* Commands are not lost and may overtake each other; one that fails is    *)
(* given again until it succeeds, see CommandDelivery.                     *)
(***************************************************************************)
EXTENDS Naturals, FiniteSets, SequencesExt

CONSTANTS
    Old,         \* the happenings there are at first, the last of them the default
    Key,         \* the keys there may be
    Document,    \* the texts an administrator may paste, as sequences of tokens
    MaxCommands  \* bound

NoKey == "none"

ASSUME HappeningAssumption ==
    /\ Old \in Seq(Key) /\ Old # <<>>
    /\ \A i, j \in DOMAIN Old : Old[i] = Old[j] => i = j
    /\ NoKey \notin Key
    /\ \A doc \in Document : doc \in Seq(STRING)
    /\ MaxCommands \in Nat

VARIABLES
    happenings,  \* the inventory, see Happening
    default,     \* its default
    everCreated, \* the keys whose creation the inventory's stream has, for ever
    streams,     \* the keys with a stream of their own, see AddCoordinatePath
    guarded,     \* the happenings with checkpoints
    model,       \* the rows of EditHappenings
    marked,      \* the key of those that are marked as the default
    commands,    \* the commands on their way
    given,       \* how many there have been
    editor,      \* the view, see Unopened
    mishaps      \* history, see Mishap

serverVars == <<happenings, default, everCreated, streams, guarded, model, marked>>

happeningsVars == <<serverVars, commands, given, editor, mishaps>>

\* What a row has for coordinates: nothing, or what the document was made into.
NoPath == [document |-> <<>>, parsed |-> 0, pairs |-> <<>>]

\* asked: the requests for the list under way. bound: the rows shown are those the
\* view model has. dead: history, the keys about which the list was wrong.
Unopened == [asked |-> 0, loaded |-> FALSE, bound |-> TRUE, rows |-> <<>>, chosen |-> NoKey,
             dead |-> {}]

\* overtaken: a command was handled before one given earlier. refused: one failed, or had no
\* effect. left: the default was deleted. else: an answer or a view came before the
\* commands were handled. shared: another administrator was at work.
Mishap == {"overtaken", "refused", "left", "else", "shared"}

Row(k) == [key |-> k, guarded |-> FALSE, path |-> NoPath]

KeysOf(rows) == {rows[i].key : i \in DOMAIN rows}

\* Find: the first row of the key.
Find(rows, k) == CHOOSE i \in DOMAIN rows :
                    rows[i].key = k /\ \A j \in 1 .. i - 1 : rows[j].key # k

HappeningsInit ==
    /\ happenings = Old
    /\ default = Last(Old)
    /\ everCreated = ToSet(Old)
    /\ streams = ToSet(Old)
    /\ guarded = {}
    /\ model = [i \in DOMAIN Old |-> Row(Old[i])]
    /\ marked = default
    /\ commands = {}
    /\ given = 0
    /\ editor = Unopened
    /\ mishaps = {}

-----------------------------------------------------------------------------
(* Coordinates from KML. Tokens: tags, names of points, and ",0.0".        *)

IsTag(t) == t \in {"<LineString>", "</LineString>", "<coordinates>", "</coordinates>", "<kml>"}

IsPoint(t) == ~IsTag(t) /\ t # ",0.0"

\* The first of these tokens from position i on.
IndexOf(doc, t, i) == CHOOSE j \in i .. Len(doc) :
                        doc[j] = t /\ \A k \in i .. j - 1 : doc[k] # t

\* Mutant: the coordinates are looked for from the start of the document.
FirstCoordinates(doc) ==
    FlattenSeq([i \in DOMAIN doc |->
        IF doc[i] # "<LineString>" THEN <<>>
        ELSE SubSeq(doc, IndexOf(doc, "<coordinates>", 1) + 1,
                         IndexOf(doc, "</coordinates>", 1) - 1)])

\* A document that begins with the tag is taken for one without (index <= 0). One
\* that breaks off within a line keeps the code looking for ever: there is none.
ExtractCoordinatesFromKml(doc) ==
    IF "<LineString>" \notin ToSet(doc) \/ doc[1] = "<LineString>" THEN doc
    ELSE FlattenSeq([i \in DOMAIN doc |->
            IF doc[i] # "<LineString>" THEN <<>>
            ELSE SubSeq(doc, IndexOf(doc, "<coordinates>", i) + 1,
                             IndexOf(doc, "</coordinates>", i) - 1)])

\* What stands between two ",0.0" is split at its commas: one point gives a pair,
\* more give what is no pair, none gives nothing.
Split(text) ==
    LET Ends == {0, Len(text) + 1} \cup {i \in DOMAIN text : text[i] = ",0.0"}
        From(j) == CHOOSE i \in Ends : i < j /\ \A k \in Ends : k <= i \/ k >= j
    IN  FlattenSeq([j \in 1 .. Len(text) + 1 |->
            IF j \in Ends /\ \E i \in From(j) + 1 .. j - 1 : IsPoint(text[i])
              THEN <<SubSeq(text, From(j) + 1, j - 1)>> ELSE <<>>])

\* Parsing what was parsed wraps it up once more.
ParseKmlFormat(path) ==
    IF path.parsed > 0 THEN [path EXCEPT !.parsed = 2]
    ELSE [path EXCEPT !.parsed = 1, !.pairs = Split(ExtractCoordinatesFromKml(path.document))]

-----------------------------------------------------------------------------
(* The view.                                                               *)

Command(kind, key) == [kind |-> kind, key |-> key, path |-> NoPath, number |-> given + 1]

Send(c) ==
    /\ given < MaxCommands
    /\ given' = given + 1
    /\ commands' = commands \cup {c}

\* onViewOpen: the list is asked for again as long as it has not come.
OnloadHappenings ==
    /\ editor' = IF editor.loaded THEN editor ELSE [editor EXCEPT !.asked = @ + 1]
    /\ UNCHANGED <<serverVars, commands, given, mishaps>>

\* What is listed and no longer there, or there and not listed.
Strays == (KeysOf(model) \ ToSet(happenings)) \cup (ToSet(happenings) \ KeysOf(model))

\* Knockout refuses to bind a view for the second time: what came later is kept by
\* the view model, and what came first goes on being shown.
LoadHappenings ==
    /\ editor.asked > 0
    /\ editor' = IF editor.loaded
                   THEN [editor EXCEPT !.asked = @ - 1, !.bound = FALSE]
                   ELSE [editor EXCEPT !.asked = @ - 1, !.loaded = TRUE,
                            !.rows = model, !.chosen = marked,
                            !.dead = Strays]
    /\ mishaps' = IF editor.loaded THEN mishaps
                  ELSE IF commands = {} THEN mishaps \ {"else"} ELSE mishaps \cup {"else"}
    /\ UNCHANGED <<serverVars, commands, given>>

SaveNewHappening(k) ==
    /\ editor.loaded
    /\ Send(Command("CreateHappening", k))
    /\ editor' = IF editor.bound THEN [editor EXCEPT !.rows = Append(@, Row(k))] ELSE editor
    /\ UNCHANGED <<serverVars, mishaps>>

SaveDefault(k) ==
    /\ editor.loaded
    /\ k \in KeysOf(editor.rows) \ {editor.chosen}
    /\ Send(Command("ChangeDefaultHappening", k))
    /\ editor' = [editor EXCEPT !.chosen = k]
    /\ UNCHANGED <<serverVars, mishaps>>

\* The row is taken out of the array that the view model has.
DeleteHappening(i) ==
    /\ editor.loaded /\ i \in DOMAIN editor.rows
    /\ ~editor.rows[i].guarded
    /\ Send(Command("DeleteHappening", editor.rows[i].key))
    /\ editor' = IF editor.bound THEN [editor EXCEPT !.rows = RemoveAt(@, i)] ELSE editor
    /\ mishaps' = IF editor.rows[i].key = editor.chosen THEN mishaps \cup {"left"} ELSE mishaps
    /\ UNCHANGED serverVars

Paste(i) ==
    /\ editor.loaded /\ i \in DOMAIN editor.rows
    /\ \E doc \in Document : editor' = [editor EXCEPT !.rows[i].path = [NoPath EXCEPT !.document = doc]]
    /\ UNCHANGED <<serverVars, commands, given, mishaps>>

ParseCoordinates(i) ==
    /\ editor.loaded /\ i \in DOMAIN editor.rows
    /\ editor.rows[i].path # NoPath
    /\ editor' = [editor EXCEPT !.rows[i].path = ParseKmlFormat(@)]
    /\ UNCHANGED <<serverVars, commands, given, mishaps>>

AddCoordinates(i) ==
    /\ editor.loaded /\ i \in DOMAIN editor.rows
    /\ editor.rows[i].path # NoPath
    /\ Send([Command("AddCoordinatePath", editor.rows[i].key)
                EXCEPT !.path = editor.rows[i].path])
    /\ UNCHANGED <<serverVars, editor, mishaps>>

-----------------------------------------------------------------------------
(* The server, one command at a time.                                      *)

\* The row of the key is marked, and no other.
Mark(k) == IF k \in KeysOf(model) THEN k ELSE NoKey

\* Mutant: a new happening is the default.
CreateAsDefault(k) ==
    /\ happenings' = Append(happenings, k)
    /\ everCreated' = everCreated \cup {k}
    /\ streams' = streams \cup {k}
    /\ model' = Append(model, Row(k))
    /\ default' = k
    /\ marked' = k
    /\ UNCHANGED guarded

\* The happening gets a stream of its own. Where it has one its handler throws, while
\* EditHappenings may or may not get to see the event.
Create(k) ==
    /\ happenings' = Append(happenings, k)
    /\ everCreated' = everCreated \cup {k}
    /\ streams' = streams \cup {k}
    /\ \/ model' = Append(model, Row(k))
       \/ model' = model /\ k \in streams
    /\ UNCHANGED <<default, guarded, marked>>

ChangeDefault(k) ==
    /\ default' = k
    /\ marked' = Mark(k)
    /\ UNCHANGED <<happenings, everCreated, streams, guarded, model>>

\* RemoveAll: a key is there once.
Without(k) == RemoveAt(happenings, CHOOSE i \in DOMAIN happenings : happenings[i] = k)

\* The last happening left becomes the default. EditHappenings looks for a row with
\* the id of the event instead of the happening, finds none, and keeps them all.
Delete(k) ==
    /\ happenings' = Without(k)
    /\ default' = IF default # k THEN default
                  ELSE IF Without(k) = <<>> THEN NoKey ELSE Last(Without(k))
    /\ marked' = IF default' \in {default, NoKey} THEN marked ELSE Mark(default')
    /\ UNCHANGED <<everCreated, streams, guarded, model>>

\* The event is stored in the stream of the key, which nobody looks for in the inventory:
\* there need be no such happening. The first row of the key gets the path.
AddCoordinatePath(k, path) ==
    /\ streams' = streams \cup {k}
    /\ model' = IF k \in KeysOf(model)
                  THEN [model EXCEPT ![Find(model, k)].path = path] ELSE model
    /\ UNCHANGED <<happenings, default, everCreated, guarded, marked>>

\* What throws before anything is stored.
Fails(c) ==
    \/ c.kind = "CreateHappening" /\ c.key \in ToSet(happenings)
    \/ c.kind = "DeleteHappening" /\ c.key \in guarded

\* What the table refuses: the key of a happening is the row key of its creation, which
\* stays when the happening is deleted.
Refused(c) ==
    c.kind = "CreateHappening" /\ c.key \in everCreated \ ToSet(happenings)

\* What finds no happening and stores nothing.
Ignored(c) ==
    c.kind \in {"ChangeDefaultHappening", "DeleteHappening"} /\ c.key \notin ToSet(happenings)

NoEffect(c) == Fails(c) \/ Refused(c) \/ Ignored(c)

\* What throws when the stored event is published.
FailsLater(c) ==
    \/ c.kind = "CreateHappening" /\ c.key \in streams
    \/ c.kind = "AddCoordinatePath" /\ c.key \notin KeysOf(model)

Execute(c) ==
    CASE c.kind = "CreateHappening" -> Create(c.key)
      [] c.kind = "ChangeDefaultHappening" -> ChangeDefault(c.key)
      [] c.kind = "DeleteHappening" -> Delete(c.key)
      [] c.kind = "AddCoordinatePath" -> AddCoordinatePath(c.key, c.path)

\* What throws at once is given again. What is refused or throws later is, too, unless
\* RedirectToWhen comes too late to see it.
HandleCommand ==
    /\ \E c \in commands :
          /\ IF NoEffect(c) THEN UNCHANGED serverVars ELSE Execute(c)
          /\ \/ commands' = commands \ {c} /\ ~Fails(c)
             \/ commands' = commands /\ (Fails(c) \/ Refused(c) \/ FailsLater(c))
          /\ mishaps' = mishaps
               \cup (IF \E d \in commands : d.number < c.number THEN {"overtaken"} ELSE {})
               \cup (IF NoEffect(c) \/ FailsLater(c) THEN {"refused"} ELSE {})
    /\ UNCHANGED <<given, editor>>

\* A happening gets its first checkpoint, by a command that no view has.
AddCheckpoint ==
    /\ \E k \in ToSet(happenings) \ guarded :
          /\ guarded' = guarded \cup {k}
          /\ model' = IF k \in KeysOf(model)
                        THEN [model EXCEPT ![Find(model, k)].guarded = TRUE] ELSE model
    /\ mishaps' = mishaps \cup {"shared"}
    /\ UNCHANGED <<happenings, default, everCreated, streams, marked, commands, given, editor>>

HappeningsNext ==
    \/ LoadHappenings
    \/ \E k \in Key : SaveNewHappening(k) \/ SaveDefault(k)
    \/ \E i \in DOMAIN editor.rows :
          DeleteHappening(i) \/ Paste(i) \/ ParseCoordinates(i) \/ AddCoordinates(i)
    \/ HandleCommand
    \/ AddCheckpoint

-----------------------------------------------------------------------------
(* Properties.                                                             *)

\* The view shows what it hopes for. When its commands have been handled it is right
\* about which happenings there are and which is the default, as far as they were
\* handled in order and none was refused, nobody else was at work, the default was not
\* deleted and the list did not come twice. Happenings about which the list was wrong
\* when it was loaded, deleted ones it had kept or ones it had missed, are beyond the
\* view's control.
PageAgrees ==
    editor.loaded /\ editor.bound /\ commands = {} /\ mishaps = {} =>
        /\ KeysOf(editor.rows) \ editor.dead = ToSet(happenings) \ editor.dead
        /\ default \notin editor.dead \cup {NoKey} => editor.chosen = default

\* The points of a document's lines, in order: what stands between the tags of
\* coordinates between the tags of a line.
Within(doc, tag, end, j) ==
    \E i \in 1 .. j : doc[i] = tag /\ \A k \in i .. j : doc[k] # end

Line(doc) ==
    FlattenSeq([j \in DOMAIN doc |->
        IF /\ IsPoint(doc[j])
           /\ "<LineString>" \in ToSet(doc) =>
                /\ Within(doc, "<LineString>", "</LineString>", j)
                /\ Within(doc, "<coordinates>", "</coordinates>", j)
          THEN <<<<doc[j]>>>> ELSE <<>>])

\* The line that begins at position i: one pair of tags for its coordinates, and between
\* these points only, each with ",0.0" behind it.
IsLine(doc, i) ==
    \E b, e, l \in i + 1 .. Len(doc) :
        /\ b < e /\ e < l
        /\ doc[b] = "<coordinates>" /\ doc[e] = "</coordinates>" /\ doc[l] = "</LineString>"
        /\ \A k \in i + 1 .. l - 1 : k \notin {b, e} => ~IsTag(doc[k])
        /\ \A k \in b + 1 .. e - 1 : IsPoint(doc[k]) => doc[k + 1] = ",0.0"
        /\ ~Within(doc, "<coordinates>", "</coordinates>", i)

\* A document of lines, or bare coordinates with ",0.0" between any two of them.
WellFormed(doc) ==
    IF "<LineString>" \in ToSet(doc)
      THEN \A i \in DOMAIN doc : doc[i] = "<LineString>" => IsLine(doc, i)
      ELSE \A i \in 1 .. Len(doc) - 1 :
              /\ IsPoint(doc[i]) => doc[i + 1] = ",0.0"
              /\ IsPoint(doc[i + 1]) => doc[i] = ",0.0"

\* A route that is stored after a document was parsed once is the one of its lines,
\* whatever else with coordinates is in the document, unless it begins with a line.
PathIsLine ==
    \A i \in DOMAIN model :
        LET path == model[i].path
        IN  path.parsed = 1 /\ path.document[1] # "<LineString>" =>
                path.pairs = Line(path.document)

=============================================================================
