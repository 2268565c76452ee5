------------------------------ MODULE Profiles ------------------------------
(***************************************************************************)
(* The Claude Desktop profiles of a machine, found, shown and opened by    *)
(* name (src/profiles, with src/window and source.open of serve.ts).       *)
(*                                                                         *)
(* What is found is held for half a minute. A finding reads the folders,   *)
(* then the processes and the stores, and holds what it found when it is   *)
(* done; nothing keeps two of them apart, or the older of two from ending  *)
(* last. Pages and the menu bar ask for the list each in its own time and  *)
(* stand as long as they like, and a click on one comes back later with a  *)
(* name and nothing else, which is looked up in a list asked for anew.     *)
(*                                                                         *)
(* A list is all that its folders make of it, so it is told by the moment  *)
(* they were read at.                                                      *)
(*                                                                         *)
(* A profile is its Desktop folder. Folders come and go, and so do         *)
(* Windows: the app holds no lock on its folder, so a second one may be    *)
(* started on it.                                                          *)
(***************************************************************************)
EXTENDS Naturals, FiniteSets, Sequences

CONSTANTS Folders,   \* numbers, in the order the list is sorted in
          NameFor,   \* [Folders -> names]: what a folder is called, taken alone
          UsersOwn,  \* the Desktop folder the user works in, which is always listed
          Viewers,   \* the pages and the menu bar
          Clicks, None,
          MostComings, \* bound: folders that come or go
          AtFirst,     \* bound: the folders there may be to begin with
          MostWindows  \* bound: Windows open at first, and opened by hand

VARIABLES past,     \* history: the folders on the machine, from the first moment to this one
          open,     \* the folders that have a Window
          held,     \* the list last held, or None
          fresh,    \* it has been held for less than half a minute
          asks,     \* how far each viewer's or click's asking for the list is
          lists,    \* the lists that have been shown, which may stand on a page yet
          click     \* each click: its name and how far it is

vars == <<past, open, held, fresh, asks, lists, click>>

Askers == Viewers \union Clicks

Idle  == [at |-> "idle", name |-> None, shown |-> None, of |-> 0, in |-> 0, folder |-> None]
Quiet == [at |-> "quiet", of |-> 0]

Now   == Len(past)
There == past[Now]

Init == /\ \E folders \in AtFirst :
             /\ UsersOwn \in folders /\ past = <<folders>>
             /\ open \in SUBSET folders /\ Cardinality(open) <= MostWindows
        /\ held = None /\ fresh = FALSE
        /\ asks = [a \in Askers |-> Quiet]
        /\ lists = {} /\ click = [c \in Clicks |-> Idle]

-----------------------------------------------------------------------------
(* find.ts                                                                  *)

\* Fault: every folder called what it is called alone.
NamesAlone(folders) == [f \in folders |-> <<NameFor[f], 1>>]

\* namesApart: the second of a name is "<name> 2", and so on, in the order of the list. A
\* folder called "<name> 2" by itself is a name of its own here.
NamesApart(folders) ==
    [f \in folders |-> <<NameFor[f], 1 + Cardinality({g \in folders : g < f /\ NameFor[g] = NameFor[f]})>>]

Expires == /\ fresh /\ fresh' = FALSE
           /\ UNCHANGED <<past, open, held, asks, lists, click>>

\* list, up to its first await: the processes alone are read for what is held.
AsksForTheList(a) ==
    /\ asks[a].at = "quiet"
    /\ a \in Clicks => click[a].at = "find"
    /\ asks' = [asks EXCEPT ![a].at = IF fresh THEN "telling" ELSE "finding"]
    /\ UNCHANGED <<past, open, held, fresh, lists, click>>

\* foldersOnThisMachine
ReadsTheFolders(a) ==
    /\ asks[a].at = "finding"
    /\ asks' = [asks EXCEPT ![a] = [at |-> "found", of |-> Now]]
    /\ UNCHANGED <<past, open, held, fresh, lists, click>>

\* The list of no folders, and of no moment.
Nothing == 0

NamesOf(list) == NamesApart(IF list = Nothing THEN {} ELSE past[list])

\* What a finding that fails comes to.
Before == IF held = None THEN Nothing ELSE held

\* What the asking may be answered with: what was found, what was held before where the
\* finding failed, or what is held by now.
AnswersTo(a) ==
    CASE asks[a].at = "found"   -> {asks[a].of, Before}
      [] asks[a].at = "finding" -> {Before}
      [] asks[a].at = "telling" -> {held}
      [] OTHER                  -> {}

\* The rest of list: whatever was found is held from here on.
IsAnswered(a, list) ==
    /\ IF asks[a].at = "telling" THEN UNCHANGED <<held, fresh>> ELSE held' = list /\ fresh' = TRUE
    /\ asks' = [asks EXCEPT ![a] = Quiet]

\* There is nothing to click on an empty list.
Shows(v) == /\ \E list \in AnswersTo(v) : IsAnswered(v, list) /\ lists' = lists \union ({list} \ {Nothing})
            /\ UNCHANGED <<past, open, click>>

-----------------------------------------------------------------------------
(* A click: source.open of serve.ts and openProfile.                        *)

Goes(c, record) == click' = [click EXCEPT ![c] = record]

Clicked(c) ==
    /\ click[c].at = "idle"
    /\ \E list \in lists : \E f \in DOMAIN NamesOf(list) :
         Goes(c, [at |-> "find", name |-> NamesOf(list)[f], shown |-> f, of |-> list, in |-> 0, folder |-> None])
    /\ UNCHANGED <<past, open, held, fresh, asks, lists>>

Named(names, name) == {f \in DOMAIN names : names[f] = name}

\* The first of that name, or nothing is opened.
Finds(c) ==
    /\ click[c].at = "find"
    /\ \E list \in AnswersTo(c) :
         LET found == Named(NamesOf(list), click[c].name) IN
         /\ IsAnswered(c, list)
         /\ IF found = {} THEN Goes(c, Idle)
            ELSE \E f \in found : /\ \A g \in found : f <= g
                                  /\ Goes(c, [click[c] EXCEPT !.at = "look", !.in = list, !.folder = f])
    /\ UNCHANGED <<past, open, lists>>

\* openNow: the folder on a command line of the app's, or for the user's own, none.
IsOpen(f) == f \in open

\* Already open: raised, and not started again.
LooksAndRaises(c) == /\ click[c].at = "look" /\ IsOpen(click[c].folder)
                     /\ Goes(c, Idle)
                     /\ UNCHANGED <<past, open, held, fresh, asks, lists>>

LooksAndGoesOn(c) == /\ click[c].at = "look" /\ ~IsOpen(click[c].folder)
                     /\ Goes(c, [click[c] EXCEPT !.at = "launch"])
                     /\ UNCHANGED <<past, open, held, fresh, asks, lists>>

\* launchWindow: macOS is asked to open it; or will not within twenty seconds, and the
\* executable is run instead; or there is no Claude Desktop.
Launches(c) == /\ click[c].at = "launch"
               /\ \/ Goes(c, [click[c] EXCEPT !.at = "appears"])
                  \/ Goes(c, Idle)
               /\ UNCHANGED <<past, open, held, fresh, asks, lists>>

\* The Window comes up: the first one on its folder, or a second one that nothing holds
\* back, where another was opened since the look.
Appears(c) == /\ click[c].at = "appears"
              /\ open' = open \union {click[c].folder}
              /\ Goes(c, Idle)
              /\ UNCHANGED <<past, held, fresh, asks, lists>>

-----------------------------------------------------------------------------
\* The last Window on a folder.
Closes(f) == /\ f \in open /\ open' = open \ {f}
             /\ UNCHANGED <<past, held, fresh, asks, lists, click>>

OpensByHand(f) == /\ f \in There \ open /\ Cardinality(open) < MostWindows
                  /\ open' = open \union {f}
                  /\ UNCHANGED <<past, held, fresh, asks, lists, click>>

\* A profile is made or removed by whoever keeps it.
ComesOrGoes(f) ==
    /\ f # UsersOwn /\ f \notin open /\ Now <= MostComings
    /\ past' = Append(past, IF f \in There THEN There \ {f} ELSE There \union {f})
    /\ UNCHANGED <<open, held, fresh, asks, lists, click>>

Next == \/ Expires
        \/ \E a \in Askers : AsksForTheList(a) \/ ReadsTheFolders(a)
        \/ \E v \in Viewers : Shows(v)
        \/ \E c \in Clicks : \/ Clicked(c) \/ Finds(c) \/ LooksAndRaises(c) \/ LooksAndGoesOn(c)
                             \/ Launches(c) \/ Appears(c)
        \/ \E f \in Folders : Closes(f) \/ OpensByHand(f) \/ ComesOrGoes(f)

Spec == Init /\ [][Next]_vars

-----------------------------------------------------------------------------
\* The folders of one moment up to this one, which are all its name depends on.
UpTo(moment, f) == {g \in past[moment] : g <= f}

\* find.ts and serve.ts: a click that comes back with a name opens the folder that was
\* shown under it, unless that folder, or one listed before it, came or went between the
\* readings of the list that was shown and of the list that was looked in, whichever of the
\* two is the older.
OnlyAMovedNameIsMistaken ==
    \A c \in Clicks : LET this == click[c] IN
        this.folder \notin {None, this.shown} => UpTo(this.of, this.shown) # UpTo(this.in, this.shown)
=============================================================================
