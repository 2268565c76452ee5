------------------------------- MODULE History -------------------------------
(***************************************************************************)
(* The record of every exchange a Seat paid for: src/history, kept by the  *)
(* service, a row a line, and rewritten whole by relay history --tidy      *)
(* (scripts/history.ts), which is another process. Power may fail at any   *)
(* time and break the line being written.                                  *)
(*                                                                         *)
(* A row is taken from a small set and numbered, so that no two are alike; *)
(* folded rows stand for the numbers of those they replaced. The order of  *)
(* the lines, which nothing is told by, is left out, and so is a line that *)
(* does not parse, which no reading sees: the file is the set of its rows, *)
(* and whether it ends in a whole line. Tokens are one count, and a price  *)
(* is a whole number.                                                      *)
(***************************************************************************)
EXTENDS Naturals, FiniteSets, Functions

CONSTANTS None,
          Facts,        \* what a row may say: see RowOf
          Prices,       \* the published rate of each model it names
          Sessions,     \* the sessions a project can be found for, and the project
          Keepers,      \* exchanges whose rows are being kept at one time
          MostRows, MostCrashes, MostTidies  \* bounds

VARIABLES file,   \* the rows it has
          ended,  \* its last line ends in a newline
          mended, \* the service has looked at that
          keep,   \* each row being kept
          tidy,   \* the tidy command
          bounds, \* how many rows, crashes and tidies there were
          fate    \* history: the rows kept to the end, and what befell some

vars == <<file, ended, mended, keep, tidy, bounds, fate>>

\* at is the moment, in days; folded is how many exchanges the row stands for, and ids
\* which ones.
RowOf(facts, id) == [ids |-> {id}, folded |-> 1, day |-> facts.day, seat |-> facts.seat,
                     model |-> facts.model, refused |-> facts.refused, tokens |-> facts.tokens,
                     session |-> facts.session, project |-> None]

NoTidy == [pc |-> "idle", rows |-> {}, next |-> {}]

Init == /\ file = {} /\ ended = TRUE /\ mended = FALSE
        /\ keep = [k \in Keepers |-> [at |-> "idle", row |-> None]]
        /\ tidy = NoTidy
        /\ bounds = [rows |-> 0, crashes |-> 0, tidies |-> 0]
        /\ fate = [kept |-> {}, during |-> {}, glued |-> {}]

-----------------------------------------------------------------------------
(* keep: no read first, but for the last byte, once.                        *)

Goes(k, at) == keep' = [keep EXCEPT ![k].at = at]

\* An exchange is reported, and the folder made.
Keeps(k) ==
    /\ keep[k].at = "idle" /\ bounds.rows < MostRows
    /\ bounds' = [bounds EXCEPT !.rows = @ + 1]
    /\ \E facts \in Facts :
         keep' = [keep EXCEPT ![k] = [at |-> "making", row |-> RowOf(facts, bounds.rows + 1)]]
    /\ UNCHANGED <<file, ended, mended, tidy, fate>>

MadeTheFolder(k) == /\ keep[k].at = "making"
                    /\ mended' = TRUE
                    /\ Goes(k, IF mended THEN "appending" ELSE "looking")
                    /\ UNCHANGED <<file, ended, tidy, bounds, fate>>

LooksAtTheEnd(k) == /\ keep[k].at = "looking"
                    /\ Goes(k, IF ended THEN "appending" ELSE "mending")
                    /\ UNCHANGED <<file, ended, mended, tidy, bounds, fate>>

Mends(k) == /\ keep[k].at = "mending"
            /\ ended' = TRUE
            /\ Goes(k, "appending")
            /\ UNCHANGED <<file, mended, tidy, bounds, fate>>

\* A line on the end of the file; on the end of one that was never ended, it is a part of
\* that, which does not parse.
Appended(row) == IF ended THEN file \union {row} ELSE file

Appends(k) ==
    /\ keep[k].at = "appending"
    /\ LET ids == keep[k].row.ids IN
       \/ \* it could not be: the row is not kept, and that is logged
          UNCHANGED <<file, ended, fate>>
       \/ /\ file' = Appended(keep[k].row)
          /\ ended' = TRUE
          /\ fate' = [fate EXCEPT !.kept = @ \union ids,
                                  !.during = IF tidy.pc = "idle" THEN @ ELSE @ \union ids,
                                  !.glued = IF ended THEN @ ELSE @ \union ids]
    /\ keep' = [keep EXCEPT ![k] = [at |-> "idle", row |-> None]]
    /\ UNCHANGED <<mended, tidy, bounds>>

\* Power fails: every process stops, and an append that was under way may leave a part of
\* a line. The service starts again, and looks at the last byte again.
PowerFails ==
    /\ bounds.crashes < MostCrashes
    /\ bounds' = [bounds EXCEPT !.crashes = @ + 1]
    /\ \/ UNCHANGED ended
       \/ (\E k \in Keepers : keep[k].at = "appending") /\ ended' = FALSE
    /\ mended' = FALSE
    /\ keep' = [k \in Keepers |-> [at |-> "idle", row |-> None]]
    /\ tidy' = NoTidy
    /\ UNCHANGED <<file, fate>>

-----------------------------------------------------------------------------
(* Totals: rows.ts and prices.ts.                                           *)

RateFor(model) == IF model \in DOMAIN Prices THEN Prices[model] ELSE None

Counted(rows, value(_)) == SumFunction([row \in rows |-> value(row)])
Where(rows, seat) == {row \in rows : row.seat = seat}

\* A folded row counts as the many exchanges it stands for.
TotalsBy(rows, seat) ==
    LET mine == Where(rows, seat) IN
    [exchanges |-> Counted(mine, LAMBDA row : row.folded),
     refusals  |-> Counted(mine, LAMBDA row : IF row.refused THEN row.folded ELSE 0),
     tokens    |-> Counted(mine, LAMBDA row : IF row.tokens = None THEN 0 ELSE row.tokens),
     cost      |-> Counted(mine, LAMBDA row : IF row.tokens = None \/ RateFor(row.model) = None THEN 0
                                              ELSE row.tokens * RateFor(row.model))]

\* How many it cannot put a price to.
Unpriced(rows, seat) ==
    Counted(Where(rows, seat),
            LAMBDA row : IF row.tokens = None \/ RateFor(row.model) # None THEN 0 ELSE row.folded)

\* One row per day, Seat, model and whether it was refused.
FoldKey(row) == <<row.day, row.seat, row.model, row.refused>>

\* The rows of one key, as one: no session, no project.
FoldedInto(rows) ==
    [(CHOOSE row \in rows : TRUE) EXCEPT
        !.ids = UNION {row.ids : row \in rows},
        !.folded = Counted(rows, LAMBDA row : row.folded),
        !.tokens = IF \A row \in rows : row.tokens = None THEN None
                   ELSE Counted(rows, LAMBDA row : IF row.tokens = None THEN 0 ELSE row.tokens),
        !.session = None, !.project = None]

\* Every row older than the window, by its key; the others as they are.
Older(rows) == {row \in rows : row.day = "old"}
OfItsKey(row, rows) == {other \in rows : FoldKey(other) = FoldKey(row)}
RolledUp(rows) == {FoldedInto(OfItsKey(row, Older(rows))) : row \in Older(rows)}
                    \union (rows \ Older(rows))

-----------------------------------------------------------------------------
(* --tidy: nameProjects, then fold; each reads all of it, and moves another *)
(* file into its place.                                                     *)

Reads == /\ tidy.pc = "idle" /\ bounds.tidies < MostTidies
         /\ bounds' = [bounds EXCEPT !.tidies = @ + 1]
         /\ tidy' = [NoTidy EXCEPT !.pc = "naming", !.rows = file]
         /\ UNCHANGED <<file, ended, mended, keep, fate>>

Named(row) == IF row.project = None /\ row.session \in DOMAIN Sessions
              THEN [row EXCEPT !.project = Sessions[row.session]] ELSE row

\* Fault: a row no project is found for is left out.
OnlyTheNamed == {row \in {Named(one) : one \in tidy.rows} : row.project # None}

\* The project of each row that has none, and a session one can be found for.
Names == {Named(row) : row \in tidy.rows}

NamesProjects == /\ tidy.pc = "naming"
                 /\ tidy' = IF Names = tidy.rows THEN [NoTidy EXCEPT !.pc = "named"]
                            ELSE [tidy EXCEPT !.pc = "writing names", !.next = Names]
                 /\ UNCHANGED <<file, ended, mended, keep, bounds, fate>>

ReadsAgain == /\ tidy.pc = "named"
              /\ tidy' = [NoTidy EXCEPT !.pc = "folding", !.rows = file]
              /\ UNCHANGED <<file, ended, mended, keep, bounds, fate>>

Folds == /\ tidy.pc = "folding"
         /\ tidy' = IF Older(tidy.rows) = {} THEN NoTidy
                    ELSE [tidy EXCEPT !.pc = "writing folds", !.next = RolledUp(tidy.rows)]
         /\ UNCHANGED <<file, ended, mended, keep, bounds, fate>>

\* writeWhole: beside, then moved into place; what throws ends the command.
MovesIntoPlace == /\ tidy.pc \in {"writing names", "writing folds"}
                  /\ \/ tidy' = NoTidy /\ UNCHANGED <<file, ended>>
                     \/ /\ file' = tidy.next /\ ended' = TRUE
                        /\ tidy' = IF tidy.pc = "writing names" THEN [NoTidy EXCEPT !.pc = "named"] ELSE NoTidy
                  /\ UNCHANGED <<mended, keep, bounds, fate>>

Next == \/ \E k \in Keepers : Keeps(k) \/ MadeTheFolder(k) \/ LooksAtTheEnd(k) \/ Mends(k) \/ Appends(k)
        \/ PowerFails
        \/ Reads \/ NamesProjects \/ ReadsAgain \/ Folds \/ MovesIntoPlace

Spec == Init /\ [][Next]_vars

-----------------------------------------------------------------------------
Readable == UNION {row.ids : row \in file}

TypeOK ==
    /\ ended \in BOOLEAN /\ mended \in BOOLEAN
    /\ \A k \in Keepers : keep[k].at \in {"idle", "making", "looking", "mending", "appending"}
    /\ tidy.pc \in {"idle", "naming", "writing names", "named", "folding", "writing folds"}
    /\ \A row \in file : /\ row.ids # {} /\ row.folded = Cardinality(row.ids)
                         /\ row.seat \in {f.seat : f \in Facts}

\* store.ts, "keeping a row cannot lose the one beside it", and crashes: a row that was kept
\* to the end is in the file, by itself or folded, once; but for one kept while a rewrite
\* was under way, and one put on the end of a line a crash broke. And what a fold is about
\* to put in place of the rows says the same of every Seat as they did, its count of what
\* has no price excepted, which only ever grows.
OnlyARewriteLosesARow ==
    /\ fate.kept \ Readable \subseteq fate.during \union fate.glued
    /\ Counted(file, LAMBDA row : Cardinality(row.ids)) = Cardinality(Readable)
    /\ tidy.pc = "writing folds" => \A f \in Facts :
         /\ TotalsBy(tidy.next, f.seat) = TotalsBy(tidy.rows, f.seat)
         /\ Unpriced(tidy.next, f.seat) >= Unpriced(tidy.rows, f.seat)
=============================================================================
