------------------------------- MODULE Machine -------------------------------
(***************************************************************************)
(* The relay put on a machine and taken off it again (machine.ts): the     *)
(* local authority (certificate/mint.ts), the launchd job (launchd.ts) and *)
(* our variables in the store Claude Desktop reads (environment-store.ts), *)
(* one after the other, in a process that can die between any two of them. *)
(*                                                                         *)
(* Beside it: the job, which mints what is missing when it starts, dies    *)
(* and is started again; Claude Desktop, which lets the user change their  *)
(* own variables in the same file; and the user, who is told to delete the *)
(* certificate folder when it runs out.                                    *)
(***************************************************************************)
EXTENDS Naturals, FiniteSets

CONSTANTS Ours,        \* the names of our variables
          Theirs,      \* the names of the user's own
          MostMints, MostEdits, MostCommands \* bounds: keys made, edits, commands run

VARIABLES ca, leaf,    \* the files: which keys, and for the leaf which authority signed it
          made,        \* the keys made so far, to tell them apart
          mint,        \* what each process that mints is at, and the key in its hands
          job,         \* the job's description is written, launchd has taken it
          relay,       \* the process: down, starting, up
          serving,     \* the authority behind the leaf it presents, as it read it
          store,       \* the app's file: the names set in it, and whether it is there
          command, at, \* install, uninstall or none, and its next step
          copy,        \* the variables it read
          outcome,     \* how the last command ended: none, done, couldNot, threw, died
          ran, edits,  \* history: commands run and edits made
          meant,       \* history: the names the user means to be set
          edited       \* history: the ones they changed while a command held a copy

authority == <<ca, leaf, made, mint>>
service   == <<job, relay, serving>>
file      == <<store, meant, edited, edits>>
progress  == <<command, at, copy, outcome, ran>>
vars      == <<authority, service, file, progress>>

Minters == {"command", "service"}
Resting == [at |-> "no", key |-> 0]

\* The app keeps keys of its own in the file, or it does not.
Init == /\ ca = [key |-> 0, cert |-> 0] /\ leaf = [key |-> 0, cert |-> 0, by |-> 0] /\ made = 0
        /\ mint = [m \in Minters |-> Resting]
        /\ job = [written |-> FALSE, taken |-> FALSE] /\ relay = "down" /\ serving = 0
        /\ \E mine \in SUBSET Theirs, app \in BOOLEAN :
             /\ store = [set |-> mine, app |-> app, there |-> mine # {} \/ app]
             /\ meant = mine
        /\ edited = {} /\ edits = 0
        /\ command = "none" /\ at = "" /\ copy = {} /\ outcome = "none" /\ ran = 0

-----------------------------------------------------------------------------
(* mint.ts, ensureAuthority: what is there is kept, and what is not is made *)
(* by openssl, which writes a key and then what is signed with it.          *)

LacksAnAuthority == ca.cert = 0 \/ ca.key = 0

LacksALeaf == leaf.cert = 0 \/ leaf.key = 0

Goes(m, step, key) == mint' = [mint EXCEPT ![m] = [at |-> step, key |-> key]]

Looks(m) == /\ mint[m].at = "looks"
            /\ IF LacksAnAuthority
               THEN /\ made < MostMints /\ made' = made + 1
                    /\ ca' = [ca EXCEPT !.key = made + 1]
                    /\ Goes(m, "ca.crt", made + 1)
               ELSE UNCHANGED <<ca, made>> /\ Goes(m, "leaf", 0)
            /\ UNCHANGED <<leaf, service, file, progress>>

SignsItself(m) == /\ mint[m].at = "ca.crt"
                  /\ ca' = [ca EXCEPT !.cert = mint[m].key]
                  /\ Goes(m, "leaf", 0)
                  /\ UNCHANGED <<leaf, made, service, file, progress>>

LooksForALeaf(m) == /\ mint[m].at = "leaf"
                    /\ IF LacksALeaf
                       THEN /\ made < MostMints /\ made' = made + 1
                            /\ leaf' = [leaf EXCEPT !.key = made + 1]
                            /\ Goes(m, "leaf.crt", made + 1)
                       ELSE UNCHANGED <<leaf, made>> /\ Goes(m, "ready", 0)
                    /\ UNCHANGED <<ca, service, file, progress>>

\* openssl will not sign with a key that is not the authority's.
SignsALeaf(m) == /\ mint[m].at = "leaf.crt" /\ ca.key = ca.cert /\ ca.cert # 0
                 /\ leaf' = [leaf EXCEPT !.cert = mint[m].key, !.by = ca.cert]
                 /\ Goes(m, "ready", 0)
                 /\ UNCHANGED <<ca, made, service, file, progress>>

CannotMint(m) == mint[m].at \notin {"no", "ready"}

-----------------------------------------------------------------------------
(* The job: launchd starts it, and starts it again when it dies. serve.ts   *)
(* mints what is missing before it listens.                                 *)

JobStarts == /\ job.taken /\ relay = "down"
             /\ relay' = "starting" /\ mint' = [mint EXCEPT !["service"].at = "looks"]
             /\ UNCHANGED <<ca, leaf, made, job, serving, file, progress>>

JobListens == /\ relay = "starting" /\ mint["service"].at = "ready"
              /\ relay' = "up" /\ serving' = leaf.by
              /\ mint' = [mint EXCEPT !["service"] = Resting]
              /\ UNCHANGED <<ca, leaf, made, job, file, progress>>

\* It dies, or could not start.
Down == /\ relay' = "down" /\ serving' = 0 /\ mint' = [mint EXCEPT !["service"] = Resting]

JobDies == /\ relay # "down" /\ Down
           /\ UNCHANGED <<ca, leaf, made, job, file, progress>>

-----------------------------------------------------------------------------
(* install.                                                                 *)

Step(name) == at' = name /\ UNCHANGED <<command, copy, outcome, ran>>

Ends(how) == /\ command' = "none" /\ at' = "" /\ copy' = {} /\ outcome' = how /\ UNCHANGED ran

Typed == /\ command = "none" /\ ran < MostCommands
         /\ \/ /\ command' = "install" /\ at' = "authority"
               /\ mint' = [mint EXCEPT !["command"].at = "looks"]
            \/ command' = "uninstall" /\ at' = "bootout" /\ UNCHANGED mint
         /\ ran' = ran + 1
         /\ UNCHANGED <<ca, leaf, made, service, file, copy, outcome>>

HasItsAuthority == /\ at = "authority" /\ mint["command"].at = "ready"
                   /\ mint' = [mint EXCEPT !["command"] = Resting]
                   /\ Step("write")
                   /\ UNCHANGED <<ca, leaf, made, service, file>>

WritesTheJob == /\ at = "write"
                /\ job' = [job EXCEPT !.written = TRUE] /\ Step("bootout")
                /\ UNCHANGED <<authority, relay, serving, file>>

\* launchd.ts: booted out first, and then waited for. Uninstall boots out and removes it.
BootsOut == /\ at = "bootout"
            /\ job' = [job EXCEPT !.taken = FALSE] /\ Down
            /\ Step(IF command = "install" THEN "bootstrap" ELSE "rm")
            /\ UNCHANGED <<ca, leaf, made, file>>

Bootstraps == /\ at = "bootstrap"
              /\ \/ job' = [job EXCEPT !.taken = TRUE] /\ Step("read")
                 \/ UNCHANGED job /\ Ends("threw")   \* it would not take the job
                 \/ job' = [job EXCEPT !.taken = TRUE] /\ Ends("threw")   \* or does not run it
              /\ UNCHANGED <<authority, relay, serving, file>>

RemovesTheJob == /\ at = "rm"
                 /\ job' = [job EXCEPT !.written = FALSE] /\ Step("read")
                 /\ UNCHANGED <<authority, relay, serving, file>>

-----------------------------------------------------------------------------
(* environment-store.ts: read, change, save. Both commands come here last.  *)

Reads == /\ at = "read"
         /\ copy' = store.set /\ at' = "save"
         /\ UNCHANGED <<authority, service, file, command, outcome, ran>>

\* The store will not open, or will not be written: an install throws, an uninstall says
\* so and goes on.
StoreRefuses == /\ at \in {"read", "save"}
                /\ IF command = "install" THEN Ends("threw")
                   ELSE at' = "home" /\ outcome' = "couldNot" /\ copy' = {} /\ UNCHANGED <<command, ran>>
                /\ UNCHANGED <<authority, service, file>>

\* Fault: one name is left out of the list of what to remove.
ForgetsAllButOne(set) == set \ (Ours \ {CHOOSE n \in Ours : TRUE})

WithoutOurs(set) == set \ Ours

\* Fault: the file written from our own variables.
OnlyOurs(set) == Ours

WithOurs(set) == set \union Ours

\* Nothing of ours and nothing of the app's: the file goes.
Holding(set) == [store EXCEPT !.set = set, !.there = set # {} \/ store.app]

Puts == /\ at = "save" /\ command = "install"
        /\ store' = [Holding(WithOurs(copy)) EXCEPT !.there = TRUE]
        /\ Ends("done")
        /\ UNCHANGED <<authority, service, meant, edited, edits>>

Forgets == /\ at = "save" /\ command = "uninstall"
           /\ store' = Holding(WithoutOurs(copy))
           /\ at' = "home" /\ copy' = {} /\ outcome' = "done" /\ UNCHANGED <<command, ran>>
           /\ UNCHANGED <<authority, service, meant, edited, edits>>

\* rm of the home, the certificates with it. A home that is the user's own is refused,
\* which is said and changes nothing else.
RemovesTheHome == /\ at = "home"
                  /\ \/ /\ ca' = [key |-> 0, cert |-> 0]
                        /\ leaf' = [key |-> 0, cert |-> 0, by |-> 0]
                     \/ UNCHANGED <<ca, leaf>>
                  /\ Ends(outcome)
                  /\ UNCHANGED <<made, mint, service, file>>

\* openssl fails, or the process is killed, wherever it is.
CommandStops == /\ command # "none"
                /\ \/ CannotMint("command") /\ Ends("threw")
                   \/ Ends("died")
                /\ mint' = [mint EXCEPT !["command"] = Resting]
                /\ UNCHANGED <<ca, leaf, made, service, file>>

-----------------------------------------------------------------------------
(* Everybody else.                                                          *)

UserEdits(n) == /\ edits < MostEdits /\ edits' = edits + 1
                /\ store' = Holding(IF n \in store.set THEN store.set \ {n} ELSE store.set \union {n})
                /\ meant' = IF n \in store.set THEN meant \ {n} ELSE meant \union {n}
                /\ edited' = IF at = "save" THEN edited \union {n} ELSE edited \ {n}
                /\ UNCHANGED <<authority, service, progress>>

\* mechanism/check.ts: "Delete the certificate folder to mint a new one".
UserDeletesTheCertificates == /\ ca.cert # 0 /\ \A m \in Minters : mint[m].at = "no"
                              /\ ca' = [key |-> 0, cert |-> 0]
                              /\ leaf' = [key |-> 0, cert |-> 0, by |-> 0]
                              /\ UNCHANGED <<made, mint, service, file, progress>>

Next == \/ \E m \in Minters : Looks(m) \/ SignsItself(m) \/ LooksForALeaf(m) \/ SignsALeaf(m)
        \/ JobStarts \/ JobListens \/ JobDies
        \/ Typed \/ HasItsAuthority \/ WritesTheJob \/ BootsOut \/ Bootstraps \/ RemovesTheJob
        \/ Reads \/ StoreRefuses \/ Puts \/ Forgets \/ RemovesTheHome \/ CommandStops
        \/ \E n \in Theirs : UserEdits(n)
        \/ UserDeletesTheCertificates

Spec == Init /\ [][Next]_vars

-----------------------------------------------------------------------------
\* environment-store.ts, "a variable the user put there themselves survives our undo", and
\* an install: the only change of theirs that is lost is one made between a command's
\* reading of the file and its writing of it. The file itself stays while the app has
\* anything in it.
TheUsersVariablesStay ==
    /\ \A n \in Theirs : (n \in store.set) = (n \in meant) \/ n \in edited
    /\ store.app => store.there

\* A Window whose store still sends it to a relay that launchd no longer has is one
\* that cannot reach the network. Neither command leaves one behind in silence: the
\* last of them threw, died, or said the store could not be changed.
NoWindowIsStrandedInSilence ==
    command = "none" /\ store.set \intersect Ours # {} /\ ~job.taken =>
      outcome \in {"threw", "died", "couldNot"}
=============================================================================
