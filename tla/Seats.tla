-------------------------------- MODULE Seats --------------------------------
(***************************************************************************)
(* The Seats of this machine and their Send tokens: the Seat file and the  *)
(* vault of src/seats, and how a small JSON file is written                *)
(* (src/json-file). The service, the page and the commands are processes   *)
(* of their own that share both, and take no lock: a call of the store     *)
(* reads the file, goes to the vault and writes the file back, an await    *)
(* apart, and any process may stop between two of them.                    *)
(*                                                                         *)
(* A name stands for one account in one Organization, as seatNameFor makes *)
(* it and buildWorklist insists. A token is the Organization it pays for,  *)
(* which is all the server can say of it. What else a Seat says, its plan  *)
(* and its label, is not told apart: to bring it up to date is to write    *)
(* the file back.                                                          *)
(***************************************************************************)
EXTENDS Naturals, FiniteSets

CONSTANTS Names, Organizations, None,
          Torn,            \* what a half written file holds
          OrganizationOf,  \* the Organization of each name
          Processes,
          Machines,        \* what machines there are, see machine
          AtFirst          \* the names that are held, each with its token, at first

ASSUME NamesAssumption == OrganizationOf \in [Names -> Organizations]
ASSUME NoneAssumption == None \notin Names \union Organizations

Tokens == Organizations \union {None}

VARIABLES machine, \* which vault it has, and whether a file can be moved into place
          file,    \* the names in the Seat file, or Torn
          vault,   \* the token under each name
          call     \* each process's call of the store

disk == <<file, vault>>

Idle == [op |-> "none", at |-> "idle", name |-> None, token |-> None, seen |-> {}, found |-> None]

StoreInit == /\ machine \in Machines
             /\ file = AtFirst
             /\ vault = [n \in Names |-> IF n \in AtFirst THEN OrganizationOf[n] ELSE None]
             /\ call = [p \in Processes |-> Idle]

\* A process calls the store; what it called is over, one way or the other, when it
\* has answered.
Calling(op, name, token) == [Idle EXCEPT !.op = op, !.at = "read", !.name = name, !.token = token]

Answered(p) == call[p].at \in {"returned", "threw"}
Returned(p) == call[p].at = "returned"

Goes(p, at) == call' = [call EXCEPT ![p].at = at]

-----------------------------------------------------------------------------
(* The file, first. A file that is there and does not parse throws.         *)

\* update and sendTokenFor know only the names in the file.
IsKnown(n, held) == n \in held

ReadSeats(p) ==
    /\ call[p].at = "read"
    /\ IF file = Torn THEN Goes(p, "threw")
       ELSE LET next == CASE call[p].op = "update" -> IF IsKnown(call[p].name, file) THEN "write" ELSE "threw"
                          [] call[p].op = "token"  -> IF IsKnown(call[p].name, file) THEN "vault" ELSE "threw"
                          [] OTHER                 -> "vault"
            IN  call' = [call EXCEPT ![p].seen = file, ![p].at = next]
    /\ UNCHANGED <<machine, disk>>

-----------------------------------------------------------------------------
(* The vault: the Keychain, which keeps each name by itself, or one file    *)
(* of them all (Windows, Linux), read and written back whole.               *)

OneFile == machine.vault = "one file"

Put(p) == /\ call[p].at = "vault" /\ call[p].op = "add"
          /\ \/ Goes(p, "threw") /\ UNCHANGED vault  \* it would not hold it
             \/ /\ ~OneFile
                /\ vault' = [vault EXCEPT ![call[p].name] = call[p].token]
                /\ Goes(p, "write")
             \/ /\ OneFile
                /\ call' = [call EXCEPT ![p].found = vault, ![p].at = "all of it"]
                /\ UNCHANGED vault
          /\ UNCHANGED <<machine, file>>

\* The Keychain's own answer is not looked at: nothing to forget is not a failure.
Forget(p) == /\ call[p].at = "vault" /\ call[p].op = "remove"
             /\ \/ /\ ~OneFile
                   /\ vault' \in {vault, [vault EXCEPT ![call[p].name] = None]}
                   /\ Goes(p, "write")
                \/ /\ OneFile /\ vault[call[p].name] = None
                   /\ Goes(p, "write") /\ UNCHANGED vault
                \/ /\ OneFile /\ vault[call[p].name] # None
                   /\ call' = [call EXCEPT ![p].found = vault, ![p].at = "all of it"]
                   /\ UNCHANGED vault
             /\ UNCHANGED <<machine, file>>

\* The file of all tokens is outside the folders where a rename was ever refused.
PutItAllBack(p) == /\ call[p].at = "all of it"
                   /\ \/ /\ vault' = [call[p].found EXCEPT ![call[p].name] = call[p].token]
                         /\ call' = [call EXCEPT ![p].found = None, ![p].at = "write"]
                      \/ Goes(p, "threw") /\ UNCHANGED vault
                   /\ UNCHANGED <<machine, file>>

\* The names a look at the vault finds a token under. A Keychain that will not answer
\* says the same as one that holds nothing; a file that cannot be read throws.
Found(p, among) ==
    \/ /\ call' = [call EXCEPT ![p].found = {n \in among : vault[n] # None}, ![p].at = "returned"]
    \/ /\ ~OneFile
       /\ call' = [call EXCEPT ![p].found = {}, ![p].at = "returned"]
    \/ /\ OneFile
       /\ Goes(p, "threw")

LookForEach(p) == /\ call[p].at = "vault" /\ call[p].op = "list"
                  /\ Found(p, call[p].seen)
                  /\ UNCHANGED <<machine, disk>>

\* sendTokenFor: no token is an error.
LookForOne(p) ==
    /\ call[p].at = "vault" /\ call[p].op = "token"
    /\ \/ Goes(p, "threw")  \* there is none, or the vault did not answer
       \/ /\ vault[call[p].name] # None
          /\ call' = [call EXCEPT ![p].token = vault[call[p].name], ![p].at = "returned"]
    /\ UNCHANGED <<machine, disk>>

-----------------------------------------------------------------------------
(* The file, back again: written beside, then moved into place. A reader    *)
(* that holds it open is waited out, twenty times; where a rename is        *)
(* refused outright it is copied over in place, which is not one step.      *)

Changed(p) == CASE call[p].op = "add"    -> call[p].seen \union {call[p].name}
                [] call[p].op = "remove" -> call[p].seen \ {call[p].name}
                [] call[p].op = "update" -> call[p].seen

WriteSeats(p) ==
    /\ call[p].at = "write"
    /\ \/ machine.moves /\ file' = Changed(p) /\ Goes(p, "returned")
       \/ machine.moves /\ Goes(p, "threw") /\ UNCHANGED file
       \/ ~machine.moves /\ file' = Torn /\ Goes(p, "copying")
    /\ UNCHANGED <<machine, vault>>

CopiedOver(p) == /\ call[p].at = "copying"
                 /\ file' = Changed(p) /\ Goes(p, "returned")
                 /\ UNCHANGED <<machine, vault>>

StoreStep(p) == \/ ReadSeats(p) \/ Put(p) \/ Forget(p) \/ PutItAllBack(p)
                \/ LookForEach(p) \/ LookForOne(p) \/ WriteSeats(p) \/ CopiedOver(p)

-----------------------------------------------------------------------------
StoreTypeOK ==
    /\ machine \in Machines
    /\ file = Torn \/ file \subseteq Names
    /\ vault \in [Names -> Tokens]
    /\ \A p \in Processes :
         /\ call[p].at \in {"idle", "read", "vault", "all of it", "write", "copying", "returned", "threw"}
         /\ call[p].op \in {"none", "add", "update", "remove", "list", "token"}
         /\ call[p].seen \subseteq Names /\ call[p].token \in Tokens
         /\ (call[p].op = "none") = (call[p].at = "idle")
=============================================================================
