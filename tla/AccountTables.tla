---------------------------- MODULE AccountTables ----------------------------
(***************************************************************************)
(* Accounts, with how they come to be (Registration) and what becomes of   *)
(* their tables when the schema changes (Migrations).  The three are put   *)
(* side by side: an execution takes one of them and leaves the others as   *)
(* they began.                                                             *)
(***************************************************************************)
EXTENDS Accounts

CONSTANTS
  Requests, Names,    \* Registration
  Nobody,
  Written, MaxStops   \* Migrations

ASSUME WriterAssumption == Nobody \notin Requests

VARIABLES
  users, wallets, audits, writer, request,   \* Registration
  db, cmd, stops, torn                       \* Migrations

Joining == INSTANCE Registration
Schema == INSTANCE Migrations

joiningVars == <<users, wallets, audits, writer, request>>
schemaVars == <<db, cmd, stops, torn>>

\* One of the first states of Accounts stands for all, as they are symmetric.
Untouched == Init /\ \A u \in Users : account[u].password = CHOOSE p \in Passwords : TRUE

AllInit == Init /\ Joining!Init /\ Schema!Init

AllNext ==
  \/ Next /\ Joining!Init /\ Schema!Init /\ UNCHANGED <<joiningVars, schemaVars>>
  \/ Untouched /\ Joining!Next /\ Schema!Init /\ UNCHANGED <<vars, schemaVars>>
  \/ Untouched /\ Joining!Init /\ Schema!Next /\ UNCHANGED <<vars, joiningVars>>

AllSpec == AllInit /\ [][AllNext]_<<vars, joiningVars, schemaVars>>

\* The properties of the two modules that are composed by INSTANCE: see there.
OneWholeAccount == Joining!OneWholeAccount
AnswerIsTrue == Joining!AnswerIsTrue
StampTellsSchema == Schema!StampTellsSchema
FailureHasCause == Schema!FailureHasCause
RowsSurvive == Schema!RowsSurvive
=============================================================================
