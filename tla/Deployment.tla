----------------------------- MODULE Deployment ------------------------------
(***************************************************************************)
(* Setting the site up: scripts/bootstrap_env.py writes .env, and every    *)
(* start of the application (run.py, flask) reads it, checks the key,      *)
(* makes the instance directory and connects to the SQLite file.  Several  *)
(* processes may do so at once, fail, or be killed half way.               *)
(***************************************************************************)

CONSTANTS
  Processes,
  NoFile,      \* there is no .env
  Nobody       \* wrote no .env; also the author of a copied example

VARIABLES
  env,         \* .env: who created it and what is in it
  directory,   \* the instance directory
  database,    \* the SQLite file
  rows,        \* whether anything has been written to it
  proc,
  promised     \* history: the process that reported the present .env as created

vars == <<env, directory, database, rows, proc, promised>>

File(by, content) == [by |-> by, content |-> content]

Resting == [pc |-> "idle", key |-> "none"]

Init ==
  /\ env = NoFile
  /\ directory = "absent"
  /\ database = "absent" /\ rows = FALSE
  /\ proc = [p \in Processes |-> Resting]
  /\ promised = Nobody

At(p, pc) == proc[p].pc = pc
Goto(p, pc) == proc' = [proc EXCEPT ![p].pc = pc]
Finish(p) == proc' = [proc EXCEPT ![p] = Resting]

-----------------------------------------------------------------------------
(* create_environment_file *)

\* The template is read, has the marker once, and the key is drawn.
Bootstrap(p) ==
  /\ At(p, "idle")
  /\ Goto(p, "opening")
  /\ UNCHANGED <<env, directory, database, rows, promised>>

\* Mutant: what cannot be written is unlinked, whoever created it.
Unlinked_Always(created) == TRUE

\* Only a file this very process created is unlinked after an error.
Unlinked(created) == created

\* O_CREAT | O_EXCL
OpenEnv(p) ==
  /\ At(p, "opening")
  /\ IF env = NoFile
     THEN env' = File(p, "empty") /\ Goto(p, "writing")
     ELSE UNCHANGED env /\ IF Unlinked(FALSE) THEN Goto(p, "unlinking") ELSE Finish(p)
  /\ UNCHANGED <<directory, database, rows, promised>>

\* _write_all: os.write may take part of it.  It writes to the descriptor: a file
\* somebody unlinked would take the text with it.
WriteEnv(p) ==
  /\ At(p, "writing")
  /\ \E content \in {"part", "whole"} :
       /\ env' = IF env = NoFile THEN NoFile ELSE [env EXCEPT !.content = content]
       /\ Goto(p, IF content = "whole" THEN "written" ELSE "writing")
  /\ UNCHANGED <<directory, database, rows, promised>>

\* fchmod, write or fsync raises OSError.
EnvFails(p) ==
  /\ proc[p].pc \in {"writing", "written"}
  /\ IF Unlinked(TRUE) THEN Goto(p, "unlinking") ELSE Finish(p)
  /\ UNCHANGED <<env, directory, database, rows, promised>>

\* unlink may fail, too; the error is reported in any case.
UnlinkEnv(p) ==
  /\ At(p, "unlinking")
  /\ env' \in {env, NoFile}
  /\ Finish(p)
  /\ UNCHANGED <<directory, database, rows, promised>>

\* fsync is through, and main tells that the file is there.
Report(p) ==
  /\ At(p, "written")
  /\ promised' = p
  /\ Finish(p)
  /\ UNCHANGED <<env, directory, database, rows>>

Bootstrapping == {"opening", "writing", "written", "unlinking"}

\* While no bootstrap runs the operator copies the example or removes a file.
CopyExample ==
  /\ env = NoFile /\ \A p \in Processes : proc[p].pc \notin Bootstrapping
  /\ env' = File(Nobody, "placeholder")
  /\ UNCHANGED <<directory, database, rows, proc, promised>>

RemoveEnv ==
  /\ env # NoFile /\ \A p \in Processes : proc[p].pc \notin Bootstrapping
  /\ env' = NoFile /\ promised' = Nobody
  /\ UNCHANGED <<directory, database, rows, proc>>

\* mkdir by hand, or an instance directory of an earlier version.
MakeDirectory ==
  /\ directory = "absent"
  /\ directory' = "open"
  /\ UNCHANGED <<env, database, rows, proc, promised>>

-----------------------------------------------------------------------------
(* create_app, and the first connection *)

\* load_dotenv: of a file that is being written, or was never finished, the key
\* may be missing or cut.  A cut key may still have its 32 characters.
Keys ==
  IF env = NoFile THEN {"none"}
  ELSE CASE env.content = "empty" -> {"none"}
         [] env.content = "part" -> {"none", "short", "cut"}
         [] env.content = "placeholder" -> {"placeholder"}
         [] env.content = "whole" -> {"good"}

Accepted == {"cut", "good"}

\* validate_secret_key, then lstat of the instance path.
Start(p) ==
  /\ At(p, "idle")
  /\ \E key \in Keys :
       proc' = [proc EXCEPT ![p] =
         [key |-> key,
          pc |-> IF key \notin Accepted THEN "died"
                 ELSE IF directory = "absent" THEN "mkdir" ELSE "chmod"]]
  /\ UNCHANGED <<env, directory, database, rows, promised>>

\* Another process may have made it since the lstat, which is as good.
Mkdir(p) ==
  /\ At(p, "mkdir")
  /\ directory' = IF directory = "absent" THEN "private" ELSE directory
  /\ Goto(p, "chmod")
  /\ UNCHANGED <<env, database, rows, promised>>

SecureDirectory(p) ==
  /\ At(p, "chmod")
  /\ directory' = "private"
  /\ Goto(p, "created")
  /\ UNCHANGED <<env, database, rows, promised>>

\* Mutant: the connection is used before the listener has seen to the file.
AfterConnect_Ready == "ready"

AfterConnect == "connected"

\* sqlite3 creates the file with the mode the umask leaves ...
Connect(p) ==
  /\ At(p, "created")
  /\ database' = IF database = "absent" THEN "open" ELSE database
  /\ Goto(p, AfterConnect)
  /\ UNCHANGED <<env, directory, rows, promised>>

\* ... and the listener takes it back before the engine hands the connection out.
SecureDatabase(p) ==
  /\ At(p, "connected")
  /\ database' = "private"
  /\ Goto(p, "ready")
  /\ UNCHANGED <<env, directory, rows, promised>>

Write(p) ==
  /\ At(p, "ready")
  /\ rows' = TRUE
  /\ UNCHANGED <<env, directory, database, proc, promised>>

\* A process ends or is killed, whatever it was doing.
Exit(p) ==
  /\ ~At(p, "idle")
  /\ Finish(p)
  /\ UNCHANGED <<env, directory, database, rows, promised>>

Next ==
  \/ \E p \in Processes :
       \/ Bootstrap(p) \/ OpenEnv(p) \/ WriteEnv(p) \/ EnvFails(p) \/ UnlinkEnv(p)
       \/ Report(p) \/ Start(p) \/ Mkdir(p) \/ SecureDirectory(p) \/ Connect(p)
       \/ SecureDatabase(p) \/ Write(p) \/ Exit(p)
  \/ CopyExample \/ RemoveEnv \/ MakeDirectory

Spec == Init /\ [][Next]_vars

-----------------------------------------------------------------------------
(* Properties. *)

\* A .env that was reported as created stays, whole, until the operator removes
\* it: no later or overlapping bootstrap writes to it or, when it fails, takes
\* it for its own leftover.
ReportedFileStays == promised # Nobody => env = File(promised, "whole")

\* A start gives up on its key only, never because another one, at the same
\* time, was faster to make the instance directory.
DiesOfItsKey == \A p \in Processes : At(p, "died") => proc[p].key \notin Accepted

\* Nothing is written to a database others may read, also when a process was
\* killed between creating the file and narrowing its mode.
RowsArePrivate == rows => database = "private" /\ directory = "private"

\* Whatever runs, fails or is killed beside it, a start ends in one of two ways:
\* it gives up on its key, or what it writes nobody else can read.
StartsEndWell == DiesOfItsKey /\ RowsArePrivate
=============================================================================
