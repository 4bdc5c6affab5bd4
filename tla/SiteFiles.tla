------------------------------ MODULE SiteFiles ------------------------------
(***************************************************************************)
(* What the site keeps in files: the product pictures of ProductImages,    *)
(* and .env, instance directory and database of Deployment.  Nothing that  *)
(* the one does depends on the other, so an execution takes one and leaves *)
(* the other as it began.                                                  *)
(***************************************************************************)
EXTENDS ProductImages

CONSTANTS
  Processes,   \* starts of the site and of its bootstrap script
  Nobody       \* no process; the author of a copied .env.example

\* Neither "no file" nor "nobody" is mistaken for a file or a process.
ASSUME SetupAssumption ==
  /\ Nobody \notin Processes
  /\ NoFile \notin [by : Processes \union {Nobody},
                    content : {"empty", "part", "whole", "placeholder"}]

VARIABLES env, directory, database, rows, proc, promised   \* Deployment

Setup == INSTANCE Deployment

setupVars == <<env, directory, database, rows, proc, promised>>

FilesInit == Init /\ Setup!Init

FilesNext ==
  \/ Next /\ Setup!Init /\ UNCHANGED setupVars
  \/ Init /\ Setup!Next /\ UNCHANGED vars

FilesSpec == FilesInit /\ [][FilesNext]_<<vars, setupVars>>

\* The properties of the module that is composed by INSTANCE: see there.
ReportedFileStays == Setup!ReportedFileStays
StartsEndWell == Setup!StartsEndWell
=============================================================================
