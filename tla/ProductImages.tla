---------------------------- MODULE ProductImages ---------------------------
(***************************************************************************)
(* A product's picture lives in two places: its file name in the database, *)
(* its bytes in the upload directory.  Creating a product and editing it   *)
(* write the file first, commit the name second and delete what is not     *)
(* needed third, with other requests running in between: readers, and      *)
(* whoever takes the product off sale.                                     *)
(***************************************************************************)
EXTENDS FiniteSets

CONSTANTS
  Products, Threads,
  Names,     \* bound: file names secrets.token_hex will come up with
  NoFile     \* image_filename of a product that does not exist yet

ASSUME NoFileAssumption == NoFile \notin Names

VARIABLES
  image,     \* committed Product.image_filename
  status,    \* committed Product.status; "active" stands for sold as well, which
             \* is just as public and editable, and "hidden" for deleted
  files,     \* regular files in the upload directory
  used,      \* names drawn so far: token_hex does not repeat itself
  thread,
  excused,   \* history: files left behind by a crash or a failing unlink, or
             \* overwritten by a commit that had loaded another name
  overtaken, \* history: threads whose product left the sale after they loaded it
  displayed  \* history: pictures that were shown to the public

vars == <<image, status, files, used, thread, excused, overtaken, displayed>>

Statuses == {"active", "hidden"}

Resting == [op |-> "none", pc |-> "idle"]

Init ==
  /\ image = [p \in Products |-> NoFile]
  /\ status = [p \in Products |-> "active"]   \* CREATED_STATUS
  /\ files = {} /\ used = {} /\ excused = {}
  /\ thread = [t \in Threads |-> Resting]
  /\ overtaken = {} /\ displayed = {}

Idle(t) == thread[t] = Resting
At(t, pc) == thread[t].pc = pc

Finish(t) ==
  /\ thread' = [thread EXCEPT ![t] = Resting]
  /\ overtaken' = overtaken \ {t}

Works(t, p) == ~Idle(t) /\ thread[t].op = "write" /\ thread[t].product = p

-----------------------------------------------------------------------------
(* create_product and update_product. *)

\* Mutant: any product of the owner's may be edited.
Editable_Any(p) == TRUE

\* OWNER_EDITABLE_STATUSES
Editable(p) == status[p] = "active"

\* The form is valid; update_product loads the row (and with it the old name),
\* which get_owner_editable_product found editable a moment before.  A product
\* that is being created is nobody else's yet.
Load(t, p) ==
  /\ Idle(t)
  /\ IF image[p] = NoFile THEN \A s \in Threads : ~Works(s, p) ELSE Editable(p)
  /\ thread' = [thread EXCEPT ![t] =
       [op |-> "write", pc |-> "loaded", product |-> p, old |-> image[p]]]
  /\ UNCHANGED <<image, status, files, used, excused, overtaken, displayed>>

\* Mutant: the obsolete file makes room for the new one.
StoredFiles_Replacing(old, new) == (files \ {old}) \union {new}

StoredFiles(old, new) == files \union {new}

\* store_product_image: O_EXCL under a random name, written and fsynced.
Store(t) ==
  /\ At(t, "loaded")
  /\ \E new \in Names \ used :
       /\ files' = StoredFiles(thread[t].old, new)
       /\ used' = used \union {new}
       /\ thread' = [thread EXCEPT ![t] =
            [op |-> "write", pc |-> "stored", product |-> thread[t].product,
             old |-> thread[t].old, new |-> new]]
  /\ UNCHANGED <<image, status, excused, overtaken, displayed>>

\* validate_and_reencode refuses the upload, or the file cannot be written and
\* is unlinked again.  An edit without a picture writes the text only, which is
\* not modelled, and leaves what is modelled as it is, too.
StoreRefused(t) ==
  /\ At(t, "loaded")
  /\ Finish(t)
  /\ UNCHANGED <<image, status, files, used, excused, displayed>>

\* The file cannot be written, and cannot be unlinked either.
StoreBroken(t) ==
  /\ At(t, "loaded")
  /\ \E new \in Names \ used :
       /\ files' = files \union {new}
       /\ used' = used \union {new}
       /\ excused' = excused \union {new}
  /\ Finish(t)
  /\ UNCHANGED <<image, status, displayed>>

\* The new name differs from the loaded one, so the UPDATE always carries it,
\* also over a name that another replacement has committed meanwhile, and also
\* when the product is no longer on sale: the status is not looked at again.
Commit(t) ==
  LET w == thread[t]  p == w.product IN
  /\ At(t, "stored")
  /\ image' = [image EXCEPT ![p] = w.new]
  /\ IF w.old = NoFile
     THEN Finish(t)
     ELSE /\ thread' = [thread EXCEPT ![t].pc = "removing"]
          /\ UNCHANGED overtaken
  /\ excused' = excused \union ({image[p]} \ {w.old})
  /\ displayed' = displayed \union (IF status[p] = "active" THEN {w.new} ELSE {})
  /\ UNCHANGED <<status, files, used>>

\* Mutant: nothing is ever removed.
Leftover_Nothing(w) == NoFile

\* What is left to delete after a commit (the loaded name) or a rollback.
Leftover(w) == IF w.pc = "removing" THEN w.old ELSE w.new

CommitFails(t) ==
  /\ At(t, "stored")
  /\ thread' = [thread EXCEPT ![t].pc = "discarding"]
  /\ UNCHANGED <<image, status, files, used, excused, overtaken, displayed>>

Clearing(t) == thread[t].pc \in {"removing", "discarding"}

\* remove_product_image: a missing file is as good as a removed one.
Remove(t) ==
  /\ Clearing(t)
  /\ files' = files \ {Leftover(thread[t])}
  /\ Finish(t)
  /\ UNCHANGED <<image, status, used, excused, displayed>>

\* unlink fails: a warning at most.
RemoveFails(t) ==
  /\ Clearing(t)
  /\ excused' = excused \union {Leftover(thread[t])}
  /\ Finish(t)
  /\ UNCHANGED <<image, status, files, used, displayed>>

-----------------------------------------------------------------------------
\* The owner, an administrator or the report that makes the threshold commits
\* another status.  Module Moderation says which ones can; here it is any.
ChangeStatus(p, new) ==
  /\ image[p] # NoFile /\ new # status[p]
  /\ status' = [status EXCEPT ![p] = new]
  /\ overtaken' = IF new = "active" THEN overtaken
                  ELSE overtaken \union {t \in Threads : Works(t, p)}
  /\ displayed' = displayed \union (IF new = "active" THEN {image[p]} ELSE {})
  /\ UNCHANGED <<image, files, used, thread, excused>>

-----------------------------------------------------------------------------
(* GET /products/<uuid>/image *)

\* Mutant: the first SELECT has no condition on the status.
Public_Any(p) == TRUE

\* PUBLIC_STATUSES
Public(p) == status[p] = "active"

Reading(p, pc, public) ==
  [op |-> "read", pc |-> pc, product |-> p, old |-> image[p], public |-> public]

\* The first SELECT of get_image_access: what everybody may see.
SelectPublic(t, p) ==
  /\ Idle(t) /\ image[p] # NoFile
  /\ thread' = [thread EXCEPT ![t] =
       Reading(p, IF Public(p) THEN "named" ELSE "private", Public(p))]
  /\ UNCHANGED <<image, status, files, used, excused, overtaken, displayed>>

\* The second: the owner sees his picture in any status.
SelectOwn(t) ==
  /\ At(t, "private")
  /\ thread' = [thread EXCEPT ![t] = Reading(thread[t].product, "named", FALSE)]
  /\ UNCHANGED <<image, status, files, used, excused, overtaken, displayed>>

\* Anybody else: 404.
NotHis(t) ==
  /\ At(t, "private")
  /\ Finish(t)
  /\ UNCHANGED <<image, status, files, used, excused, displayed>>

read_product_image(t) ==
  /\ At(t, "named")
  /\ thread' = [thread EXCEPT ![t].pc =
       IF thread[t].old \in files THEN "served" ELSE "missed"]
  /\ UNCHANGED <<image, status, files, used, excused, overtaken, displayed>>

Respond(t) ==
  /\ thread[t].pc \in {"served", "missed"}
  /\ Finish(t)
  /\ UNCHANGED <<image, status, files, used, excused, displayed>>

-----------------------------------------------------------------------------
\* Files whose deletion, or whose commit, thread t still owed.
Owed(t) ==
  IF thread[t].pc = "stored" THEN {thread[t].new}
  ELSE IF Clearing(t) THEN {Leftover(thread[t])}
  ELSE {}

\* The process dies; SQLite rolls back, the directory keeps its files.
Crash ==
  /\ excused' = excused \union UNION {Owed(t) : t \in Threads}
  /\ thread' = [t \in Threads |-> Resting]
  /\ overtaken' = {}
  /\ UNCHANGED <<image, status, files, used, displayed>>

Next ==
  \/ \E t \in Threads :
       \/ \E p \in Products : Load(t, p) \/ SelectPublic(t, p)
       \/ Store(t) \/ StoreRefused(t) \/ StoreBroken(t) \/ Commit(t) \/ CommitFails(t)
       \/ Remove(t) \/ RemoveFails(t)
       \/ SelectOwn(t) \/ NotHis(t) \/ read_product_image(t) \/ Respond(t)
  \/ \E p \in Products, new \in Statuses : ChangeStatus(p, new)
  \/ Crash

Spec == Init /\ [][Next]_vars

-----------------------------------------------------------------------------
(* Properties. *)

\* Names are drawn before they are stored, shown or given up.
TypeOK ==
  /\ image \in [Products -> Names \union {NoFile}]
  /\ status \in [Products -> Statuses]
  /\ used \subseteq Names /\ files \subseteq used /\ excused \subseteq used
  /\ displayed \subseteq used /\ overtaken \subseteq Threads
  /\ \A t \in Threads : ~Idle(t) => thread[t].product \in Products

\* Every picture the database names is on disk, whatever requests race, fail or
\* are cut off: a file is removed only when no row can name it any more.
NoDanglingImage == \A p \in Products : image[p] # NoFile => image[p] \in files

\* A reader gets a 404 for a picture only when it was replaced meanwhile.
MissMeansReplaced ==
  \A t \in Threads :
    thread[t].pc = "missed" => image[thread[t].product] # thread[t].old

\* When nothing is under way the directory holds the pictures in use, what
\* crashes and failing unlinks left, what overlapping replacements of one
\* picture lost sight of, and no other file.
NoOrphanAtRest ==
  (\A t \in Threads : Idle(t)) =>
    files \subseteq excused \union {image[p] : p \in Products}

\* The picture of a product that is off sale stays the one that was reviewed:
\* it changes only through an edit that had begun before the product left the
\* sale, so once those are through it does not change at all.
FrozenOffSale ==
  [][\A p \in Products : image[p] # NoFile /\ image'[p] # image[p] =>
       status[p] = "active" \/ \E t \in overtaken : thread[t].product = p]_vars

\* What is sent as public, for caches to keep, has been on public display: the
\* picture such a late edit slips in is the owner's only.
PublicMeansDisplayed ==
  \A t \in Threads :
    At(t, "served") /\ thread[t].public => thread[t].old \in displayed

\* Readers are shown the picture there is, and caches what was public.
ReadersAreServed == MissMeansReplaced /\ PublicMeansDisplayed
=============================================================================
