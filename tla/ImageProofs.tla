----------------------------- MODULE ImageProofs -----------------------------
(***************************************************************************)
(* Theorems about ProductImages for any products, threads and names, and   *)
(* about Deployment, as SiteFiles composes it, for any processes.          *)
(***************************************************************************)
EXTENDS SiteFiles, TLAPS

Loading == [op : {"write"}, pc : {"loaded"}, product : Products, old : Names \union {NoFile}]

Storing == [op : {"write"}, pc : {"stored", "removing", "discarding"}, product : Products,
            old : Names \union {NoFile}, new : Names]

Reader == [op : {"read"}, pc : {"named", "private", "served", "missed"},
           product : Products, old : Names \union {NoFile}, public : BOOLEAN]

TypeInv ==
  /\ thread \in [Threads -> {Resting} \union Loading \union Storing \union Reader]
  /\ image \in [Products -> Names \union {NoFile}]
  /\ status \in [Products -> Statuses]
  /\ used \subseteq Names

\* A name belongs to one product, and its file is there.
ImageInv ==
  /\ \A p \in Products : image[p] # NoFile => image[p] \in files /\ image[p] \in used
  /\ \A p, q \in Products : image[p] # NoFile /\ image[p] = image[q] => p = q
  /\ \A p \in Products :
       image[p] # NoFile /\ status[p] = "active" => image[p] \in displayed

Pending(t) == thread[t].pc \in {"stored", "discarding"}

\* The new file of thread t is known to nobody else.
PendingOf(t) ==
  Pending(t) =>
    /\ thread[t].new \in used
    /\ thread[t].pc = "stored" => thread[t].new \in files
    /\ \A p \in Products : image[p] # thread[t].new
    /\ \A s \in Threads \ {t} : Pending(s) => thread[s].new # thread[t].new
    /\ \A s \in Threads : thread[s].pc # "idle" => thread[s].old # thread[t].new

\* The name thread t has loaded was that of its product and no other, and is in
\* use no more when its file is about to be removed.
OldOf(t) ==
  /\ thread[t].pc # "idle" => thread[t].old \in used \union {NoFile}
  /\ thread[t].op = "write" /\ thread[t].old # NoFile =>
       \A p \in Products \ {thread[t].product} : image[p] # thread[t].old
  /\ thread[t].pc = "removing" =>
       thread[t].old # NoFile /\ image[thread[t].product] # thread[t].old

\* A product in the making has one thread, and no other a name to lose.
CreationOf(t) ==
  thread[t].pc \in {"loaded", "stored"} /\ thread[t].old = NoFile =>
    /\ image[thread[t].product] = NoFile
    /\ \A s \in Threads \ {t} :
         thread[s].op = "write" => thread[s].product # thread[t].product

\* Who edits a product that is off sale had begun before it left the sale.
EditOf(t) ==
  thread[t].op = "write" /\ thread[t].old # NoFile /\ status[thread[t].product] # "active" =>
    t \in overtaken

ReaderOf(t) ==
  thread[t].op = "read" =>
    /\ thread[t].old # NoFile /\ image[thread[t].product] # NoFile
    /\ thread[t].pc = "missed" => image[thread[t].product] # thread[t].old
    /\ thread[t].public => thread[t].old \in displayed

ThreadInv ==
  \A t \in Threads : PendingOf(t) /\ OldOf(t) /\ CreationOf(t) /\ EditOf(t) /\ ReaderOf(t)

IInv == TypeInv /\ ImageInv /\ ThreadInv

-----------------------------------------------------------------------------
LEMMA RestingFacts == Resting.pc = "idle" /\ Resting.op = "none"
BY DEF Resting

LEMMA WritersWrite ==
  ASSUME IInv, NEW t \in Threads, thread[t].pc \in {"loaded", "stored"}
  PROVE  thread[t].op = "write"
BY RestingFacts DEF IInv, TypeInv, Loading, Storing, Reader

\* Who is done has nothing pending, as long as no file is gone that others need.
LEMMA FinishSafe ==
  ASSUME IInv, NEW t \in Threads, Finish(t), UNCHANGED <<image, status, displayed>>,
         used \subseteq used', used' \subseteq Names,
         \A p \in Products : image[p] # NoFile => image[p] \in files',
         \A s \in Threads \ {t} : thread[s].pc = "stored" => thread[s].new \in files'
  PROVE  IInv'
<1>1. TypeInv'
  BY DEF IInv, TypeInv, Finish
<1>2. /\ \A s \in Threads \ {t} : thread'[s] = thread[s]
      /\ thread'[t].pc = "idle" /\ thread'[t].op = "none"
      /\ overtaken' = overtaken \ {t}
  BY RestingFacts DEF IInv, TypeInv, Finish
<1>3. ImageInv'
  BY DEF IInv, ImageInv
<1>4. ASSUME NEW s \in Threads PROVE PendingOf(s)'
  BY <1>2 DEF IInv, ThreadInv, PendingOf, Pending
<1>5. ASSUME NEW s \in Threads PROVE OldOf(s)'
  BY <1>2 DEF IInv, ThreadInv, OldOf
<1>6. ASSUME NEW s \in Threads PROVE CreationOf(s)'
  BY <1>2 DEF IInv, ThreadInv, CreationOf
<1>7. ASSUME NEW s \in Threads PROVE EditOf(s)'
  BY <1>2 DEF IInv, ThreadInv, EditOf
<1>8. ASSUME NEW s \in Threads PROVE ReaderOf(s)'
  BY <1>2 DEF IInv, ThreadInv, ReaderOf
<1> QED BY <1>1, <1>3, <1>4, <1>5, <1>6, <1>7, <1>8 DEF IInv, ThreadInv

LEMMA LoadSafe ==
  ASSUME IInv, NEW t \in Threads, NEW p \in Products, Load(t, p)
  PROVE  IInv'
<1>1. /\ \A s \in Threads \ {t} : thread'[s] = thread[s]
      /\ thread'[t].op = "write" /\ thread'[t].pc = "loaded"
      /\ thread'[t].product = p /\ thread'[t].old = image[p]
      /\ UNCHANGED <<image, status, files, used, overtaken, displayed>>
  BY DEF IInv, TypeInv, Load
<1>2. image[p] \in used \union {NoFile}
  BY DEF IInv, TypeInv, ImageInv
<1>3. \A s \in Threads : Works(s, p) <=> thread[s].op = "write" /\ thread[s].product = p
  BY RestingFacts DEF Works, Idle
<1>4. TypeInv'
  BY DEF IInv, TypeInv, Load, Loading
<1>5. ImageInv'
  BY <1>1 DEF IInv, ImageInv
<1>6. ASSUME NEW s \in Threads PROVE PendingOf(s)'
  BY <1>1 DEF IInv, ThreadInv, PendingOf, Pending
<1>7. ASSUME NEW s \in Threads PROVE OldOf(s)'
  BY <1>1, <1>2 DEF IInv, ThreadInv, OldOf, ImageInv
<1>8. ASSUME NEW s \in Threads PROVE CreationOf(s)'
  <2>1. CASE s = t
    <3>1. image[p] = NoFile => \A r \in Threads : ~(thread[r].op = "write" /\ thread[r].product = p)
      BY <1>3 DEF Load
    <3> QED BY <1>1, <2>1, <3>1 DEF CreationOf
  <2>2. CASE s # t
    BY <1>1, <1>3, <2>2, WritersWrite DEF IInv, ThreadInv, CreationOf, Load
  <2> QED BY <2>1, <2>2
<1>9. ASSUME NEW s \in Threads PROVE EditOf(s)'
  BY <1>1 DEF IInv, ThreadInv, EditOf, Load, Editable
<1>10. ASSUME NEW s \in Threads PROVE ReaderOf(s)'
  BY <1>1 DEF IInv, ThreadInv, ReaderOf
<1> QED BY <1>4, <1>5, <1>6, <1>7, <1>8, <1>9, <1>10 DEF IInv, ThreadInv

\* A name that was never drawn is nobody's picture and nobody's loaded name.
LEMMA StoreSafe ==
  ASSUME IInv, NEW t \in Threads, Store(t)
  PROVE  IInv'
<1>1. PICK new \in Names \ used :
        /\ files' = files \union {new}
        /\ used' = used \union {new}
        /\ thread' = [thread EXCEPT ![t] =
             [op |-> "write", pc |-> "stored", product |-> thread[t].product,
              old |-> thread[t].old, new |-> new]]
  BY DEF Store, StoredFiles
<1>2. /\ \A s \in Threads \ {t} : thread'[s] = thread[s]
      /\ thread'[t].op = "write" /\ thread'[t].pc = "stored" /\ thread'[t].new = new
      /\ thread'[t].product = thread[t].product /\ thread'[t].old = thread[t].old
      /\ UNCHANGED <<image, status, overtaken, displayed>>
  BY <1>1 DEF IInv, TypeInv, Store
<1>3. thread[t] \in Loading /\ thread[t].pc = "loaded" /\ thread[t].op = "write"
  BY RestingFacts DEF IInv, TypeInv, Store, At, Loading, Storing, Reader
<1>4. TypeInv'
  BY <1>1, <1>2, <1>3 DEF IInv, TypeInv, Loading, Storing
<1>5. ImageInv'
  BY <1>1, <1>2 DEF IInv, ImageInv
<1>6. ASSUME NEW s \in Threads PROVE PendingOf(s)'
  <2>1. \A q \in Threads : thread[q].pc # "idle" => thread[q].old # new
    BY NoFileAssumption DEF IInv, ThreadInv, OldOf
  <2>2. \A p \in Products : image[p] # new
    BY NoFileAssumption DEF IInv, ImageInv
  <2>3. CASE s = t
    BY <1>1, <1>2, <1>3, <2>1, <2>2, <2>3 DEF IInv, ThreadInv, PendingOf, Pending
  <2>4. CASE s # t
    BY <1>1, <1>2, <1>3, <2>1, <2>2, <2>4 DEF IInv, ThreadInv, PendingOf, Pending
  <2> QED BY <2>3, <2>4
<1>7. ASSUME NEW s \in Threads PROVE OldOf(s)'
  BY <1>1, <1>2, <1>3 DEF IInv, ThreadInv, OldOf
<1>8. ASSUME NEW s \in Threads PROVE CreationOf(s)'
  BY <1>2, <1>3 DEF IInv, ThreadInv, CreationOf
<1>9. ASSUME NEW s \in Threads PROVE EditOf(s)'
  BY <1>2, <1>3 DEF IInv, ThreadInv, EditOf
<1>10. ASSUME NEW s \in Threads PROVE ReaderOf(s)'
  BY <1>2 DEF IInv, ThreadInv, ReaderOf
<1> QED BY <1>4, <1>5, <1>6, <1>7, <1>8, <1>9, <1>10 DEF IInv, ThreadInv

\* The new name reaches one product; the loaded one, which was that product's or
\* has been replaced already, is named by no row any more.
LEMMA CommitSafe ==
  ASSUME IInv, NEW t \in Threads, Commit(t)
  PROVE  IInv'
<1> DEFINE p == thread[t].product
           new == thread[t].new
           old == thread[t].old
<1>1. thread[t] \in Storing /\ thread[t].pc = "stored" /\ thread[t].op = "write"
  BY RestingFacts DEF IInv, TypeInv, Commit, At, Loading, Storing, Reader
<1>2. p \in Products /\ new \in Names /\ new # NoFile /\ old \in Names \union {NoFile}
  BY <1>1, NoFileAssumption DEF Storing
<1>3. /\ image' = [image EXCEPT ![p] = new]
      /\ displayed' = displayed \union (IF status[p] = "active" THEN {new} ELSE {})
      /\ UNCHANGED <<status, files, used>>
  BY DEF Commit
<1>4. /\ image'[p] = new /\ \A q \in Products \ {p} : image'[q] = image[q]
  BY <1>2, <1>3 DEF IInv, TypeInv
<1>5. \A s \in Threads \ {t} : thread'[s] = thread[s]
  BY DEF IInv, TypeInv, Commit, Finish
<1>6. \/ /\ old = NoFile /\ thread'[t].pc = "idle" /\ thread'[t].op = "none"
         /\ overtaken' = overtaken \ {t}
         /\ thread'[t] = Resting
      \/ /\ old # NoFile /\ thread'[t].pc = "removing" /\ thread'[t].op = "write"
         /\ thread'[t].old = old /\ thread'[t].product = p /\ overtaken' = overtaken
  <2>1. CASE old = NoFile
    BY <2>1, RestingFacts DEF IInv, TypeInv, Commit, Finish
  <2>2. CASE old # NoFile
    BY <1>1, <2>2 DEF IInv, TypeInv, Commit, Storing
  <2> QED BY <2>1, <2>2
<1>7. /\ new \in used /\ new \in files /\ \A q \in Products : image[q] # new
      /\ \A s \in Threads \ {t} : Pending(s) => thread[s].new # new
      /\ \A s \in Threads : thread[s].pc # "idle" => thread[s].old # new
  BY <1>1 DEF IInv, ThreadInv, PendingOf, Pending
<1>8. TypeInv'
  <2>1. thread' \in [Threads -> {Resting} \union Loading \union Storing \union Reader]
    <3>1. CASE old = NoFile
      BY <3>1 DEF IInv, TypeInv, Commit, Finish
    <3>2. CASE old # NoFile
      BY <1>1, <3>2 DEF IInv, TypeInv, Commit, Storing
    <3> QED BY <3>1, <3>2
  <2> QED BY <1>2, <1>3, <2>1 DEF IInv, TypeInv
<1>9. ImageInv'
  BY <1>3, <1>4, <1>7 DEF IInv, ImageInv
<1>10. ASSUME NEW s \in Threads PROVE PendingOf(s)'
  <2>1. CASE s = t
    BY <1>6, <2>1 DEF PendingOf, Pending
  <2>2. ASSUME s # t, Pending(s) PROVE PendingOf(s)'
    <3>1. /\ thread[s].new \in used /\ thread[s].new # new
          /\ thread[s].pc = "stored" => thread[s].new \in files
          /\ \A q \in Products : image[q] # thread[s].new
          /\ \A q \in Threads \ {s} : Pending(q) => thread[q].new # thread[s].new
          /\ \A q \in Threads : thread[q].pc # "idle" => thread[q].old # thread[s].new
      BY <1>7, <2>2 DEF IInv, ThreadInv, PendingOf
    <3>2. \A q \in Products : image'[q] # thread[s].new
      BY <1>4, <3>1
    <3>3. \A q \in Threads \ {s} : Pending(q)' => thread'[q].new # thread[s].new
      BY <1>5, <1>6, <3>1 DEF Pending
    <3>4. \A q \in Threads : thread'[q].pc # "idle" => thread'[q].old # thread[s].new
      BY <1>1, <1>5, <1>6, <3>1
    <3> QED BY <1>3, <1>5, <2>2, <3>1, <3>2, <3>3, <3>4 DEF PendingOf
  <2> QED BY <1>5, <2>1, <2>2 DEF PendingOf, Pending
<1>11. ASSUME NEW s \in Threads PROVE OldOf(s)'
  <2>1. thread[s].pc # "idle" => thread[s].old # new
    BY <1>7
  <2>2. thread[s].op = "write" => thread[s].pc # "idle"
    BY RestingFacts DEF IInv, TypeInv, Loading, Storing, Reader
  <2>3. CASE s = t
    BY <1>1, <1>3, <1>4, <1>6, <2>1, <2>3 DEF IInv, ThreadInv, OldOf
  <2>4. CASE s # t
    BY <1>3, <1>4, <1>5, <2>1, <2>2, <2>4 DEF IInv, ThreadInv, OldOf
  <2> QED BY <2>3, <2>4
<1>12. ASSUME NEW s \in Threads PROVE CreationOf(s)'
  <2>1. CASE s = t
    BY <1>6, <2>1 DEF CreationOf
  <2>2. ASSUME s # t, thread[s].pc \in {"loaded", "stored"}, thread[s].old = NoFile
        PROVE  CreationOf(s)'
    <3>1. /\ image[thread[s].product] = NoFile
          /\ \A q \in Threads \ {s} : thread[q].op = "write" => thread[q].product # thread[s].product
      BY <2>2 DEF IInv, ThreadInv, CreationOf
    <3>2. thread[s].product # p /\ thread[s].product \in Products
      BY <1>1, <2>2, <3>1, WritersWrite, RestingFacts DEF IInv, TypeInv, Loading, Storing, Reader
    <3>3. image'[thread[s].product] = NoFile
      BY <1>4, <3>1, <3>2
    <3>4. \A q \in Threads \ {s} :
            thread'[q].op = "write" => thread'[q].product # thread[s].product
      BY <1>1, <1>5, <1>6, <3>1
    <3> QED BY <1>5, <2>2, <3>3, <3>4 DEF CreationOf
  <2> QED BY <1>5, <2>1, <2>2 DEF CreationOf
<1>13. ASSUME NEW s \in Threads PROVE EditOf(s)'
  BY <1>1, <1>3, <1>5, <1>6 DEF IInv, ThreadInv, EditOf
<1>14. ASSUME NEW s \in Threads PROVE ReaderOf(s)'
  <2>1. thread[s].op = "read" => thread[s].old # new
    BY <1>7, RestingFacts DEF IInv, TypeInv, Loading, Storing, Reader
  <2> QED BY <1>2, <1>3, <1>4, <1>5, <1>6, <2>1 DEF IInv, ThreadInv, ReaderOf
<1> QED BY <1>8, <1>9, <1>10, <1>11, <1>12, <1>13, <1>14 DEF IInv, ThreadInv

LEMMA CommitFailsSafe ==
  ASSUME IInv, NEW t \in Threads, CommitFails(t)
  PROVE  IInv'
<1>1. thread[t] \in Storing /\ thread[t].pc = "stored" /\ thread[t].op = "write"
  BY RestingFacts DEF IInv, TypeInv, CommitFails, At, Loading, Storing, Reader
<1>2. /\ \A s \in Threads \ {t} : thread'[s] = thread[s]
      /\ thread'[t].op = "write" /\ thread'[t].pc = "discarding"
      /\ thread'[t].new = thread[t].new
      /\ thread'[t].product = thread[t].product /\ thread'[t].old = thread[t].old
      /\ UNCHANGED <<image, status, files, used, overtaken, displayed>>
  BY <1>1 DEF IInv, TypeInv, CommitFails, Storing
<1>3. TypeInv'
  BY <1>1 DEF IInv, TypeInv, CommitFails, Storing
<1>4. ImageInv'
  BY <1>2 DEF IInv, ImageInv
<1>5. ASSUME NEW s \in Threads PROVE PendingOf(s)'
  <2>1. CASE s = t
    BY <1>1, <1>2, <2>1 DEF IInv, ThreadInv, PendingOf, Pending
  <2>2. CASE s # t
    BY <1>1, <1>2, <2>2 DEF IInv, ThreadInv, PendingOf, Pending
  <2> QED BY <2>1, <2>2
<1>6. ASSUME NEW s \in Threads PROVE OldOf(s)'
  BY <1>1, <1>2 DEF IInv, ThreadInv, OldOf
<1>7. ASSUME NEW s \in Threads PROVE CreationOf(s)'
  BY <1>1, <1>2 DEF IInv, ThreadInv, CreationOf
<1>8. ASSUME NEW s \in Threads PROVE EditOf(s)'
  BY <1>1, <1>2 DEF IInv, ThreadInv, EditOf
<1>9. ASSUME NEW s \in Threads PROVE ReaderOf(s)'
  BY <1>2 DEF IInv, ThreadInv, ReaderOf
<1> QED BY <1>3, <1>4, <1>5, <1>6, <1>7, <1>8, <1>9 DEF IInv, ThreadInv

\* What is removed was given up, or was loaded and has been replaced.
LEMMA RemoveSafe ==
  ASSUME IInv, NEW t \in Threads, Remove(t)
  PROVE  IInv'
<1>1. Clearing(t) /\ files' = files \ {Leftover(thread[t])} /\ Finish(t)
      /\ UNCHANGED <<image, status, used, displayed>>
  BY DEF Remove
<1>2. thread[t] \in Storing /\ thread[t].op = "write"
  BY <1>1, RestingFacts DEF IInv, TypeInv, Clearing, Loading, Storing, Reader
<1>3. \A p \in Products : image[p] # Leftover(thread[t])
  <2>1. CASE thread[t].pc = "removing"
    BY <1>2, <2>1 DEF IInv, ThreadInv, OldOf, Leftover, Storing
  <2>2. CASE thread[t].pc = "discarding"
    BY <2>2 DEF IInv, ThreadInv, PendingOf, Pending, Leftover
  <2> QED BY <1>1, <2>1, <2>2 DEF Clearing
<1>4. \A s \in Threads \ {t} : thread[s].pc = "stored" => thread[s].new # Leftover(thread[t])
  <2>1. CASE thread[t].pc = "removing"
    BY <2>1 DEF IInv, ThreadInv, PendingOf, Pending, Leftover
  <2>2. CASE thread[t].pc = "discarding"
    BY <2>2 DEF IInv, ThreadInv, PendingOf, Pending, Leftover
  <2> QED BY <1>1, <2>1, <2>2 DEF Clearing
<1>5. \A p \in Products : image[p] # NoFile => image[p] \in files'
  BY <1>1, <1>3 DEF IInv, ImageInv
<1>6. \A s \in Threads \ {t} : thread[s].pc = "stored" => thread[s].new \in files'
  BY <1>1, <1>4 DEF IInv, ThreadInv, PendingOf, Pending
<1>7. used \subseteq used' /\ used' \subseteq Names
  BY <1>1 DEF IInv, TypeInv
<1> QED BY <1>1, <1>5, <1>6, <1>7, FinishSafe

\* The handlers that end without touching a file of others.
LEMMA GiveUpSafe ==
  ASSUME IInv, NEW t \in Threads,
         StoreRefused(t) \/ StoreBroken(t) \/ RemoveFails(t) \/ NotHis(t) \/ Respond(t)
  PROVE  IInv'
<1>1. /\ Finish(t) /\ UNCHANGED <<image, status, displayed>>
      /\ used \subseteq used' /\ used' \subseteq Names /\ files \subseteq files'
  BY DEF IInv, TypeInv, StoreRefused, StoreBroken, RemoveFails, NotHis, Respond
<1>2. \A p \in Products : image[p] # NoFile => image[p] \in files'
  BY <1>1 DEF IInv, ImageInv
<1>3. \A s \in Threads \ {t} : thread[s].pc = "stored" => thread[s].new \in files'
  BY <1>1 DEF IInv, ThreadInv, PendingOf, Pending
<1> QED BY <1>1, <1>2, <1>3, FinishSafe

LEMMA ChangeStatusSafe ==
  ASSUME IInv, NEW p \in Products, NEW new \in Statuses, ChangeStatus(p, new)
  PROVE  IInv'
<1>1. /\ status' = [status EXCEPT ![p] = new] /\ image[p] # NoFile
      /\ UNCHANGED <<image, files, used, thread>>
      /\ displayed' = displayed \union (IF new = "active" THEN {image[p]} ELSE {})
      /\ overtaken' = IF new = "active" THEN overtaken
                      ELSE overtaken \union {t \in Threads : Works(t, p)}
  BY DEF ChangeStatus
<1>2. /\ status'[p] = new /\ \A q \in Products \ {p} : status'[q] = status[q]
      /\ status' \in [Products -> Statuses]
  BY <1>1 DEF IInv, TypeInv
<1>3. TypeInv' /\ ImageInv'
  BY <1>1, <1>2 DEF IInv, TypeInv, ImageInv
<1>4. ASSUME NEW s \in Threads PROVE EditOf(s)'
  <2>1. thread[s].op = "write" => thread[s].product \in Products /\ ~Idle(s)
    BY RestingFacts DEF IInv, TypeInv, Loading, Storing, Reader, Idle
  <2> QED BY <1>1, <1>2, <2>1 DEF IInv, ThreadInv, EditOf, Works
<1>5. ASSUME NEW s \in Threads
      PROVE  PendingOf(s)' /\ OldOf(s)' /\ CreationOf(s)' /\ ReaderOf(s)'
  BY <1>1 DEF IInv, ThreadInv, PendingOf, Pending, OldOf, CreationOf, ReaderOf
<1> QED BY <1>3, <1>4, <1>5 DEF IInv, ThreadInv

-----------------------------------------------------------------------------
\* A reader who takes down the name of a picture changes nothing else.
LEMMA ReadingSafe ==
  ASSUME IInv, NEW t \in Threads, NEW p \in Products, image[p] # NoFile,
         NEW pc \in {"named", "private"}, NEW public \in BOOLEAN,
         public => Public(p),
         thread' = [thread EXCEPT ![t] = Reading(p, pc, public)],
         UNCHANGED <<image, status, files, used, overtaken, displayed>>
  PROVE  IInv'
<1>1. /\ \A s \in Threads \ {t} : thread'[s] = thread[s]
      /\ thread'[t].op = "read" /\ thread'[t].pc = pc /\ thread'[t].old = image[p]
      /\ thread'[t].product = p /\ thread'[t].public = public
  BY DEF IInv, TypeInv, Reading
<1>2. image[p] \in used /\ (public => image[p] \in displayed)
  BY DEF IInv, ImageInv, Public
<1>3. TypeInv'
  BY DEF IInv, TypeInv, Reading, Reader
<1>4. ImageInv'
  BY DEF IInv, ImageInv
<1>5. ASSUME NEW s \in Threads PROVE PendingOf(s)'
  BY <1>1 DEF IInv, ThreadInv, PendingOf, Pending
<1>6. ASSUME NEW s \in Threads PROVE OldOf(s)'
  BY <1>1, <1>2 DEF IInv, ThreadInv, OldOf
<1>7. ASSUME NEW s \in Threads PROVE CreationOf(s)'
  BY <1>1 DEF IInv, ThreadInv, CreationOf
<1>8. ASSUME NEW s \in Threads PROVE EditOf(s)'
  BY <1>1 DEF IInv, ThreadInv, EditOf
<1>9. ASSUME NEW s \in Threads PROVE ReaderOf(s)'
  BY <1>1, <1>2 DEF IInv, ThreadInv, ReaderOf
<1> QED BY <1>3, <1>4, <1>5, <1>6, <1>7, <1>8, <1>9 DEF IInv, ThreadInv

LEMMA SelectSafe ==
  ASSUME IInv, NEW t \in Threads,
         SelectOwn(t) \/ \E p \in Products : SelectPublic(t, p)
  PROVE  IInv'
<1>1. ASSUME NEW p \in Products, SelectPublic(t, p) PROVE IInv'
  <2>1. /\ image[p] # NoFile
        /\ UNCHANGED <<image, status, files, used, overtaken, displayed>>
    BY <1>1 DEF SelectPublic
  <2> DEFINE pc == IF Public(p) THEN "named" ELSE "private"
  <2>2. Public(p) \in BOOLEAN
    BY DEF Public
  <2>3. pc \in {"named", "private"}
    OBVIOUS
  <2>4. thread' = [thread EXCEPT ![t] = Reading(p, pc, Public(p))]
    BY <1>1 DEF SelectPublic
  <2> HIDE DEF pc
  <2> QED BY <2>1, <2>2, <2>3, <2>4, ReadingSafe
<1>2. ASSUME SelectOwn(t) PROVE IInv'
  <2>1. thread[t] \in Reader /\ thread[t].op = "read"
    BY <1>2, RestingFacts DEF IInv, TypeInv, SelectOwn, At, Loading, Storing, Reader
  <2>2. image[thread[t].product] # NoFile /\ thread[t].product \in Products
    BY <2>1 DEF IInv, ThreadInv, ReaderOf, Reader
  <2> QED BY <1>2, <2>2, ReadingSafe DEF SelectOwn
<1> QED BY <1>1, <1>2

\* A picture in use is on disk, so the file that is missing was replaced.
LEMMA ReadSafe ==
  ASSUME IInv, NEW t \in Threads, read_product_image(t)
  PROVE  IInv'
<1> DEFINE found == IF thread[t].old \in files THEN "served" ELSE "missed"
<1>1. thread[t] \in Reader /\ thread[t].op = "read" /\ thread[t].pc = "named"
  BY RestingFacts DEF IInv, TypeInv, read_product_image, At, Loading, Storing, Reader
<1>2. /\ \A s \in Threads \ {t} : thread'[s] = thread[s]
      /\ thread'[t].op = "read" /\ thread'[t].pc = found
      /\ thread'[t].old = thread[t].old /\ thread'[t].product = thread[t].product
      /\ thread'[t].public = thread[t].public
      /\ UNCHANGED <<image, status, files, used, overtaken, displayed>>
  BY <1>1 DEF IInv, TypeInv, read_product_image, Reader
<1>3. TypeInv'
  BY <1>1 DEF IInv, TypeInv, read_product_image, Reader
<1>4. ImageInv'
  BY <1>2 DEF IInv, ImageInv
<1>5. ASSUME NEW s \in Threads PROVE PendingOf(s)'
  BY <1>1, <1>2 DEF IInv, ThreadInv, PendingOf, Pending
<1>6. ASSUME NEW s \in Threads PROVE OldOf(s)'
  BY <1>1, <1>2 DEF IInv, ThreadInv, OldOf
<1>7. ASSUME NEW s \in Threads PROVE CreationOf(s)'
  BY <1>1, <1>2 DEF IInv, ThreadInv, CreationOf
<1>8. ASSUME NEW s \in Threads PROVE EditOf(s)'
  BY <1>1, <1>2 DEF IInv, ThreadInv, EditOf
<1>9. ASSUME NEW s \in Threads PROVE ReaderOf(s)'
  <2>1. found = "missed" => image[thread[t].product] # thread[t].old
    BY <1>1 DEF IInv, ThreadInv, ReaderOf, ImageInv, Reader
  <2> QED BY <1>1, <1>2, <2>1 DEF IInv, ThreadInv, ReaderOf
<1> QED BY <1>3, <1>4, <1>5, <1>6, <1>7, <1>8, <1>9 DEF IInv, ThreadInv

LEMMA CrashSafe == ASSUME IInv, Crash PROVE IInv'
<1>1. /\ \A t \in Threads : thread'[t].pc = "idle" /\ thread'[t].op = "none"
      /\ UNCHANGED <<image, status, files, used, displayed>>
  BY RestingFacts DEF Crash
<1>2. TypeInv' /\ ImageInv'
  BY DEF IInv, TypeInv, ImageInv, Crash
<1>3. ThreadInv'
  BY <1>1 DEF ThreadInv, PendingOf, Pending, OldOf, CreationOf, EditOf, ReaderOf
<1> QED BY <1>2, <1>3 DEF IInv

-----------------------------------------------------------------------------
LEMMA InitSafe == ASSUME Init PROVE IInv
<1>1. \A t \in Threads : thread[t].pc = "idle" /\ thread[t].op = "none"
  BY RestingFacts DEF Init
<1>2. TypeInv /\ ImageInv
  BY DEF Init, TypeInv, ImageInv, Statuses
<1>3. ThreadInv
  BY <1>1 DEF ThreadInv, PendingOf, Pending, OldOf, CreationOf, EditOf, ReaderOf
<1> QED BY <1>2, <1>3 DEF IInv

LEMMA NextSafe == ASSUME IInv, [Next]_vars PROVE IInv'
<1>1. CASE UNCHANGED vars
  BY <1>1 DEF vars, IInv, TypeInv, ImageInv, ThreadInv, PendingOf, Pending, OldOf,
              CreationOf, EditOf, ReaderOf
<1>2. ASSUME NEW t \in Threads, NEW p \in Products, Load(t, p) \/ SelectPublic(t, p)
      PROVE  IInv'
  BY <1>2, LoadSafe, SelectSafe
<1>3. ASSUME NEW t \in Threads,
             Store(t) \/ Commit(t) \/ CommitFails(t) \/ Remove(t) \/ SelectOwn(t)
             \/ read_product_image(t)
      PROVE  IInv'
  BY <1>3, StoreSafe, CommitSafe, CommitFailsSafe, RemoveSafe, SelectSafe, ReadSafe
<1>4. ASSUME NEW t \in Threads,
             StoreRefused(t) \/ StoreBroken(t) \/ RemoveFails(t) \/ NotHis(t) \/ Respond(t)
      PROVE  IInv'
  BY <1>4, GiveUpSafe
<1>5. ASSUME NEW p \in Products, NEW new \in Statuses, ChangeStatus(p, new) PROVE IInv'
  BY <1>5, ChangeStatusSafe
<1>6. CASE Crash
  BY <1>6, CrashSafe
<1> QED BY <1>1, <1>2, <1>3, <1>4, <1>5, <1>6 DEF Next

\* Who knows which file name: kept by every step of every request, and by a crash.
THEOREM Invariance == Spec => []IInv
<1>1. Init => IInv
  BY InitSafe
<1>2. IInv /\ [Next]_vars => IInv'
  BY NextSafe
<1> QED BY <1>1, <1>2, PTL DEF Spec

\* A picture that is in the database is on disk, however many requests write,
\* fail, and are cut off by crashes.
THEOREM PicturesAreThere == Spec => []NoDanglingImage
<1>1. IInv => NoDanglingImage
  BY DEF IInv, ImageInv, NoDanglingImage
<1> QED BY <1>1, Invariance, PTL

\* A reader who gets a 404 for a picture looked for one that has been replaced.
THEOREM MissesAreReplacements == Spec => []MissMeansReplaced
<1>1. IInv => MissMeansReplaced
  BY RestingFacts DEF IInv, TypeInv, ThreadInv, ReaderOf, MissMeansReplaced, Loading, Storing, Reader
<1> QED BY <1>1, Invariance, PTL

\* What caches are told to keep was on public display.
THEOREM PublicPicturesWereDisplayed == Spec => []PublicMeansDisplayed
<1>1. IInv => PublicMeansDisplayed
  BY RestingFacts DEF IInv, TypeInv, ThreadInv, ReaderOf, PublicMeansDisplayed, At, Loading, Storing, Reader
<1> QED BY <1>1, Invariance, PTL

\* The picture of a product that is off sale changes through edits only that had
\* begun before it left the sale.
THEOREM OffSaleIsFrozen == Spec => FrozenOffSale
<1>1. ASSUME IInv, NEW t \in Threads, Commit(t), NEW p \in Products,
             image[p] # NoFile, image'[p] # image[p], status[p] # "active"
      PROVE  t \in overtaken /\ thread[t].product = p
  <2>1. thread[t] \in Storing /\ thread[t].op = "write" /\ thread[t].pc = "stored"
    BY <1>1, RestingFacts DEF IInv, TypeInv, Commit, At, Loading, Storing, Reader
  <2>2. thread[t].product = p
    BY <1>1, <2>1 DEF IInv, TypeInv, Commit, Storing
  <2>3. thread[t].old # NoFile
    BY <1>1, <2>1, <2>2 DEF IInv, ThreadInv, CreationOf
  <2> QED BY <1>1, <2>1, <2>2, <2>3 DEF IInv, ThreadInv, EditOf
<1>2. ASSUME IInv, [Next]_vars, NEW p \in Products, image[p] # NoFile, image'[p] # image[p],
             status[p] # "active"
      PROVE  \E t \in overtaken : thread[t].product = p
  <2>1. \E t \in Threads : Commit(t)
    BY <1>2 DEF Next, vars, Load, SelectPublic, Store, StoreRefused, StoreBroken, CommitFails,
                Remove, RemoveFails, SelectOwn, NotHis, read_product_image, Respond,
                ChangeStatus, Crash
  <2> QED BY <1>1, <1>2, <2>1
<1>3. IInv /\ [Next]_vars =>
        \A p \in Products : image[p] # NoFile /\ image'[p] # image[p] =>
          status[p] = "active" \/ \E t \in overtaken : thread[t].product = p
  BY <1>2
<1> QED BY <1>3, Invariance, PTL DEF Spec, FrozenOffSale

\* Readers are shown the picture there is, and caches what was public.
THEOREM ReadersServed == Spec => []ReadersAreServed
BY MissesAreReplacements, PublicPicturesWereDisplayed, PTL DEF ReadersAreServed

-----------------------------------------------------------------------------
\* Names are drawn before anything is done with them, and a product that has a
\* picture keeps one.
NameInv ==
  /\ files \subseteq used /\ excused \subseteq used
  /\ displayed \subseteq used /\ overtaken \subseteq Threads
  /\ \A t \in Threads : thread[t].op = "write" /\ thread[t].old # NoFile =>
       image[thread[t].product] # NoFile

LEMMA OwedUsed ==
  ASSUME IInv, NEW t \in Threads
  PROVE  /\ Owed(t) \subseteq used
         /\ Clearing(t) => Leftover(thread[t]) \in used
<1>1. CASE thread[t].pc = "removing"
  BY <1>1 DEF IInv, ThreadInv, OldOf, Owed, Clearing, Leftover
<1>2. CASE thread[t].pc \in {"stored", "discarding"}
  BY <1>2 DEF IInv, ThreadInv, PendingOf, Pending, Owed, Clearing, Leftover
<1> QED BY <1>1, <1>2 DEF Owed, Clearing

\* Every step keeps it.
LEMMA NameStep == ASSUME IInv, NameInv, [Next]_vars PROVE NameInv'
<1> USE RestingFacts DEF IInv, TypeInv, NameInv
<1>1. CASE UNCHANGED vars
  BY <1>1 DEF vars
<1>2. ASSUME NEW t \in Threads, NEW p \in Products, Load(t, p) \/ SelectPublic(t, p)
      PROVE  NameInv'
  BY <1>2 DEF Load, SelectPublic, Reading
<1>3. ASSUME NEW t \in Threads,
             CommitFails(t) \/ SelectOwn(t) \/ read_product_image(t)
      PROVE  NameInv'
  BY <1>3 DEF CommitFails, SelectOwn, read_product_image, Reading, At, Loading, Storing, Reader
<1>4. ASSUME NEW t \in Threads, Store(t) PROVE NameInv'
  BY <1>4 DEF Store, StoredFiles, At, Loading, Storing, Reader
<1>5. ASSUME NEW t \in Threads, Commit(t) PROVE NameInv'
  <2>1. thread[t] \in Storing /\ thread[t].pc = "stored"
    BY <1>5 DEF Commit, At, Loading, Reader
  <2>2. thread[t].new \in used /\ thread[t].new # NoFile
    BY <2>1, NoFileAssumption DEF ThreadInv, PendingOf, Pending, Storing
  <2>3. image[thread[t].product] \in used \union {thread[t].old}
    BY <2>1 DEF ImageInv, ThreadInv, CreationOf, Storing
  <2>4. excused' \subseteq used /\ displayed' \subseteq used
    BY <1>5, <2>2, <2>3 DEF Commit
  <2>5. overtaken' \subseteq Threads /\ files' \subseteq used'
    BY <1>5 DEF Commit, Finish
  <2>6. image' = [image EXCEPT ![thread[t].product] = thread[t].new]
    BY <1>5 DEF Commit
  <2>7. \A s \in Threads : thread'[s].op = "write" =>
          /\ thread[s].op = "write" /\ thread[s].old = thread'[s].old
          /\ thread[s].product = thread'[s].product
    BY <1>5, <2>1 DEF Commit, Finish, Storing, Loading, Reader
  <2> QED BY <1>5, <2>1, <2>2, <2>4, <2>5, <2>6, <2>7 DEF Commit, Storing
<1>6. ASSUME NEW t \in Threads,
             Remove(t) \/ StoreRefused(t) \/ StoreBroken(t) \/ RemoveFails(t)
             \/ NotHis(t) \/ Respond(t)
      PROVE  NameInv'
  BY <1>6, OwedUsed DEF Remove, StoreRefused, StoreBroken, RemoveFails, NotHis, Respond, Finish
<1>7. ASSUME NEW p \in Products, NEW new \in Statuses, ChangeStatus(p, new) PROVE NameInv'
  BY <1>7 DEF ChangeStatus, ImageInv
<1>8. CASE Crash
  BY <1>8, OwedUsed DEF Crash
<1> QED BY <1>1, <1>2, <1>3, <1>4, <1>5, <1>6, <1>7, <1>8 DEF Next

\* The type invariant, with names drawn before they are stored, shown or given up.
THEOREM TypeCorrect == Spec => []TypeOK
<1>1. Init => NameInv
  BY RestingFacts DEF Init, NameInv
<1>2. IInv /\ NameInv /\ [Next]_vars => NameInv'
  BY NameStep
<1>3. IInv /\ NameInv => TypeOK
  BY RestingFacts DEF IInv, TypeInv, NameInv, TypeOK, Idle, Loading, Storing, Reader
<1> QED BY <1>1, <1>2, <1>3, Invariance, PTL DEF Spec

-----------------------------------------------------------------------------
\* Every file in the directory is somebody's: a row names it, a thread still
\* has to commit or to remove it, or it is excused.
Accounted(f) ==
  \/ f \in excused
  \/ \E p \in Products : image[p] = f
  \/ \E t \in Threads : f \in Owed(t)

OrphanInv == \A f \in files : Accounted(f)

\* A thread that does not move owes what it owed.
LEMMA OwedStays ==
  ASSUME NEW t \in Threads, thread'[t] = thread[t]
  PROVE  Owed(t)' = Owed(t)
BY DEF Owed, Clearing, Leftover

\* A step that leaves the rows and the excuses alone loses no file, provided
\* that the thread that takes it owes what it owed, or more.
LEMMA StillAccounted ==
  ASSUME NEW t \in Threads, \A s \in Threads \ {t} : thread'[s] = thread[s],
         Owed(t) \subseteq Owed(t)', UNCHANGED image, excused \subseteq excused',
         NEW f, Accounted(f)
  PROVE  Accounted(f)'
BY OwedStays DEF Accounted

LEMMA CommitAccounts ==
  ASSUME IInv, NameInv, OrphanInv, NEW t \in Threads, Commit(t)
  PROVE  OrphanInv'
<1> DEFINE w == thread[t]
           p == thread[t].product
<1>1. w \in Storing /\ w.pc = "stored" /\ p \in Products
  BY RestingFacts DEF IInv, TypeInv, Commit, At, Loading, Storing, Reader
<1>2. /\ image' = [image EXCEPT ![p] = w.new] /\ image \in [Products -> Names \union {NoFile}]
      /\ excused' = excused \union ({image[p]} \ {w.old})
      /\ files' = files
  BY DEF IInv, TypeInv, Commit
<1>3. \A s \in Threads \ {t} : thread'[s] = thread[s]
  BY <1>1 DEF IInv, TypeInv, Commit, Finish
<1>4. w.old # NoFile => Owed(t)' = {w.old}
  <2>1. w.old # NoFile => thread'[t] = [w EXCEPT !.pc = "removing"]
    BY DEF IInv, TypeInv, Commit
  <2> QED
    BY <1>1, <2>1 DEF Owed, Clearing, Leftover, Storing
<1>5. Owed(t) = {w.new}
  BY <1>1 DEF Owed
<1>6. NoFile \notin files
  BY NoFileAssumption DEF IInv, TypeInv, NameInv
<1> SUFFICES ASSUME NEW f \in files PROVE Accounted(f)'
  BY <1>2 DEF OrphanInv
<1>7. CASE f \in excused
  BY <1>2, <1>7 DEF Accounted
<1>8. ASSUME NEW q \in Products \ {p}, image[q] = f PROVE Accounted(f)'
  BY <1>1, <1>2, <1>8 DEF Accounted
<1>9. CASE image[p] = f
  BY <1>2, <1>4, <1>6, <1>9 DEF Accounted
<1>10. CASE f \in Owed(t)
  BY <1>1, <1>2, <1>5, <1>10 DEF Accounted
<1>11. ASSUME NEW s \in Threads \ {t}, f \in Owed(s) PROVE Accounted(f)'
  BY <1>3, <1>11, OwedStays DEF Accounted
<1> QED
  BY <1>1, <1>7, <1>8, <1>9, <1>10, <1>11 DEF OrphanInv, Accounted

LEMMA OrphanStep == ASSUME IInv, NameInv, OrphanInv, [Next]_vars PROVE OrphanInv'
<1>1. /\ thread \in [Threads -> {Resting} \union Loading \union Storing \union Reader]
      /\ Resting.pc = "idle"
  BY RestingFacts DEF IInv, TypeInv
<1>2. ASSUME NEW t \in Threads, thread[t].pc \notin {"stored", "removing", "discarding"},
             \A s \in Threads \ {t} : thread'[s] = thread[s],
             UNCHANGED <<image, files>>, excused \subseteq excused'
      PROVE  OrphanInv'
  <2>1. Owed(t) = {}
    BY <1>2 DEF Owed, Clearing
  <2> QED
    BY <1>2, <2>1, StillAccounted DEF OrphanInv
<1>3. ASSUME NEW t \in Threads,
             \/ \E p \in Products : Load(t, p) \/ SelectPublic(t, p)
             \/ SelectOwn(t) \/ NotHis(t) \/ StoreRefused(t)
             \/ read_product_image(t) \/ Respond(t)
      PROVE  OrphanInv'
  <2>1. /\ thread[t].pc \in {"idle", "loaded", "private", "named", "served", "missed"}
        /\ \A s \in Threads \ {t} : thread'[s] = thread[s]
        /\ UNCHANGED <<image, files, excused>>
    BY <1>1, <1>3 DEF Load, SelectPublic, SelectOwn, NotHis, StoreRefused,
       read_product_image, Respond, Idle, At, Finish
  <2> QED
    BY <1>2, <2>1
<1>4. ASSUME NEW t \in Threads, Store(t) PROVE OrphanInv'
  <2>1. PICK new \in Names \ used :
          /\ files' = files \union {new}
          /\ thread' = [thread EXCEPT ![t] =
               [op |-> "write", pc |-> "stored", product |-> thread[t].product,
                old |-> thread[t].old, new |-> new]]
    BY <1>4 DEF Store, StoredFiles
  <2>2. /\ \A s \in Threads \ {t} : thread'[s] = thread[s]
        /\ UNCHANGED <<image, excused>>
        /\ Owed(t) = {}
    BY <1>1, <1>4, <2>1 DEF Store, Owed, Clearing, At
  <2>3. Owed(t)' = {new}
    BY <1>1, <2>1 DEF Owed
  <2>4. \A f \in files : Accounted(f)'
    BY <2>2, <2>3, StillAccounted DEF OrphanInv
  <2>5. Accounted(new)'
    BY <2>3 DEF Accounted
  <2> QED
    BY <2>1, <2>4, <2>5 DEF OrphanInv
<1>5. ASSUME NEW t \in Threads, StoreBroken(t) PROVE OrphanInv'
  <2>1. PICK new \in Names \ used :
          files' = files \union {new} /\ excused' = excused \union {new}
    BY <1>5 DEF StoreBroken
  <2>2. /\ \A s \in Threads \ {t} : thread'[s] = thread[s]
        /\ UNCHANGED image /\ Owed(t) = {}
    BY <1>1, <1>5 DEF StoreBroken, Finish, Owed, Clearing, At
  <2>3. \A f \in files : Accounted(f)'
    BY <2>1, <2>2, StillAccounted DEF OrphanInv
  <2>4. Accounted(new)'
    BY <2>1 DEF Accounted
  <2> QED
    BY <2>1, <2>3, <2>4 DEF OrphanInv
<1>6. ASSUME NEW t \in Threads, CommitFails(t) PROVE OrphanInv'
  <2>1. thread[t] \in Storing /\ thread[t].pc = "stored"
    BY <1>1, <1>6 DEF CommitFails, At, Loading, Reader
  <2>2. thread'[t] = [thread[t] EXCEPT !.pc = "discarding"]
    BY <1>1, <1>6 DEF CommitFails
  <2>3. Owed(t) = {thread[t].new} /\ Owed(t)' = {thread[t].new}
    BY <2>1, <2>2 DEF Owed, Clearing, Leftover, Storing
  <2>4. /\ \A s \in Threads \ {t} : thread'[s] = thread[s]
        /\ UNCHANGED <<image, files, excused>>
    BY <1>1, <1>6 DEF CommitFails
  <2> QED
    BY <2>3, <2>4, StillAccounted DEF OrphanInv
<1>7. ASSUME NEW t \in Threads, Remove(t) \/ RemoveFails(t) PROVE OrphanInv'
  <2>1. Owed(t) = {Leftover(thread[t])}
    BY <1>7 DEF Remove, RemoveFails, Owed, Clearing
  <2>2. /\ \A s \in Threads \ {t} : thread'[s] = thread[s]
        /\ UNCHANGED image /\ files' \subseteq files
        /\ \/ files' = files \ Owed(t) /\ excused' = excused
           \/ excused' = excused \union Owed(t)
    BY <1>1, <1>7, <2>1 DEF Remove, RemoveFails, Finish
  <2> QED
    BY <2>2, OwedStays DEF OrphanInv, Accounted
<1>8. ASSUME NEW p \in Products, NEW new \in Statuses, ChangeStatus(p, new)
      PROVE  OrphanInv'
  BY <1>8, OwedStays DEF ChangeStatus, OrphanInv, Accounted
<1>9. CASE Crash
  BY <1>9 DEF Crash, OrphanInv, Accounted
<1>10. CASE UNCHANGED vars
  BY <1>10, OwedStays DEF vars, OrphanInv, Accounted
<1> QED
  BY <1>3, <1>4, <1>5, <1>6, <1>7, <1>8, <1>9, <1>10, CommitAccounts DEF Next

\* When nothing is under way, a file that no row names was left by a crash or a
\* failing unlink, or lost from sight by overlapping replacements.
THEOREM NoOrphans == Spec => []NoOrphanAtRest
<1>1. Init => NameInv /\ OrphanInv
  BY RestingFacts DEF Init, NameInv, OrphanInv
<1>2. IInv /\ NameInv /\ [Next]_vars => NameInv'
  BY NameStep
<1>3. IInv /\ NameInv /\ OrphanInv /\ [Next]_vars => OrphanInv'
  BY OrphanStep
<1>4. OrphanInv => NoOrphanAtRest
  <2>1. ASSUME NEW t \in Threads, Idle(t) PROVE Owed(t) = {}
    BY <2>1, RestingFacts DEF Idle, Owed, Clearing
  <2> QED
    BY <2>1 DEF OrphanInv, Accounted, NoOrphanAtRest
<1> QED BY <1>1, <1>2, <1>3, <1>4, Invariance, PTL DEF Spec

-----------------------------------------------------------------------------
(* Setting the site up: .env, instance directory and database.             *)

Contents == {"empty", "part", "whole", "placeholder"}

Phases == {"idle", "opening", "writing", "written", "unlinking", "died", "mkdir",
           "chmod", "created", "connected", "ready"}

SetupType ==
  /\ env \in {NoFile} \union [by : Processes \union {Nobody}, content : Contents]
  /\ proc \in [Processes -> [pc : Phases,
                             key : {"none", "short", "cut", "placeholder", "good"}]]
  /\ promised \in Processes \union {Nobody}

\* Who is past O_EXCL owns the .env there is, and nobody has reported it yet.
WriterInv ==
  \A p \in Processes : proc[p].pc \in {"writing", "written", "unlinking"} =>
    /\ env # NoFile /\ env.by = p /\ promised = Nobody
    /\ proc[p].pc = "written" => env.content = "whole"

\* Directory and file are narrowed before a start uses them, and never widened.
StartInv ==
  \A p \in Processes :
    /\ proc[p].pc = "died" => proc[p].key \notin Setup!Accepted
    /\ proc[p].pc \in {"created", "connected", "ready"} => directory = "private"
    /\ proc[p].pc = "ready" => database = "private"

SetupInv ==
  /\ SetupType /\ WriterInv /\ StartInv
  /\ Setup!ReportedFileStays /\ Setup!RowsArePrivate

LEMMA SetupInit == Setup!Init => SetupInv
BY DEF Setup!Init, Setup!Resting, SetupInv, SetupType, WriterInv, StartInv, Phases,
       Setup!ReportedFileStays, Setup!RowsArePrivate

\* What a step of one process does to the others' places.
Advances(p, pc) ==
  /\ proc' \in [Processes -> [pc : Phases,
                              key : {"none", "short", "cut", "placeholder", "good"}]]
  /\ \A q \in Processes \ {p} : proc'[q] = proc[q]
  /\ proc'[p].pc = pc

LEMMA SetupGoto ==
  ASSUME SetupType, NEW p \in Processes, NEW pc \in Phases, Setup!Goto(p, pc)
  PROVE  Advances(p, pc)
<1>1. [proc[p] EXCEPT !.pc = pc] \in
        [pc : Phases, key : {"none", "short", "cut", "placeholder", "good"}]
  BY DEF SetupType
<1>2. proc' = [proc EXCEPT ![p] = [proc[p] EXCEPT !.pc = pc]]
  BY DEF Setup!Goto
<1> QED
  BY <1>1, <1>2 DEF SetupType, Advances

LEMMA SetupFinish ==
  ASSUME SetupType, NEW p \in Processes, Setup!Finish(p)
  PROVE  Advances(p, "idle")
BY DEF SetupType, Setup!Finish, Setup!Resting, Advances, Phases

\* Steps of the bootstrap script leave what a start works on alone.
LEMMA BootstrapStep ==
  ASSUME SetupInv, NEW p \in Processes,
         \/ Setup!Bootstrap(p) \/ Setup!OpenEnv(p) \/ Setup!WriteEnv(p)
         \/ Setup!EnvFails(p) \/ Setup!UnlinkEnv(p) \/ Setup!Report(p)
  PROVE  SetupInv'
<1> USE DEF SetupInv, Setup!At
<1>1. UNCHANGED <<directory, database, rows>>
  BY DEF Setup!Bootstrap, Setup!OpenEnv, Setup!WriteEnv, Setup!EnvFails,
         Setup!UnlinkEnv, Setup!Report
<1>2. ASSUME NEW pc \in {"idle", "opening", "writing", "written", "unlinking"},
             Advances(p, pc)
      PROVE  StartInv' /\ Setup!RowsArePrivate'
  BY <1>1, <1>2 DEF Advances, StartInv, Setup!RowsArePrivate
<1>3. CASE Setup!Bootstrap(p)
  <2>1. Advances(p, "opening") /\ UNCHANGED <<env, promised>>
    BY <1>3, SetupGoto DEF Setup!Bootstrap, Phases
  <2>2. SetupType' /\ WriterInv' /\ Setup!ReportedFileStays'
    BY <2>1 DEF Advances, SetupType, WriterInv, Setup!ReportedFileStays, Setup!File
  <2> QED BY <1>2, <2>1, <2>2
<1>4. CASE Setup!OpenEnv(p)
  <2>1. CASE env = NoFile
    <3>1. /\ env' = [by |-> p, content |-> "empty"] /\ UNCHANGED promised
          /\ Advances(p, "writing")
      BY <1>4, <2>1, SetupGoto DEF Setup!OpenEnv, Setup!File, Phases
    <3>2. promised = Nobody
      BY <2>1, SetupAssumption DEF Setup!ReportedFileStays, Setup!File, SetupType
    <3>3. \A q \in Processes :
            proc[q].pc \notin {"writing", "written", "unlinking"}
      BY <2>1 DEF WriterInv
    <3>4. env' # NoFile
      BY <3>1, SetupAssumption
    <3>5. SetupType' /\ WriterInv' /\ Setup!ReportedFileStays'
      BY <3>1, <3>2, <3>3, <3>4
         DEF Advances, SetupType, Contents, WriterInv, Setup!ReportedFileStays
    <3> QED BY <1>2, <3>1, <3>5
  <2>2. CASE env # NoFile
    <3>1. Advances(p, "idle") /\ UNCHANGED <<env, promised>>
      BY <1>4, <2>2, SetupFinish DEF Setup!OpenEnv, Setup!Unlinked
    <3>2. SetupType' /\ WriterInv' /\ Setup!ReportedFileStays'
      BY <3>1 DEF Advances, SetupType, WriterInv, Setup!ReportedFileStays, Setup!File
    <3> QED BY <1>2, <3>1, <3>2
  <2> QED BY <2>1, <2>2
<1>5. CASE Setup!WriteEnv(p)
  <2>1. /\ env # NoFile /\ env.by = p /\ promised = Nobody /\ UNCHANGED promised
        /\ env \in [by : Processes \union {Nobody}, content : Contents]
    BY <1>5 DEF Setup!WriteEnv, WriterInv, SetupType
  <2>2. PICK content \in {"part", "whole"} :
          /\ env' = [env EXCEPT !.content = content]
          /\ Setup!Goto(p, IF content = "whole" THEN "written" ELSE "writing")
    BY <1>5, <2>1 DEF Setup!WriteEnv
  <2>3. /\ env' \in [by : Processes \union {Nobody}, content : Contents]
        /\ env'.by = p /\ env'.content = content
    BY <2>1, <2>2 DEF Contents
  <2>4. env' # NoFile
    BY <2>3, SetupAssumption DEF Contents
  <2>5. Advances(p, IF content = "whole" THEN "written" ELSE "writing")
    BY <2>2, SetupGoto DEF Phases
  <2>6. SetupType' /\ Setup!ReportedFileStays'
    BY <2>1, <2>3, <2>5 DEF Advances, SetupType, Setup!ReportedFileStays
  <2>7. WriterInv'
    BY <2>1, <2>3, <2>4, <2>5 DEF Advances, WriterInv
  <2> QED BY <1>2, <2>5, <2>6, <2>7
<1>6. CASE Setup!EnvFails(p)
  <2>1. Advances(p, "unlinking") /\ UNCHANGED <<env, promised>>
    BY <1>6, SetupGoto DEF Setup!EnvFails, Setup!Unlinked, Phases
  <2>2. SetupType' /\ WriterInv' /\ Setup!ReportedFileStays'
    BY <1>6, <2>1 DEF Advances, SetupType, WriterInv, Setup!EnvFails,
                      Setup!ReportedFileStays, Setup!File
  <2> QED BY <1>2, <2>1, <2>2
<1>7. CASE Setup!UnlinkEnv(p)
  <2>1. Advances(p, "idle") /\ env' \in {env, NoFile} /\ UNCHANGED promised
    BY <1>7, SetupFinish DEF Setup!UnlinkEnv
  <2>2. env.by = p /\ promised = Nobody
    BY <1>7 DEF Setup!UnlinkEnv, WriterInv
  <2>3. SetupType' /\ WriterInv' /\ Setup!ReportedFileStays'
    BY <2>1, <2>2 DEF Advances, SetupType, WriterInv, Setup!ReportedFileStays
  <2> QED BY <1>2, <2>1, <2>3
<1>8. CASE Setup!Report(p)
  <2>1. Advances(p, "idle") /\ UNCHANGED env /\ promised' = p
    BY <1>8, SetupFinish DEF Setup!Report
  <2>2. env # NoFile /\ env.by = p /\ env.content = "whole"
    BY <1>8 DEF Setup!Report, WriterInv
  <2>3. env = [by |-> p, content |-> "whole"]
    BY <2>2 DEF SetupType
  <2>4. SetupType' /\ WriterInv' /\ Setup!ReportedFileStays'
    BY <2>1, <2>2, <2>3 DEF Advances, SetupType, WriterInv,
                            Setup!ReportedFileStays, Setup!File
  <2> QED BY <1>2, <2>1, <2>4
<1> QED
  BY <1>3, <1>4, <1>5, <1>6, <1>7, <1>8

\* Steps of a start leave .env alone.
LEMMA StartStep ==
  ASSUME SetupInv, NEW p \in Processes,
         \/ Setup!Start(p) \/ Setup!Mkdir(p) \/ Setup!SecureDirectory(p)
         \/ Setup!Connect(p) \/ Setup!SecureDatabase(p) \/ Setup!Write(p)
         \/ Setup!Exit(p)
  PROVE  SetupInv'
<1> USE DEF SetupInv, Setup!At
<1>1. UNCHANGED <<env, promised>>
  BY DEF Setup!Start, Setup!Mkdir, Setup!SecureDirectory, Setup!Connect,
         Setup!SecureDatabase, Setup!Write, Setup!Exit
<1>2. ASSUME NEW pc \in Phases \ {"writing", "written", "unlinking"}, Advances(p, pc)
      PROVE  SetupType' /\ WriterInv' /\ Setup!ReportedFileStays'
  BY <1>1, <1>2 DEF Advances, SetupType, WriterInv, Setup!ReportedFileStays, Setup!File
<1>3. CASE Setup!Start(p)
  <2>1. PICK key \in Setup!Keys :
          proc' = [proc EXCEPT ![p] =
            [key |-> key,
             pc |-> IF key \notin Setup!Accepted THEN "died"
                    ELSE IF directory = "absent" THEN "mkdir" ELSE "chmod"]]
    BY <1>3 DEF Setup!Start
  <2>2. key \in {"none", "short", "cut", "placeholder", "good"}
    <3>1. env = NoFile \/ env.content \in Contents
      BY DEF SetupType
    <3> QED BY <3>1 DEF Setup!Keys, Contents
  <2> DEFINE pc == IF key \notin Setup!Accepted THEN "died"
                   ELSE IF directory = "absent" THEN "mkdir" ELSE "chmod"
  <2>3. pc \in {"died", "mkdir", "chmod"} /\ Advances(p, pc) /\ proc'[p].key = key
    BY <2>1, <2>2 DEF SetupType, Phases, Advances
  <2>4. StartInv' /\ Setup!RowsArePrivate'
    BY <1>3, <2>3 DEF Setup!Start, Advances, StartInv, Setup!RowsArePrivate
  <2> HIDE DEF pc
  <2> QED BY <1>2, <2>3, <2>4 DEF Phases
<1>4. CASE Setup!Mkdir(p)
  <2>1. Advances(p, "chmod")
    BY <1>4, SetupGoto DEF Setup!Mkdir, Phases
  <2>2. StartInv' /\ Setup!RowsArePrivate'
    BY <1>4, <2>1 DEF Setup!Mkdir, Advances, StartInv, Setup!RowsArePrivate
  <2> QED BY <1>2, <2>1, <2>2 DEF Phases
<1>5. CASE Setup!SecureDirectory(p)
  <2>1. Advances(p, "created")
    BY <1>5, SetupGoto DEF Setup!SecureDirectory, Phases
  <2>2. StartInv' /\ Setup!RowsArePrivate'
    BY <1>5, <2>1 DEF Setup!SecureDirectory, Advances, StartInv, Setup!RowsArePrivate
  <2> QED BY <1>2, <2>1, <2>2 DEF Phases
<1>6. CASE Setup!Connect(p)
  <2>1. Advances(p, "connected")
    BY <1>6, SetupGoto DEF Setup!Connect, Setup!AfterConnect, Phases
  <2>2. StartInv' /\ Setup!RowsArePrivate'
    BY <1>6, <2>1 DEF Setup!Connect, Advances, StartInv, Setup!RowsArePrivate
  <2> QED BY <1>2, <2>1, <2>2 DEF Phases
<1>7. CASE Setup!SecureDatabase(p)
  <2>1. Advances(p, "ready")
    BY <1>7, SetupGoto DEF Setup!SecureDatabase, Phases
  <2>2. StartInv' /\ Setup!RowsArePrivate'
    BY <1>7, <2>1 DEF Setup!SecureDatabase, Advances, StartInv, Setup!RowsArePrivate
  <2> QED BY <1>2, <2>1, <2>2 DEF Phases
<1>8. CASE Setup!Write(p)
  BY <1>1, <1>8 DEF Setup!Write, SetupType, WriterInv, StartInv,
                    Setup!ReportedFileStays, Setup!RowsArePrivate, Setup!File
<1>9. CASE Setup!Exit(p)
  <2>1. Advances(p, "idle")
    BY <1>9, SetupFinish DEF Setup!Exit
  <2>2. StartInv' /\ Setup!RowsArePrivate'
    BY <1>9, <2>1 DEF Setup!Exit, Advances, StartInv, Setup!RowsArePrivate
  <2> QED BY <1>2, <2>1, <2>2 DEF Phases
<1> QED
  BY <1>3, <1>4, <1>5, <1>6, <1>7, <1>8, <1>9

LEMMA SetupStep ==
  ASSUME SetupInv, [Setup!Next]_setupVars
  PROVE  SetupInv'
<1> USE DEF SetupInv
<1>1. CASE Setup!CopyExample
  <2>1. promised = Nobody
    BY <1>1, SetupAssumption DEF Setup!CopyExample, Setup!ReportedFileStays, Setup!File,
                                 SetupType
  <2> QED
    BY <1>1, <2>1 DEF Setup!CopyExample, Setup!Bootstrapping, Setup!File, Contents,
       SetupType, WriterInv, StartInv, Setup!ReportedFileStays, Setup!RowsArePrivate
<1>2. CASE Setup!RemoveEnv
  BY <1>2 DEF Setup!RemoveEnv, Setup!Bootstrapping, SetupType, WriterInv, StartInv,
              Setup!ReportedFileStays, Setup!RowsArePrivate
<1>3. CASE Setup!MakeDirectory
  BY <1>3 DEF Setup!MakeDirectory, SetupType, WriterInv, StartInv,
              Setup!ReportedFileStays, Setup!RowsArePrivate, Setup!File
<1>4. CASE UNCHANGED setupVars
  BY <1>4 DEF setupVars, SetupType, WriterInv, StartInv,
              Setup!ReportedFileStays, Setup!RowsArePrivate, Setup!File
<1> QED
  BY <1>1, <1>2, <1>3, <1>4, BootstrapStep, StartStep DEF Setup!Next

THEOREM SetupInvariance == FilesSpec => []SetupInv
<1>1. FilesInit => SetupInv
  BY SetupInit DEF FilesInit
<1>2. SetupInv /\ [FilesNext]_<<vars, setupVars>> => SetupInv'
  <2>1. [FilesNext]_<<vars, setupVars>> => [Setup!Next]_setupVars
    BY DEF FilesNext
  <2> QED
    BY <2>1, SetupStep
<1> QED
  BY <1>1, <1>2, PTL DEF FilesSpec

\* A .env whose creation was reported stays as it was reported until the operator
\* removes it, however many bootstraps run, fail or are killed beside it.
THEOREM ReportedFilesStay == FilesSpec => []ReportedFileStays
<1>1. SetupInv => ReportedFileStays
  BY DEF SetupInv, ReportedFileStays
<1> QED
  BY <1>1, SetupInvariance, PTL

\* A start gives up on its key only, and what it writes nobody else can read.
THEOREM StartsEnd == FilesSpec => []StartsEndWell
<1>1. SetupInv => StartsEndWell
  BY DEF SetupInv, StartInv, StartsEndWell, Setup!StartsEndWell, Setup!DiesOfItsKey,
         Setup!At
<1> QED
  BY <1>1, SetupInvariance, PTL
=============================================================================
