---------------------------- MODULE WalletProofs ----------------------------
(***************************************************************************)
(* Theorems about WalletSite for any users, request threads, opening balance,  *)
(* amount limits and number of tokens.                                     *)
(***************************************************************************)
EXTENDS WalletSite, FiniteSetTheorems, WellFoundedInduction, TLAPS

\* The lock is held by exactly the thread that is inside its transaction.
LockInv == \A r \in Requests : InTransaction(r) <=> lock = r

\* A thread that serves a request serves one that was submitted.
RequestInv ==
  \A r \in Requests :
    /\ req[r].pc # "idle" => req[r].sender \in Users /\ req[r].token \in Tokens
    /\ InTransaction(r) \/ req[r].pc = "admitted" => req[r].amount \in Amounts

Passed(r) == req[r].pc \in {"checked", "inserted", "debited", "credited"}

\* What Check established holds until the transaction ends: nobody else can
\* write in between.
CheckedInv ==
  \A r \in Requests : Passed(r) =>
    /\ req[r].to \in Users /\ req[r].to # req[r].sender
    /\ status[req[r].sender] = "active" /\ status[req[r].to] = "active"
    /\ ~L!Spent(derive_idempotency_key(r))

\* How the writer's view differs from the committed tables, step by step.
ViewOf(r) ==
  LET s == req[r].sender  to == req[r].to  a == req[r].amount
      row == Append(transfers, Row(r)) IN
  /\ req[r].pc \in {"begun", "checked"} => work = Committed
  /\ req[r].pc = "inserted" => work = [Committed EXCEPT !.transfers = row]
  /\ req[r].pc = "debited" =>
       /\ balance[s] >= a
       /\ work = [Committed EXCEPT !.transfers = row,
                    !.balance = [balance EXCEPT ![s] = @ - a]]
  /\ req[r].pc = "credited" =>
       /\ balance[s] >= a
       /\ work = [Committed EXCEPT !.transfers = row,
                    !.balance = [balance EXCEPT ![s] = @ - a, ![to] = @ + a]]

WorkInv ==
  /\ lock = NoRequest => work = Committed
  /\ \A r \in Requests : ViewOf(r)

UniqueKeys ==
  \A i, j \in DOMAIN transfers : transfers[i].key = transfers[j].key => i = j

IInv == TypeOK /\ LockInv /\ RequestInv /\ CheckedInv /\ WorkInv /\ UniqueKeys

\* u can still pay with token t, or has paid with it.
InUse(u, t) ==
  \/ form[u] = t
  \/ \E r \in Requests : req[r].pc # "idle" /\ req[r].sender = u /\ req[r].token = t
  \/ \E i \in DOMAIN transfers : transfers[i].key = <<u, t>>

\* One token at a time for one purpose.
OneInUse ==
  \A u \in Users : \A t1, t2 \in DOMAIN intent :
    /\ InUse(u, t1) /\ InUse(u, t2)
    /\ intent[t1] = intent[t2] /\ intent[t1] \notin misled
    => t1 = t2

\* Forms, requests and keys only name tokens that were handed out, a key names
\* its row's sender, and a purpose is no later than the token that began it.
Known ==
  /\ \A t \in DOMAIN intent : intent[t] <= Len(intent)
  /\ \A u \in Users : form[u] <= Len(intent)
  /\ \A r \in Requests : req[r].token <= Len(intent)
  /\ \A i \in DOMAIN transfers :
       /\ transfers[i].key[1] = transfers[i].sender
       /\ transfers[i].key[2] \in DOMAIN intent

IntentInv == Known /\ OneInUse

-----------------------------------------------------------------------------
(* What the elementary moves of a thread change. *)

\* Thread r moves to q; its request (payload and sender) may stay what it was.
Moves(r, pc) ==
  /\ req' \in [Requests -> Request]
  /\ \A q \in Requests \ {r} : req'[q] = req[q]
  /\ req'[r].pc = pc

SameRequest(r) ==
  /\ req'[r].sender = req[r].sender /\ req'[r].to = req[r].to
  /\ req'[r].amount = req[r].amount /\ req'[r].token = req[r].token

LEMMA GotoMoves ==
  ASSUME TypeOK, NEW r \in Requests, NEW pc \in PCs, Goto(r, pc)
  PROVE  Moves(r, pc) /\ SameRequest(r)
<1>1. req[r] \in Request /\ req' = [req EXCEPT ![r] = [req[r] EXCEPT !.pc = pc]]
  BY DEF TypeOK, Goto
<1>2. [req[r] EXCEPT !.pc = pc] \in Request
  BY <1>1 DEF Request
<1> QED
  BY <1>1, <1>2 DEF TypeOK, Moves, SameRequest, Request

LEMMA ReplyMoves ==
  ASSUME TypeOK, NEW r \in Requests, NEW outcome \in Outcomes, Reply(r, outcome)
  PROVE  Moves(r, "answering") /\ SameRequest(r)
<1> DEFINE q == [req[r] EXCEPT !.pc = "answering", !.outcome = outcome]
<1>1. req[r] \in Request /\ req' = [req EXCEPT ![r] = q]
  BY DEF TypeOK, Reply
<1>2. q \in Request
  BY <1>1 DEF Request, PCs
<1> QED
  BY <1>1, <1>2 DEF TypeOK, Moves, SameRequest, Request

LEMMA RowIsTyped ==
  ASSUME IInv, NEW r \in Requests, Passed(r)
  PROVE  /\ Row(r) \in TransferRow
         /\ Append(transfers, Row(r)) \in Seq(TransferRow)
         /\ req[r].sender \in Users /\ req[r].to \in Users
         /\ req[r].amount \in Nat
<1>1. /\ req[r].sender \in Users /\ req[r].token \in Tokens
      /\ req[r].amount \in Amounts
  BY DEF IInv, RequestInv, Passed, InTransaction
<1>2. req[r].to \in Users
  BY DEF IInv, CheckedInv
<1>3. req[r].amount \in Nat
  BY <1>1, AmountAssumption DEF Amounts
<1>4. Row(r) \in TransferRow
  BY <1>1, <1>2 DEF Row, TransferRow, derive_idempotency_key, Keys
<1>5. Append(transfers, Row(r)) \in Seq(TransferRow)
  BY <1>4 DEF IInv, TypeOK
<1> QED
  BY <1>1, <1>2, <1>3, <1>4, <1>5

\* A thread outside any transaction does not touch those inside.
LEMMA OutsideStep ==
  ASSUME IInv, NEW r \in Requests, ~InTransaction(r), ~InTransaction(r)',
         \A q \in Requests \ {r} : req'[q] = req[q],
         UNCHANGED <<db, status, lock, work>>
  PROVE  LockInv' /\ CheckedInv' /\ WorkInv' /\ UniqueKeys'
<1> USE DEF IInv, db
<1>1. LockInv'
  BY DEF LockInv, InTransaction
<1>2. CheckedInv'
  BY DEF CheckedInv, Passed, InTransaction, L!Spent, derive_idempotency_key
<1>3. WorkInv'
  <2>1. ASSUME NEW q \in Requests PROVE ViewOf(q)'
    <3>1. CASE q = r
      BY <3>1 DEF ViewOf, InTransaction
    <3>2. CASE q # r
      <4>1. ViewOf(q) /\ req'[q] = req[q] /\ UNCHANGED <<balance, transfers, audits, work>>
        BY <3>2 DEF WorkInv
      <4> QED BY <4>1 DEF ViewOf, Committed, Row, derive_idempotency_key
    <3> QED BY <3>1, <3>2
  <2>2. lock' = NoRequest => work' = Committed'
    BY DEF WorkInv, Committed
  <2> QED BY <2>1, <2>2 DEF WorkInv
<1>4. UniqueKeys'
  BY DEF UniqueKeys
<1> QED
  BY <1>1, <1>2, <1>3, <1>4

\* Ending the transaction leaves nobody inside one.
LEMMA NobodyInside ==
  ASSUME LockInv, NEW r \in Requests, InTransaction(r), ~InTransaction(r)',
         \A q \in Requests \ {r} : req'[q] = req[q]
  PROVE  \A q \in Requests : ~InTransaction(q)'
  BY DEF LockInv, InTransaction

LEMMA AbortStep ==
  ASSUME IInv, NEW r \in Requests, InTransaction(r),
         NEW outcome \in Outcomes, Abort(r, outcome),
         UNCHANGED <<db, status, form, intent, misled>>
  PROVE  IInv'
<1>1. Moves(r, "answering") /\ SameRequest(r)
  BY ReplyMoves DEF IInv, Abort
<1>2. \A q \in Requests : ~InTransaction(q)'
  BY <1>1, NobodyInside DEF IInv, Moves, InTransaction
<1>3. lock' = NoRequest /\ work' = Committed /\ Committed' = Committed
  BY DEF Abort, Rollback, Committed, db
<1>4. TypeOK'
  BY <1>1, <1>3 DEF IInv, TypeOK, Moves, db, Committed
<1>5. LockInv'
  BY <1>2, <1>3, RequestAssumption DEF LockInv
<1>6. RequestInv'
  BY <1>1, <1>2 DEF IInv, RequestInv, Moves, SameRequest, InTransaction
<1>7. CheckedInv'
  BY <1>2 DEF CheckedInv, Passed, InTransaction
<1>8. WorkInv'
  BY <1>2, <1>3 DEF WorkInv, ViewOf, InTransaction
<1>9. UniqueKeys'
  BY DEF IInv, UniqueKeys, db
<1> QED
  BY <1>4, <1>5, <1>6, <1>7, <1>8, <1>9 DEF IInv

-----------------------------------------------------------------------------
LEMMA InitIInv == Init => IInv
<1> SUFFICES ASSUME Init PROVE IInv
  OBVIOUS
<1> USE DEF Init, Idle
<1>1. TypeOK
  BY AmountAssumption, RequestAssumption
     DEF TypeOK, Request, Committed, PCs, Outcomes, Refusals, Typed, Tokens
<1>2. LockInv /\ RequestInv /\ CheckedInv
  BY RequestAssumption DEF LockInv, RequestInv, CheckedInv, InTransaction, Passed
<1>3. WorkInv
  BY DEF WorkInv, ViewOf
<1>4. UniqueKeys
  BY DEF UniqueKeys
<1> QED
  BY <1>1, <1>2, <1>3, <1>4 DEF IInv

LEMMA FormKeeps ==
  ASSUME IInv, NEW u \in Users, transfer_form(u)
  PROVE  IInv'
<1> USE DEF IInv, transfer_form, db
<1>1. TypeOK'
  <2>1. /\ intent \in Seq(Tokens) /\ Len(intent) < MaxTokens /\ MaxTokens \in Nat
        /\ intent' = Append(intent, Len(intent) + 1)
        /\ form' = [form EXCEPT ![u] = Len(intent) + 1]
    BY AmountAssumption DEF NewToken, TypeOK
  <2>2. Len(intent) \in Nat /\ Len(intent) + 1 \in Tokens /\ Len(intent) + 1 \in 0 .. MaxTokens
    BY <2>1 DEF Tokens
  <2>3. intent' \in Seq(Tokens) /\ Len(intent') = Len(intent) + 1 /\ Len(intent') <= MaxTokens
    BY <2>1, <2>2
  <2>4. form' \in [Users -> 0 .. MaxTokens]
    BY <2>1, <2>2 DEF TypeOK
  <2> QED BY <2>3, <2>4 DEF TypeOK
<1>2. LockInv' /\ RequestInv' /\ UniqueKeys'
  BY DEF LockInv, RequestInv, UniqueKeys, InTransaction
<1>3. CheckedInv' /\ WorkInv'
  BY DEF CheckedInv, WorkInv, ViewOf, Passed, InTransaction, L!Spent,
         Committed, Row, derive_idempotency_key
<1> QED
  BY <1>1, <1>2, <1>3

LEMMA SubmitKeeps ==
  ASSUME IInv, NEW u \in Users, NEW r \in Requests,
         NEW to \in Users \union {NoUser}, NEW amount \in Typed,
         NEW correct \in BOOLEAN, Submit(u, r, to, amount, correct)
  PROVE  IInv'
<1> DEFINE q == [pc |-> "received", sender |-> u, to |-> to, amount |-> amount,
                 token |-> form[u], correct |-> correct, outcome |-> "none"]
<1>1. form[u] \in Tokens
  BY AmountAssumption DEF IInv, TypeOK, Submit, Tokens
<1>2. q \in Request
  BY <1>1 DEF Request, PCs, Tokens
<1>3. req' = [req EXCEPT ![r] = q] /\ req[r].pc = "idle"
  BY DEF Submit
<1>4. /\ Moves(r, "received") /\ req'[r] = q
  BY <1>2, <1>3 DEF IInv, TypeOK, Moves
<1>5. TypeOK'
  BY <1>4 DEF IInv, TypeOK, Submit, db, Moves
<1>6. RequestInv'
  BY <1>1, <1>4 DEF IInv, RequestInv, Moves, InTransaction
<1>7. LockInv' /\ CheckedInv' /\ WorkInv' /\ UniqueKeys'
  BY <1>3, <1>4, OutsideStep DEF Submit, Moves, InTransaction
<1> QED
  BY <1>5, <1>6, <1>7 DEF IInv

LEMMA AdmitKeeps ==
  ASSUME IInv, NEW r \in Requests, Admit(r)
  PROVE  IInv'
<1>1. /\ SameRequest(r)
      /\ \/ Moves(r, "answering")
         \/ Moves(r, "admitted") /\ req[r].amount \in Amounts
  <2>1. CASE Reply(r, "login") \/ Reply(r, "invalid")
    BY <2>1, ReplyMoves DEF IInv, Outcomes, Refusals
  <2>2. CASE req[r].amount \in Amounts /\ Goto(r, "admitted")
    BY <2>2, GotoMoves DEF IInv, PCs
  <2> QED
    BY <2>1, <2>2 DEF Admit
<1>2. TypeOK'
  BY <1>1 DEF IInv, TypeOK, Admit, db, Moves
<1>3. RequestInv'
  BY <1>1 DEF IInv, RequestInv, Admit, Moves, SameRequest, InTransaction
<1>4. LockInv' /\ CheckedInv' /\ WorkInv' /\ UniqueKeys'
  BY <1>1, OutsideStep DEF Admit, Moves, InTransaction
<1> QED
  BY <1>2, <1>3, <1>4 DEF IInv

LEMMA BusyKeeps ==
  ASSUME IInv, NEW r \in Requests, Busy(r)
  PROVE  IInv'
<1>1. Moves(r, "answering") /\ SameRequest(r)
  BY ReplyMoves DEF IInv, Busy, Outcomes
<1>2. TypeOK'
  BY <1>1 DEF IInv, TypeOK, Busy, db, Moves
<1>3. RequestInv'
  BY <1>1 DEF IInv, RequestInv, Busy, Moves, SameRequest, InTransaction
<1>4. LockInv' /\ CheckedInv' /\ WorkInv' /\ UniqueKeys'
  BY <1>1, OutsideStep DEF Busy, Moves, InTransaction
<1> QED
  BY <1>2, <1>3, <1>4 DEF IInv

LEMMA BeginKeeps ==
  ASSUME IInv, NEW r \in Requests, Begin(r)
  PROVE  IInv'
<1>1. Moves(r, "begun") /\ SameRequest(r)
  BY GotoMoves DEF IInv, Begin, PCs
<1>2. \A q \in Requests : InTransaction(q)' <=> q = r
  BY <1>1, RequestAssumption
     DEF IInv, LockInv, Begin, LockFree, Moves, InTransaction
<1>3. /\ lock' = r /\ work' = Committed /\ Committed' = Committed
  BY DEF Begin, Committed, db
<1>4. TypeOK'
  BY <1>1, <1>3 DEF IInv, TypeOK, Begin, db, Moves, Committed
<1>5. LockInv'
  BY <1>2, <1>3 DEF LockInv
<1>6. RequestInv'
  BY <1>1, <1>2 DEF IInv, RequestInv, Begin, Moves, SameRequest
<1>7. CheckedInv'
  BY <1>1, <1>2 DEF CheckedInv, Passed, InTransaction, Moves
<1>8. WorkInv'
  BY <1>1, <1>2, <1>3, RequestAssumption DEF WorkInv, ViewOf, InTransaction, Moves
<1>9. UniqueKeys'
  BY DEF IInv, UniqueKeys, Begin, db
<1> QED
  BY <1>4, <1>5, <1>6, <1>7, <1>8, <1>9 DEF IInv

LEMMA FaultKeeps ==
  ASSUME IInv, NEW r \in Requests, Fault(r)
  PROVE  IInv'
  BY AbortStep DEF Fault, Outcomes
LEMMA BackToIdle ==
  ASSUME IInv, NEW r \in Requests, req[r].pc = "answering",
         req' = [req EXCEPT ![r] = Idle], UNCHANGED <<db, status, lock, work>>,
         form' \in [Users -> 0 .. MaxTokens],
         intent' \in Seq(Tokens), Len(intent') <= MaxTokens, misled' \subseteq Tokens
  PROVE  IInv'
<1>1. Idle \in Request
  BY AmountAssumption DEF Idle, Request, PCs
<1>2. Moves(r, "idle")
  BY <1>1 DEF IInv, TypeOK, Moves, Idle
<1>3. TypeOK'
  BY <1>2 DEF IInv, TypeOK, db, Moves
<1>4. RequestInv'
  BY <1>2 DEF IInv, RequestInv, Moves, InTransaction
<1>5. LockInv' /\ CheckedInv' /\ WorkInv' /\ UniqueKeys'
  BY <1>2, OutsideStep DEF Moves, InTransaction
<1> QED
  BY <1>3, <1>4, <1>5 DEF IInv

LEMMA DeliverKeeps ==
  ASSUME IInv, IntentInv, NEW r \in Requests, Deliver(r)
  PROVE  IInv'
<1>1. /\ req[r].sender \in Users /\ req[r].token \in Tokens
      /\ intent \in Seq(Tokens) /\ misled \subseteq Tokens
      /\ req[r].token <= Len(intent)
  BY DEF IInv, TypeOK, RequestInv, IntentInv, Known, Deliver
<1>2. misled' \subseteq Tokens
  <2>1. intent[req[r].token] \in Tokens
    BY <1>1, AmountAssumption DEF Tokens
  <2> QED
    BY <1>1, <2>1 DEF Deliver
<1>3. ASSUME NEW purpose \in Tokens, NewToken(req[r].sender, purpose)
      PROVE  IInv'
  <2>1. /\ form' \in [Users -> 0 .. MaxTokens]
        /\ intent' \in Seq(Tokens) /\ Len(intent') <= MaxTokens
    BY <1>1, <1>3, AmountAssumption DEF IInv, TypeOK, NewToken, Tokens
  <2> QED
    BY <1>2, <2>1, BackToIdle DEF Deliver, db
<1>4. CASE Rotates(req[r].outcome)
  <2>1. intent[req[r].token] \in Tokens
    BY <1>1, AmountAssumption DEF Tokens
  <2>2. Len(intent) < MaxTokens => Len(intent) + 1 \in Tokens
    BY <1>1, AmountAssumption DEF Tokens
  <2>3. \E purpose \in Tokens : NewToken(req[r].sender, purpose)
    BY <1>4, <2>1, <2>2 DEF Deliver, NewToken
  <2> QED
    BY <1>3, <2>3
<1>5. CASE ~Rotates(req[r].outcome)
  <2>1. form' = [form EXCEPT ![req[r].sender] =
                   IF req[r].outcome = "error" THEN req[r].token ELSE 0]
    BY <1>5 DEF Deliver
  <2>2. form' \in [Users -> 0 .. MaxTokens]
    BY <1>1, <2>1, AmountAssumption DEF IInv, TypeOK, Tokens
  <2> QED
    BY <1>2, <1>5, <2>2, BackToIdle DEF IInv, TypeOK, Deliver, db
<1> QED
  BY <1>4, <1>5

LEMMA CheckKeeps ==
  ASSUME IInv, NEW r \in Requests, Check(r)
  PROVE  IInv'
<1>1. InTransaction(r) /\ work = Committed
  BY DEF IInv, WorkInv, ViewOf, Check, InTransaction
<1>2. ASSUME NEW outcome \in Outcomes, Abort(r, outcome)
      PROVE  IInv'
  BY <1>1, <1>2, AbortStep DEF Check
<1>3. CASE /\ Authentic(r) /\ existing_transfer(r) = {}
           /\ req[r].to \in Users /\ req[r].to # req[r].sender
           /\ status[req[r].to] = "active"
           /\ Goto(r, "checked") /\ UNCHANGED <<lock, work>>
  <2>1. Moves(r, "checked") /\ SameRequest(r)
    BY <1>3, GotoMoves DEF IInv, PCs
  <2>2. ~L!Spent(derive_idempotency_key(r))
    BY <1>1, <1>3 DEF existing_transfer, L!Spent, Committed
  <2>3. /\ UNCHANGED <<balance, transfers, audits, status, lock, work, form, intent,
                         misled>>
        /\ Committed' = Committed
    BY <1>3 DEF Check, db, Committed
  <2>4. TypeOK'
    BY <2>1, <2>3 DEF IInv, TypeOK, Moves
  <2>5. LockInv'
    BY <1>1, <2>1, <2>3 DEF IInv, LockInv, Moves, InTransaction
  <2>6. RequestInv'
    BY <1>1, <2>1 DEF IInv, RequestInv, Moves, SameRequest, InTransaction
  <2>7. CheckedInv'
    BY <1>1, <1>3, <2>1, <2>2, <2>3
       DEF IInv, CheckedInv, Moves, SameRequest, Passed, Authentic, L!Spent,
           derive_idempotency_key
  <2>8. WorkInv'
    <3>1. ViewOf(r)'
      BY <1>1, <2>1, <2>3 DEF ViewOf, Moves
    <3>2. ASSUME NEW q \in Requests \ {r} PROVE ViewOf(q)'
      <4>1. ViewOf(q) /\ req'[q] = req[q]
        BY <2>1 DEF IInv, WorkInv, Moves
      <4> QED BY <2>3, <4>1 DEF ViewOf, Row, derive_idempotency_key
    <3> QED BY <1>1, <2>3, <3>1, <3>2 DEF WorkInv
  <2>9. UniqueKeys'
    BY <2>3 DEF IInv, UniqueKeys
  <2> QED
    BY <2>4, <2>5, <2>6, <2>7, <2>8, <2>9 DEF IInv
<1> QED
  BY <1>2, <1>3 DEF Check, Outcomes, Refusals
View == [balance : [Users -> Nat], transfers : Seq(TransferRow),
         audits : SUBSET Nat]

\* A step of the writer that stays inside its transaction keeps everything but
\* its own view, and what it has to show is its new view.
LEMMA InsideStep ==
  ASSUME IInv, NEW r \in Requests, Passed(r),
         NEW pc \in {"inserted", "debited", "credited"}, Goto(r, pc),
         UNCHANGED <<db, status, lock, form, intent, misled>>,
         work' \in View, ViewOf(r)'
  PROVE  IInv'
<1>1. Moves(r, pc) /\ SameRequest(r)
  BY GotoMoves DEF IInv, PCs
<1>2. InTransaction(r) /\ InTransaction(r)' /\ lock = r
  BY <1>1 DEF IInv, LockInv, Passed, InTransaction, Moves
<1>3. \A q \in Requests \ {r} : ~InTransaction(q) /\ ~InTransaction(q)'
  BY <1>1, <1>2 DEF IInv, LockInv, Moves, InTransaction
<1>4. TypeOK'
  BY <1>1 DEF IInv, TypeOK, View, db, Moves
<1>5. LockInv'
  BY <1>2, <1>3 DEF LockInv
<1>6. RequestInv'
  BY <1>1, <1>2 DEF IInv, RequestInv, Moves, SameRequest, InTransaction
<1>7. CheckedInv'
  BY <1>1, <1>3 DEF IInv, CheckedInv, Moves, SameRequest, Passed, InTransaction,
     L!Spent, derive_idempotency_key, db
<1>8. WorkInv'
  BY <1>2, <1>3, RequestAssumption DEF WorkInv, ViewOf, InTransaction
<1>9. UniqueKeys'
  BY DEF IInv, UniqueKeys, db
<1> QED
  BY <1>4, <1>5, <1>6, <1>7, <1>8, <1>9 DEF IInv

LEMMA InsertKeeps ==
  ASSUME IInv, NEW r \in Requests, Insert(r)
  PROVE  IInv'
<1>1. Passed(r) /\ work = Committed
  BY DEF IInv, WorkInv, ViewOf, Insert, Passed
<1>2. Append(transfers, Row(r)) \in Seq(TransferRow)
  BY <1>1, RowIsTyped
<1>3. Moves(r, "inserted") /\ SameRequest(r)
  BY GotoMoves DEF IInv, Insert, PCs
<1>4. work' = [Committed EXCEPT !.transfers = Append(transfers, Row(r))]
  BY <1>1 DEF Insert, Committed
<1>5. work' \in View
  BY <1>2, <1>4 DEF IInv, TypeOK, View, Committed
<1>6. ViewOf(r)'
  BY <1>3, <1>4 DEF ViewOf, Moves, SameRequest, Insert, db, Committed, Row,
     derive_idempotency_key
<1> QED
  BY <1>1, <1>5, <1>6, InsideStep DEF Insert

LEMMA DebitKeeps ==
  ASSUME IInv, NEW r \in Requests, debit_sender(r)
  PROVE  IInv'
<1> DEFINE s == req[r].sender
           a == req[r].amount
<1>1. /\ Passed(r) /\ InTransaction(r)
      /\ work = [Committed EXCEPT !.transfers = Append(transfers, Row(r))]
  BY DEF IInv, WorkInv, ViewOf, debit_sender, Passed, InTransaction
<1>2. /\ Append(transfers, Row(r)) \in Seq(TransferRow)
      /\ s \in Users /\ a \in Nat
  BY <1>1, RowIsTyped
<1>3. CASE ~CanDebit(r) /\ Abort(r, "funds")
  BY <1>1, <1>3, AbortStep DEF debit_sender, Outcomes
<1>4. CASE /\ CanDebit(r)
           /\ work' = [work EXCEPT !.balance[req[r].sender] = @ - req[r].amount]
           /\ Goto(r, "debited") /\ UNCHANGED lock
  <2>1. Moves(r, "debited") /\ SameRequest(r)
    BY <1>4, GotoMoves DEF IInv, PCs
  <2>2. balance[s] >= a
    BY <1>1, <1>4 DEF CanDebit, Committed
  <2>3. work' = [Committed EXCEPT !.transfers = Append(transfers, Row(r)),
                   !.balance = [balance EXCEPT ![s] = @ - a]]
    BY <1>1, <1>4 DEF Committed
  <2>4. work' \in View
    <3>1. [balance EXCEPT ![s] = @ - a] \in [Users -> Nat]
      BY <1>2, <2>2 DEF IInv, TypeOK
    <3> QED
      BY <1>2, <2>3, <3>1 DEF IInv, TypeOK, View, Committed
  <2>5. ViewOf(r)'
    BY <2>1, <2>2, <2>3 DEF ViewOf, Moves, SameRequest, debit_sender, db,
       Committed, Row, derive_idempotency_key
  <2> QED
    BY <1>1, <1>4, <2>4, <2>5, InsideStep DEF debit_sender
<1> QED
  BY <1>3, <1>4 DEF debit_sender

LEMMA CreditKeeps ==
  ASSUME IInv, NEW r \in Requests, credit_recipient(r)
  PROVE  IInv'
<1> DEFINE s == req[r].sender
           t == req[r].to
           a == req[r].amount
<1>1. /\ Passed(r) /\ balance[s] >= a
      /\ work = [Committed EXCEPT !.transfers = Append(transfers, Row(r)),
                   !.balance = [balance EXCEPT ![s] = @ - a]]
  BY DEF IInv, WorkInv, ViewOf, credit_recipient, Passed
<1>2. /\ Append(transfers, Row(r)) \in Seq(TransferRow)
      /\ s \in Users /\ t \in Users /\ a \in Nat
  BY <1>1, RowIsTyped
<1>3. s # t /\ CanCredit(r)
  BY <1>1 DEF IInv, CheckedInv, CanCredit
<1>4. /\ Goto(r, "credited") /\ UNCHANGED lock
      /\ work' = [work EXCEPT !.balance[req[r].to] = @ + req[r].amount]
  BY <1>3 DEF credit_recipient
<1>5. Moves(r, "credited") /\ SameRequest(r)
  BY <1>4, GotoMoves DEF IInv, PCs
<1>6. work' = [Committed EXCEPT !.transfers = Append(transfers, Row(r)),
                 !.balance = [balance EXCEPT ![s] = @ - a, ![t] = @ + a]]
  BY <1>1, <1>2, <1>3, <1>4 DEF Committed
<1>7. work' \in View
  <2>1. [balance EXCEPT ![s] = @ - a, ![t] = @ + a] \in [Users -> Nat]
    <3>1. balance \in [Users -> Nat] /\ s \in Users /\ t \in Users /\ a \in Nat
          /\ balance[s] >= a /\ s # t
      BY <1>1, <1>2, <1>3 DEF IInv, TypeOK
    <3> HIDE DEF s, t, a
    <3>2. balance[s] - a \in Nat /\ balance[t] + a \in Nat
      BY <3>1
    <3> QED BY <3>1, <3>2
  <2> QED
    BY <1>2, <1>6, <2>1 DEF IInv, TypeOK, View, Committed
<1>8. ViewOf(r)'
  BY <1>1, <1>5, <1>6 DEF ViewOf, Moves, SameRequest, credit_recipient, db,
     Committed, Row, derive_idempotency_key
<1> QED
  BY <1>1, <1>4, <1>7, <1>8, InsideStep DEF credit_recipient
\* COMMIT publishes exactly one abstract transfer.
LEMMA CommitPays ==
  ASSUME IInv, NEW r \in Requests, Commit(r)
  PROVE  LET s == req[r].sender  to == req[r].to  a == req[r].amount IN
         /\ s \in Users /\ to \in Users /\ a \in Amounts
         /\ derive_idempotency_key(r) \in Keys
         /\ L!Pay(s, to, a, derive_idempotency_key(r))
<1> DEFINE s == req[r].sender
           t == req[r].to
           a == req[r].amount
           k == derive_idempotency_key(r)
<1>1. Passed(r)
  BY DEF Commit, Passed
<1>2. /\ s \in Users /\ t \in Users /\ a \in Amounts /\ k \in Keys
  BY <1>1, RowIsTyped
     DEF IInv, RequestInv, Passed, InTransaction, derive_idempotency_key, Keys
<1>3. /\ s # t /\ status[s] = "active" /\ status[t] = "active" /\ ~L!Spent(k)
  BY <1>1 DEF IInv, CheckedInv
<1>4. /\ balance[s] >= a
      /\ balance' = [balance EXCEPT ![s] = @ - a, ![t] = @ + a]
      /\ transfers' = Append(transfers, Row(r))
  BY DEF IInv, WorkInv, ViewOf, Commit, Committed
<1>5. Row(r) = L!Row(s, t, a, k)
  BY DEF Row, L!Row
<1> QED
  BY <1>2, <1>3, <1>4, <1>5 DEF L!Pay, Commit

LEMMA CommitKeeps ==
  ASSUME IInv, NEW r \in Requests, Commit(r)
  PROVE  IInv'
<1>1. Passed(r) /\ InTransaction(r)
  BY DEF Commit, Passed, InTransaction
<1>2. Moves(r, "answering") /\ SameRequest(r)
  BY ReplyMoves DEF IInv, Commit, Outcomes
<1>3. \A q \in Requests : ~InTransaction(q)'
  BY <1>1, <1>2, NobodyInside DEF IInv, Moves, InTransaction
<1>4. work \in View /\ Audited \in SUBSET Nat
  BY DEF IInv, TypeOK, View, Audited
<1>5. /\ balance' = work.balance /\ transfers' = work.transfers
      /\ audits' = Audited /\ work' = [work EXCEPT !.audits = Audited]
      /\ lock' = NoRequest
  BY DEF Commit
<1>6. TypeOK'
  <2>1. work' \in View
    BY <1>4, <1>5 DEF View
  <2> QED
    BY <1>2, <1>4, <1>5, <2>1 DEF IInv, TypeOK, View, Commit, Moves
<1>7. LockInv'
  BY <1>3, <1>5, RequestAssumption DEF LockInv
<1>8. RequestInv'
  BY <1>2, <1>3 DEF IInv, RequestInv, Moves, SameRequest, Commit
<1>9. CheckedInv'
  BY <1>3 DEF CheckedInv, Passed, InTransaction
<1>10. WorkInv'
  <2>1. work' = Committed'
    BY <1>4, <1>5 DEF View, Committed
  <2> QED
    BY <1>3, <2>1 DEF WorkInv, ViewOf, InTransaction
<1>11. UniqueKeys'
  <2>1. transfers' = Append(transfers, Row(r))
    BY <1>5 DEF IInv, WorkInv, ViewOf, Commit, Committed
  <2>2. \A i \in DOMAIN transfers : transfers[i].key # Row(r).key
    BY <1>1 DEF IInv, CheckedInv, L!Spent, Row
  <2>3. transfers \in Seq(TransferRow)
    BY DEF IInv, TypeOK
  <2>4. /\ DOMAIN transfers' = DOMAIN transfers \union {Len(transfers) + 1}
        /\ \A i \in DOMAIN transfers : transfers'[i] = transfers[i]
        /\ transfers'[Len(transfers) + 1] = Row(r)
    BY <2>1, <2>3
  <2> QED
    BY <2>2, <2>4 DEF IInv, UniqueKeys
<1> QED
  BY <1>6, <1>7, <1>8, <1>9, <1>10, <1>11 DEF IInv

LEMMA ChangeStatusKeeps ==
  ASSUME IInv, NEW u \in Users, ChangeStatus(u)
  PROVE  IInv'
<1> USE DEF IInv, ChangeStatus, db
<1>1. \A q \in Requests : ~InTransaction(q) /\ ~InTransaction(q)'
  BY RequestAssumption DEF LockInv, LockFree, InTransaction
<1>2. TypeOK'
  BY DEF TypeOK, Committed
<1>3. LockInv' /\ RequestInv' /\ CheckedInv' /\ UniqueKeys'
  BY <1>1 DEF LockInv, RequestInv, CheckedInv, UniqueKeys, Passed, InTransaction
<1>4. WorkInv'
  BY <1>1 DEF WorkInv, ViewOf, InTransaction, Committed
<1> QED
  BY <1>2, <1>3, <1>4

LEMMA CrashKeeps ==
  ASSUME IInv, Crash
  PROVE  IInv'
<1>1. \A q \in Requests : req'[q] = Idle
  BY DEF Crash
<1>2. lock' = NoRequest /\ work' = Committed /\ Committed' = Committed
  BY DEF Crash, Rollback, Committed, db
<1>3. Idle \in Request
  BY AmountAssumption DEF Idle, Request, PCs
<1>4. TypeOK'
  BY <1>2, <1>3 DEF IInv, TypeOK, Crash, db, Committed
<1>5. LockInv' /\ RequestInv' /\ CheckedInv'
  BY <1>1, <1>2, RequestAssumption
     DEF LockInv, RequestInv, CheckedInv, Passed, InTransaction, Idle
<1>6. WorkInv' /\ UniqueKeys'
  BY <1>1, <1>2 DEF IInv, WorkInv, ViewOf, UniqueKeys, Crash, db, Idle
<1> QED
  BY <1>4, <1>5, <1>6 DEF IInv

LEMMA NextKeeps == IInv /\ IntentInv /\ [Next]_vars => IInv'
<1> SUFFICES ASSUME IInv, IntentInv, [Next]_vars PROVE IInv'
  OBVIOUS
<1>1. CASE UNCHANGED vars
  <2> USE DEF vars, IInv
  <2>1. TypeOK'
    BY <1>1 DEF TypeOK
  <2>2. LockInv' /\ RequestInv' /\ UniqueKeys'
    BY <1>1 DEF LockInv, RequestInv, UniqueKeys, InTransaction
  <2>3. CheckedInv'
    BY <1>1 DEF CheckedInv, Passed, InTransaction, L!Spent, derive_idempotency_key
  <2>4. WorkInv'
    BY <1>1 DEF WorkInv, ViewOf, Committed, Row, derive_idempotency_key
  <2> QED BY <2>1, <2>2, <2>3, <2>4
<1>2. ASSUME NEW u \in Users, transfer_form(u) \/ ChangeStatus(u)
      PROVE  IInv'
  BY <1>2, FormKeeps, ChangeStatusKeeps
<1>3. ASSUME NEW u \in Users, NEW r \in Requests,
             NEW to \in Users \union {NoUser}, NEW amount \in Typed,
             NEW correct \in BOOLEAN, Submit(u, r, to, amount, correct)
      PROVE  IInv'
  BY <1>3, SubmitKeeps
<1>4. ASSUME NEW r \in Requests, Lose(r)
      PROVE  IInv'
  BY <1>4, BackToIdle DEF Lose, IInv, TypeOK, db
<1>5. ASSUME NEW r \in Requests, Serve(r) \/ Fault(r)
      PROVE  IInv'
  BY <1>4, <1>5, AdmitKeeps, BeginKeeps, BusyKeeps, CheckKeeps, InsertKeeps,
     DebitKeeps, CreditKeeps, CommitKeeps, DeliverKeeps, FaultKeeps DEF Serve
<1> QED
  BY <1>1, <1>2, <1>3, <1>5, CrashKeeps DEF Next

-----------------------------------------------------------------------------
(* What answers and tokens mean. *)

\* The committed rows stay what they are, whatever comes after them.
RowsStay ==
  \A i \in DOMAIN transfers : i \in DOMAIN transfers' /\ transfers'[i] = transfers[i]

LEMMA CommitAppends ==
  ASSUME IInv, NEW r \in Requests, Commit(r)
  PROVE  /\ transfers' = Append(transfers, Row(r)) /\ RowsStay
         /\ DOMAIN transfers' = DOMAIN transfers \union {Len(transfers) + 1}
         /\ transfers'[Len(transfers) + 1] = Row(r)
<1>1. transfers' = Append(transfers, Row(r))
  BY DEF IInv, WorkInv, ViewOf, Commit, Committed
<1>2. transfers \in Seq(TransferRow)
  BY DEF IInv, TypeOK
<1> QED
  BY <1>1, <1>2 DEF RowsStay

LEMMA OthersLeaveRows ==
  ASSUME [Next]_vars, \A r \in Requests : ~Commit(r)
  PROVE  UNCHANGED transfers
<1>1. ASSUME NEW r \in Requests, Serve(r) \/ Fault(r)
      PROVE  UNCHANGED transfers
  BY <1>1 DEF Serve, Admit, Begin, Busy, Check, Insert, debit_sender,
     credit_recipient, Deliver, Lose, Fault, db
<1> QED
  BY <1>1 DEF Next, transfer_form, ChangeStatus, Submit, Crash, vars, db

LEMMA NextKeepsRows ==
  ASSUME IInv, [Next]_vars
  PROVE  RowsStay
  BY CommitAppends, OthersLeaveRows DEF RowsStay

\* What one thread's answer claims.
TruthfulTo(r) ==
  /\ Answered(r, {"created", "idempotent"}) =>
       \E i \in DOMAIN transfers : transfers[i] = Row(r)
  /\ Answered(r, {"conflict"}) =>
       \E i \in DOMAIN transfers :
         /\ transfers[i].key = derive_idempotency_key(r)
         /\ transfers[i] # Row(r)

\* An answer that was true stays true while its thread does not move.
LEMMA AnswerStays ==
  ASSUME RowsStay, NEW r \in Requests, req'[r] = req[r], TruthfulTo(r)
  PROVE  TruthfulTo(r)'
  BY DEF RowsStay, TruthfulTo, Answered, Row, derive_idempotency_key

\* Only Commit and Check give an answer that claims something.
LEMMA AnswerIsNew ==
  ASSUME IInv, NEW r \in Requests, Commit(r) \/ Check(r)
  PROVE  TruthfulTo(r)'
<1>1. req \in [Requests -> Request]
  BY DEF IInv, TypeOK
<1>2. ASSUME NEW outcome \in Outcomes, Reply(r, outcome)
      PROVE  /\ req'[r].outcome = outcome
             /\ Row(r)' = Row(r)
             /\ derive_idempotency_key(r)' = derive_idempotency_key(r)
  BY <1>1, <1>2 DEF Reply, Request, Row, derive_idempotency_key
<1>3. CASE Commit(r)
  <2>1. PICK outcome \in {"created", "error"} : Reply(r, outcome)
    BY <1>3 DEF Commit
  <2>2. req'[r].outcome = outcome /\ Row(r)' = Row(r)
    BY <1>2, <2>1 DEF Outcomes
  <2> QED
    BY <1>3, <2>2, CommitAppends DEF TruthfulTo, Answered
<1>4. CASE Check(r)
  <2>1. work.transfers = transfers /\ UNCHANGED transfers
    <3>1. work = Committed
      BY <1>4 DEF IInv, WorkInv, ViewOf, Check
    <3> QED
      BY <1>4, <3>1 DEF Check, Committed, db
  <2>2. CASE /\ existing_transfer(r) # {}
             /\ Abort(r, IF SamePayload(r) THEN "idempotent" ELSE "conflict")
    <3>1. PICK i \in DOMAIN transfers : transfers[i].key = derive_idempotency_key(r)
      BY <2>1, <2>2 DEF existing_transfer
    <3>2. CASE SamePayload(r)
      <4>1. Reply(r, "idempotent")
        BY <2>2, <3>2 DEF Abort
      <4>2. req'[r].outcome = "idempotent" /\ Row(r)' = Row(r)
        BY <1>2, <4>1 DEF Outcomes
      <4> QED
        BY <2>1, <3>2, <4>2 DEF SamePayload, existing_transfer, TruthfulTo, Answered
    <3>3. CASE ~SamePayload(r)
      <4>1. Reply(r, "conflict") /\ transfers[i] # Row(r)
        BY <2>1, <2>2, <3>1, <3>3 DEF Abort, SamePayload, existing_transfer
      <4>2. /\ req'[r].outcome = "conflict" /\ Row(r)' = Row(r)
            /\ derive_idempotency_key(r)' = derive_idempotency_key(r)
        BY <1>2, <4>1 DEF Outcomes, Refusals
      <4> QED
        BY <2>1, <3>1, <4>1, <4>2 DEF TruthfulTo, Answered
    <3> QED
      BY <3>2, <3>3
  <2>3. CASE \E outcome \in {"password", "unavailable", "self"} : Abort(r, outcome)
    <3>1. PICK outcome \in {"password", "unavailable", "self"} : Reply(r, outcome)
      BY <2>3 DEF Abort
    <3>2. req'[r].outcome = outcome
      BY <1>2, <3>1 DEF Outcomes, Refusals
    <3> QED
      BY <3>2 DEF TruthfulTo, Answered
  <2>4. CASE Goto(r, "checked")
    BY <1>1, <2>4 DEF Goto, TruthfulTo, Answered
  <2> QED
    BY <1>4, <2>2, <2>3, <2>4 DEF Check
<1> QED
  BY <1>3, <1>4

LEMMA NextKeepsTruth ==
  ASSUME IInv, TruthfulAnswer, [Next]_vars
  PROVE  TruthfulAnswer'
<1> SUFFICES ASSUME NEW q \in Requests PROVE TruthfulTo(q)'
  BY DEF TruthfulAnswer, TruthfulTo
<1>1. RowsStay /\ TruthfulTo(q) /\ req \in [Requests -> Request]
  BY NextKeepsRows DEF TruthfulAnswer, TruthfulTo, IInv, TypeOK
<1>2. CASE req'[q] = req[q]
  BY <1>1, <1>2, AnswerStays
<1>3. CASE Commit(q) \/ Check(q)
  BY <1>3, AnswerIsNew
<1>4. ASSUME NEW outcome \in {"login", "invalid", "error", "funds", "unavailable"},
             Reply(q, outcome)
      PROVE  TruthfulTo(q)'
  BY <1>1, <1>4 DEF Reply, TruthfulTo, Answered, Request
<1>5. ASSUME NEW pc \in PCs \ {"answering"}, Goto(q, pc)
      PROVE  TruthfulTo(q)'
  BY <1>1, <1>5 DEF Goto, TruthfulTo, Answered, Request
<1>6. CASE req'[q] = Idle
  BY <1>6 DEF Idle, TruthfulTo, Answered
<1>7. CASE Serve(q) \/ Fault(q)
  <2>1. Admit(q) \/ Begin(q) \/ Busy(q) \/ Insert(q) \/ debit_sender(q)
        \/ credit_recipient(q) \/ Fault(q) =>
          \/ \E outcome \in {"login", "invalid", "error", "funds", "unavailable"} :
               Reply(q, outcome)
          \/ \E pc \in PCs \ {"answering"} : Goto(q, pc)
    BY DEF Admit, Begin, Busy, Insert, debit_sender, credit_recipient, Fault,
           Abort, PCs
  <2>2. Deliver(q) \/ Lose(q) => req'[q] = Idle
    BY <1>1 DEF Deliver, Lose
  <2> QED
    BY <1>3, <1>4, <1>5, <1>6, <1>7, <2>1, <2>2 DEF Serve
<1>8. ASSUME NEW r \in Requests \ {q}, Serve(r) \/ Fault(r)
      PROVE  req'[q] = req[q]
  BY <1>1, <1>8 DEF Serve, Fault, Admit, Begin, Busy, Check, Insert,
     debit_sender, credit_recipient, Commit, Deliver, Lose, Abort, Goto, Reply
<1>9. ASSUME NEW u \in Users, NEW r \in Requests,
             NEW to \in Users \union {NoUser}, NEW amount \in Typed,
             NEW correct \in BOOLEAN, Submit(u, r, to, amount, correct)
      PROVE  TruthfulTo(q)'
  <2>1. req'[q] = req[q] \/ req'[q].pc = "received"
    BY <1>1, <1>9 DEF Submit
  <2> QED
    BY <1>2, <2>1 DEF TruthfulTo, Answered
<1>10. CASE Crash
  BY <1>6, <1>10 DEF Crash
<1>11. ASSUME NEW u \in Users, transfer_form(u) \/ ChangeStatus(u)
       PROVE  req'[q] = req[q]
  BY <1>11 DEF transfer_form, ChangeStatus
<1>12. CASE UNCHANGED vars
  BY <1>2, <1>12 DEF vars
<1> QED
  BY <1>2, <1>7, <1>8, <1>9, <1>10, <1>11, <1>12 DEF Next

\* A new token, for a purpose that u can pay for with no other token.
LEMMA NewTokenKeepsIntent ==
  ASSUME IInv, IntentInv, NEW u \in Users, NEW purpose \in Tokens, NewToken(u, purpose),
         purpose <= Len(intent) + 1, misled \subseteq misled', UNCHANGED transfers,
         \A r \in Requests : req'[r] = req[r] \/ req'[r] = Idle,
         purpose \notin misled' =>
           \A t \in DOMAIN intent : intent[t] = purpose =>
             /\ \A i \in DOMAIN transfers : transfers[i].key # <<u, t>>
             /\ \A r \in Requests :
                  ~(req'[r].pc # "idle" /\ req'[r].sender = u /\ req'[r].token = t)
  PROVE  IntentInv'
<1>0. PICK new \in Nat : new = Len(intent) + 1
  BY DEF IInv, TypeOK
<1>1. /\ intent \in Seq(Tokens) /\ form \in [Users -> 0 .. MaxTokens]
      /\ intent' = Append(intent, purpose)
      /\ form' = [form EXCEPT ![u] = new]
  BY <1>0 DEF IInv, TypeOK, NewToken
<1>2. /\ Len(intent) \in Nat /\ Len(intent') = new
      /\ DOMAIN intent = 1 .. Len(intent) /\ DOMAIN intent' = 1 .. new
      /\ \A t \in DOMAIN intent : intent'[t] = intent[t] /\ intent[t] \in Nat
      /\ intent'[new] = purpose /\ purpose \in Nat
  BY <1>0, <1>1, AmountAssumption DEF Tokens
<1>3. \A r \in Requests : req[r].token \in Nat /\ Idle.token = 0
  BY AmountAssumption DEF IInv, TypeOK, Request, Idle
<1>4. \A v \in Users : form[v] \in Nat
  BY <1>1, AmountAssumption
<1>5. Known'
  BY <1>0, <1>1, <1>2, <1>3, <1>4 DEF IntentInv, Known
<1>6. \A v \in Users, t \in DOMAIN intent : InUse(v, t)' => InUse(v, t) /\ ~(v = u /\ form'[v] = t)
  <2> SUFFICES ASSUME NEW v \in Users, NEW t \in DOMAIN intent, InUse(v, t)'
               PROVE  InUse(v, t) /\ ~(v = u /\ form'[v] = t)
    OBVIOUS
  <2>1. form'[v] = IF v = u THEN new ELSE form[v]
    BY <1>1
  <2>2. t # new /\ t \in Int
    BY <1>0, <1>2
  <2>3. form'[v] = t => v # u /\ form[v] = t
    BY <2>1, <2>2
  <2>4. \A r \in Requests : req'[r].pc # "idle" => req'[r] = req[r]
    BY DEF Idle
  <2> QED BY <2>2, <2>1, <2>3, <2>4 DEF InUse
<1>7. \A v \in Users : InUse(v, new)' => v = u
  <2> SUFFICES ASSUME NEW v \in Users, v # u, InUse(v, new)' PROVE FALSE
    OBVIOUS
  <2>1. form'[v] # new
    BY <1>0, <1>1, <1>2, <1>4 DEF IntentInv, Known
  <2>2. \A r \in Requests : req'[r].pc # "idle" => req'[r].token # new
    BY <1>0, <1>2, <1>3 DEF IntentInv, Known, Idle
  <2>3. \A i \in DOMAIN transfers : transfers[i].key # <<v, new>>
    BY <1>0, <1>2 DEF IntentInv, Known
  <2>4. \A i \in DOMAIN transfers' : transfers'[i].key # <<v, new>>
    BY <2>3
  <2>5. ~InUse(v, new)'
    BY <2>1, <2>2, <2>4 DEF InUse
  <2> QED BY <2>5
<1>8. purpose \notin misled' =>
        \A t \in DOMAIN intent : intent[t] = purpose => ~InUse(u, t)'
  BY <1>6 DEF InUse
<1>9. OneInUse'
  <2> SUFFICES ASSUME NEW v \in Users, NEW t1 \in 1 .. new, NEW t2 \in 1 .. new,
                      InUse(v, t1)', InUse(v, t2)',
                      intent'[t1] = intent'[t2], intent'[t1] \notin misled'
               PROVE  t1 = t2
    BY <1>0, <1>2 DEF OneInUse
  <2>1. CASE t1 \in DOMAIN intent /\ t2 \in DOMAIN intent
    BY <1>0, <1>2, <1>6, <2>1 DEF IntentInv, OneInUse
  <2>2. CASE t1 = new \/ t2 = new
    <3>1. v = u
      BY <1>7, <2>2
    <3>2. intent'[t1] = purpose /\ intent'[t2] = purpose
      BY <1>0, <1>2, <2>2
    <3>3. t1 \notin DOMAIN intent /\ t2 \notin DOMAIN intent
      <4>1. ASSUME NEW t \in DOMAIN intent, intent'[t] = purpose, InUse(u, t)' PROVE FALSE
        BY <1>0, <1>2, <1>8, <3>2, <4>1
      <4> QED BY <3>1, <3>2, <4>1
    <3> QED BY <1>0, <1>2, <3>3
  <2> QED BY <1>0, <1>2, <2>1, <2>2
<1> QED
  BY <1>5, <1>9 DEF IntentInv

\* A step that hands out no token, and neither pays nor tries to with another
\* one than before.
LEMMA OldTokensKeepIntent ==
  ASSUME IInv, IntentInv, UNCHANGED intent, misled \subseteq misled', Known',
         \A u \in Users : \A t \in DOMAIN intent : InUse(u, t)' => InUse(u, t)
  PROVE  IntentInv'
  BY DEF IntentInv, OneInUse

\* So is every step of a browser or a thread that commits nothing.
LEMMA StepsKeepIntent ==
  ASSUME IInv, IntentInv, UNCHANGED <<transfers, intent>>, misled \subseteq misled',
         \A u \in Users :
           \/ form'[u] \in {form[u], 0}
           \/ \E r \in Requests :
                req[r].pc # "idle" /\ req[r].sender = u /\ form'[u] = req[r].token,
         \A r \in Requests :
           \/ req'[r] = req[r] \/ req'[r] = Idle
           \/ /\ req[r].pc # "idle"
              /\ req'[r].sender = req[r].sender /\ req'[r].token = req[r].token
           \/ \E u \in Users : req'[r].sender = u /\ req'[r].token = form[u]
  PROVE  IntentInv'
<1>1. /\ Len(intent) \in Nat /\ DOMAIN intent = 1 .. Len(intent)
      /\ Idle.token = 0 /\ Idle.pc = "idle"
  BY DEF IInv, TypeOK, Idle
<1>2. Known'
  BY <1>1 DEF IntentInv, Known
<1>3. ASSUME NEW u \in Users, NEW t \in DOMAIN intent, InUse(u, t)'
      PROVE  InUse(u, t)
  BY <1>1, <1>3 DEF InUse
<1> QED
  BY <1>2, <1>3, OldTokensKeepIntent

LEMMA CommitKeepsIntent ==
  ASSUME IInv, IntentInv, NEW r \in Requests, Commit(r)
  PROVE  IntentInv'
<1>1. /\ Row(r).key = <<Row(r).sender, req[r].token>> /\ Row(r).sender = req[r].sender
      /\ req[r].token \in Tokens /\ req[r].token <= Len(intent)
      /\ intent \in Seq(Tokens) /\ req[r].pc # "idle"
  BY DEF IInv, TypeOK, RequestInv, IntentInv, Known, Commit, Row,
     derive_idempotency_key
<1>2. req[r].token \in DOMAIN intent
  BY <1>1, AmountAssumption DEF Tokens
<1>3. \A q \in Requests :
        /\ req'[q].token = req[q].token /\ req'[q].sender = req[q].sender
        /\ req'[q].pc # "idle" => req[q].pc # "idle"
  <2>1. PICK outcome \in Outcomes : Reply(r, outcome)
    BY DEF Commit, Outcomes
  <2>2. Moves(r, "answering") /\ SameRequest(r)
    BY <2>1, ReplyMoves DEF IInv
  <2> QED BY <1>1, <2>2 DEF Moves, SameRequest
<1> HIDE DEF Row
<1>4. /\ DOMAIN transfers' = DOMAIN transfers \union {Len(transfers) + 1}
      /\ \A i \in DOMAIN transfers : transfers'[i] = transfers[i]
      /\ transfers'[Len(transfers) + 1] = Row(r)
  BY CommitAppends DEF RowsStay
<1>5. UNCHANGED <<intent, form, misled>>
  BY DEF Commit
<1>6. Known'
  <2>1. /\ \A t \in DOMAIN intent' : intent'[t] <= Len(intent')
        /\ \A u \in Users : form'[u] <= Len(intent')
        /\ \A q \in Requests : req'[q].token <= Len(intent')
    BY <1>3, <1>5 DEF IntentInv, Known
  <2>2. ASSUME NEW i \in DOMAIN transfers'
        PROVE  /\ transfers'[i].key[1] = transfers'[i].sender
               /\ transfers'[i].key[2] \in DOMAIN intent'
    <3>1. CASE i \in DOMAIN transfers
      BY <1>4, <1>5, <3>1 DEF IntentInv, Known
    <3>2. CASE i = Len(transfers) + 1
      BY <1>1, <1>2, <1>4, <1>5, <3>2
    <3> QED BY <1>4, <2>2, <3>1, <3>2
  <2> QED BY <2>1, <2>2 DEF Known
<1>7. ASSUME NEW u \in Users, NEW t \in DOMAIN intent, InUse(u, t)'
      PROVE  InUse(u, t)
  <2>1. ASSUME NEW i \in DOMAIN transfers', transfers'[i].key = <<u, t>>
        PROVE  InUse(u, t)
    <3>1. CASE i \in DOMAIN transfers
      BY <1>4, <2>1, <3>1 DEF InUse
    <3>2. CASE i = Len(transfers) + 1
      <4>1. req[r].sender = u /\ req[r].token = t
        BY <1>1, <1>4, <2>1, <3>2
      <4> QED BY <1>1, <4>1 DEF InUse
    <3> QED BY <1>4, <3>1, <3>2
  <2>2. CASE form'[u] = t
    BY <1>5, <2>2 DEF InUse
  <2>3. ASSUME NEW q \in Requests, req'[q].pc # "idle", req'[q].sender = u, req'[q].token = t
        PROVE  InUse(u, t)
    BY <1>3, <2>3 DEF InUse
  <2> QED BY <1>7, <2>1, <2>2, <2>3 DEF InUse
<1> QED
  BY <1>5, <1>6, <1>7, OldTokensKeepIntent

\* A refusal after which the user tries again: unless it misleads him, the old
\* token was the only one that could pay, and no longer can.
LEMMA DeliverKeepsIntent ==
  ASSUME IInv, IntentInv, NEW r \in Requests, Deliver(r)
  PROVE  IntentInv'
<1> DEFINE t == req[r].token  u == req[r].sender
<1>1. /\ u \in Users /\ t \in DOMAIN intent /\ req[r].pc # "idle"
      /\ UNCHANGED transfers /\ req' = [req EXCEPT ![r] = Idle]
      /\ req \in [Requests -> Request] /\ form \in [Users -> 0 .. MaxTokens]
      /\ misled \subseteq misled'
  <2>1. t \in Tokens /\ t <= Len(intent) /\ Len(intent) \in Nat /\ DOMAIN intent = 1 .. Len(intent)
    BY DEF IInv, TypeOK, RequestInv, IntentInv, Known, Deliver
  <2>2. t \in DOMAIN intent
    BY <2>1, AmountAssumption DEF Tokens
  <2> QED BY <2>2 DEF IInv, TypeOK, RequestInv, Deliver, db
<1>2. \A q \in Requests : req'[q] = req[q] \/ req'[q] = Idle
  BY <1>1
<1>3. intent \in Seq(Tokens) /\ intent[t] \in Tokens /\ intent[t] <= Len(intent) /\ Tokens \subseteq Int
      /\ Len(intent) \in Nat
  BY <1>1, AmountAssumption DEF IInv, TypeOK, IntentInv, Known, Tokens
<1>4. CASE Rotates(req[r].outcome) /\ NewToken(u, intent[t])
  <2>1. ASSUME intent[t] \notin misled'
        PROVE  /\ \A i \in DOMAIN transfers : transfers[i].key # <<u, t>>
               /\ \A q \in Requests \ {r} :
                    ~(req[q].pc # "idle" /\ req[q].sender = u /\ req[q].token = t)
    <3>1. ~Misleading(r)
      BY <2>1 DEF Deliver
    <3> QED BY <1>4, <3>1 DEF Rotates, Misleading, derive_idempotency_key
  <2>2. ASSUME intent[t] \notin misled', NEW s \in DOMAIN intent, intent[s] = intent[t]
        PROVE  /\ \A i \in DOMAIN transfers : transfers[i].key # <<u, s>>
               /\ \A q \in Requests :
                    ~(req'[q].pc # "idle" /\ req'[q].sender = u /\ req'[q].token = s)
    <3>1. InUse(u, t)
      BY <1>1 DEF InUse
    <3>2. InUse(u, s) => s = t
      BY <1>1, <2>2, <3>1 DEF IntentInv, OneInUse
    <3>3. ASSUME NEW q \in Requests, req'[q].pc # "idle", req'[q].sender = u, req'[q].token = s
          PROVE  FALSE
      <4>1. q # r /\ req'[q] = req[q]
        BY <1>1, <3>3 DEF Idle
      <4>2. s = t
        BY <3>2, <3>3, <4>1 DEF InUse
      <4> QED BY <2>1, <2>2, <3>3, <4>1, <4>2
    <3>4. ASSUME NEW i \in DOMAIN transfers, transfers[i].key = <<u, s>>
          PROVE  FALSE
      BY <2>1, <2>2, <3>2, <3>4 DEF InUse
    <3> QED BY <3>3, <3>4
  <2>3. intent[t] <= Len(intent) + 1
    BY <1>3, <1>1, AmountAssumption DEF Tokens
  <2> HIDE DEF t, u
  <2> QED
    BY <1>1, <1>2, <1>3, <1>4, <2>2, <2>3, NewTokenKeepsIntent
<1>5. CASE Rotates(req[r].outcome) /\ NewToken(u, Len(intent) + 1)
  <2>1. Len(intent) + 1 \in Tokens
    BY <1>3, <1>5, AmountAssumption DEF NewToken, Tokens
  <2>2. \A s \in DOMAIN intent : intent[s] # Len(intent) + 1
    BY <1>3, AmountAssumption DEF IntentInv, Known, Tokens
  <2> HIDE DEF t, u
  <2> QED
    BY <1>1, <1>2, <1>3, <1>5, <2>1, <2>2, NewTokenKeepsIntent
<1>6. CASE ~Rotates(req[r].outcome)
  <2>1. /\ UNCHANGED intent
        /\ \A v \in Users : form'[v] \in {form[v], 0} \/ (v = u /\ form'[v] = t)
    BY <1>1, <1>6 DEF Deliver
  <2> QED
    BY <1>1, <1>2, <2>1, StepsKeepIntent
<1> QED
  BY <1>4, <1>5, <1>6 DEF Deliver

LEMMA NextKeepsIntent ==
  ASSUME IInv, IntentInv, [Next]_vars
  PROVE  IntentInv'
<1>1. /\ req \in [Requests -> Request] /\ form \in [Users -> 0 .. MaxTokens]
      /\ intent \in Seq(Tokens) /\ Len(intent) \in Nat /\ Tokens \subseteq Int
  BY AmountAssumption DEF IInv, TypeOK, Tokens
<1>2. ASSUME NEW u \in Users, transfer_form(u)
      PROVE  IntentInv'
  <2>1. Len(intent) + 1 \in Tokens
    BY <1>1, <1>2, AmountAssumption DEF transfer_form, NewToken, Tokens
  <2>2. \A s \in DOMAIN intent : intent[s] # Len(intent) + 1
    BY <1>1, AmountAssumption DEF IntentInv, Known, Tokens
  <2>3. /\ NewToken(u, Len(intent) + 1) /\ UNCHANGED <<transfers, req, misled>>
        /\ Len(intent) + 1 <= Len(intent) + 1
    BY <1>1, <1>2 DEF transfer_form, db
  <2> QED
    BY <2>1, <2>2, <2>3, NewTokenKeepsIntent
<1>3. ASSUME NEW u \in Users, ChangeStatus(u)
      PROVE  IntentInv'
  BY <1>3, StepsKeepIntent DEF ChangeStatus, db
<1>4. ASSUME NEW u \in Users, NEW r \in Requests,
             NEW to \in Users \union {NoUser}, NEW amount \in Typed,
             NEW correct \in BOOLEAN, Submit(u, r, to, amount, correct)
      PROVE  IntentInv'
  <2>1. \A q \in Requests :
          req'[q] = req[q] \/ (req'[q].sender = u /\ req'[q].token = form[u])
    BY <1>1, <1>4 DEF Submit
  <2>2. UNCHANGED <<transfers, intent, misled, form>>
    BY <1>4 DEF Submit, db
  <2> QED
    BY <2>1, <2>2, StepsKeepIntent
<1>5. ASSUME NEW r \in Requests, Lose(r)
      PROVE  IntentInv'
  <2>1. /\ \A q \in Requests : req'[q] = req[q] \/ req'[q] = Idle
        /\ UNCHANGED <<transfers, intent, misled, form>>
    BY <1>1, <1>5 DEF Lose, db
  <2> QED
    BY <2>1, StepsKeepIntent
<1>6. ASSUME NEW r \in Requests,
             \/ Admit(r) \/ Begin(r) \/ Busy(r) \/ Check(r) \/ Insert(r)
             \/ debit_sender(r) \/ credit_recipient(r) \/ Fault(r)
      PROVE  IntentInv'
  <2>1. /\ UNCHANGED <<transfers, form, intent, misled>> /\ req[r].pc # "idle"
        /\ \/ \E pc \in PCs : Goto(r, pc)
           \/ \E outcome \in Outcomes : Reply(r, outcome)
    BY <1>6 DEF Admit, Begin, Busy, Check, Insert, debit_sender,
       credit_recipient, Fault, InTransaction, Abort, Outcomes, Refusals, PCs, db
  <2>2. /\ \A q \in Requests \ {r} : req'[q] = req[q]
        /\ req'[r].sender = req[r].sender /\ req'[r].token = req[r].token
    BY <1>1, <2>1 DEF Goto, Reply, Request
  <2> QED
    BY <2>1, <2>2, StepsKeepIntent
<1>7. CASE Crash
  <2>1. /\ \A q \in Requests : req'[q] = Idle
        /\ UNCHANGED <<transfers, intent, misled, form>>
    BY <1>7 DEF Crash, db
  <2> QED
    BY <2>1, StepsKeepIntent
<1>8. CASE UNCHANGED vars
  BY <1>8, StepsKeepIntent DEF vars
<1> QED
  BY <1>2, <1>3, <1>4, <1>5, <1>6, <1>7, <1>8, CommitKeepsIntent, DeliverKeepsIntent
     DEF Next, Serve

-----------------------------------------------------------------------------
(* Sums over finite sets, by the least counterexample. *)

\* Every set of numbers has a least one: what stands for induction below.
LEMMA Least ==
  ASSUME NEW T \in SUBSET Nat, T # {}
  PROVE  \E n \in T : \A m \in T : n <= m
<1> DEFINE R == OpToRel(<, Nat)
<1>1. \A x, y \in Nat : y < x => <<y, x>> \in R
  BY DEF OpToRel
<1>2. IsWellFoundedOn(R, Nat)
  BY NatLessThanWellFounded
<1> HIDE DEF R
<1>3. PICK x \in T : \A y \in T : ~ (<<y, x>> \in R)
  BY <1>2, WFMin
<1>4. \A y \in T : ~ (y < x)
  BY <1>1, <1>3
<1> QED BY <1>4

\* The element a sum takes first, and the function it is computed with.
Pick(s) == CHOOSE x \in s : TRUE

Sums(f, S, h) ==
  h = [s \in SUBSET S |-> IF s = {} THEN 0 ELSE f[Pick(s)] + h[s \ {Pick(s)}]]

LEMMA SumIs ==
  ASSUME NEW f, NEW S PROVE SumFunctionOnSet(f, S) = (CHOOSE h : Sums(f, S, h))[S]
BY DEF SumFunctionOnSet, FoldFunctionOnSet, MapThenFoldSet, Sums, Pick

\* Of the subsets with some property one has no smaller one.
LEMMA Smaller ==
  ASSUME NEW S, IsFiniteSet(S), NEW T \in SUBSET (SUBSET S), T # {}
  PROVE  \E s \in T : \A r \in T : ~(r \subseteq s /\ r # s)
<1> DEFINE sizes == {Cardinality(s) : s \in T}
<1>1. \A s \in T : IsFiniteSet(s) /\ Cardinality(s) \in Nat
  BY FS_Subset, FS_CardinalityType
<1>2. sizes \in SUBSET Nat /\ sizes # {}
  BY <1>1
<1>3. PICK n \in sizes : \A m \in sizes : n <= m
  BY <1>2, Least
<1>4. PICK s \in T : Cardinality(s) = n
  OBVIOUS
<1>5. ASSUME NEW r \in T, r \subseteq s, r # s PROVE FALSE
  <2>1. Cardinality(r) < Cardinality(s)
    BY <1>1, <1>5, FS_Subset
  <2> QED BY <1>1, <1>3, <1>4, <2>1
<1> QED BY <1>4, <1>5

LEMMA PickIn == ASSUME NEW s, s # {} PROVE Pick(s) \in s
BY DEF Pick

\* One function at most sums the subsets of a set.
LEMMA SumsOnce ==
  ASSUME NEW f, NEW S, IsFiniteSet(S), NEW T \in SUBSET S, NEW h, NEW g,
         Sums(f, S, h), Sums(f, T, g)
  PROVE  \A s \in SUBSET T : h[s] = g[s]
<1> DEFINE Bad == {s \in SUBSET T : h[s] # g[s]}
<1> SUFFICES ASSUME Bad # {} PROVE FALSE
  OBVIOUS
<1>1. PICK s \in Bad : \A r \in Bad : ~(r \subseteq s /\ r # s)
  <2>1. Bad \in SUBSET (SUBSET T) /\ IsFiniteSet(T)
    BY FS_Subset
  <2> HIDE DEF Bad
  <2> QED BY <2>1, Smaller
<1>2. s \in SUBSET S /\ s \in SUBSET T
  OBVIOUS
<1>3. /\ h[s] = IF s = {} THEN 0 ELSE f[Pick(s)] + h[s \ {Pick(s)}]
      /\ g[s] = IF s = {} THEN 0 ELSE f[Pick(s)] + g[s \ {Pick(s)}]
  BY <1>2 DEF Sums
<1>4. s # {}
  BY <1>1, <1>3
<1>5. h[s \ {Pick(s)}] = g[s \ {Pick(s)}]
  BY <1>1, <1>2, <1>4, PickIn
<1> QED BY <1>1, <1>3, <1>5

\* ... and there is one.
LEMMA SumsExist ==
  ASSUME NEW f, NEW S, IsFiniteSet(S)
  PROVE  \E h : Sums(f, S, h)
<1> DEFINE Bad == {s \in SUBSET S : ~ \E h : Sums(f, s, h)}
<1> SUFFICES ASSUME Bad # {} PROVE FALSE
  OBVIOUS
<1>1. PICK B \in Bad : \A r \in Bad : ~(r \subseteq B /\ r # B)
  <2>1. Bad \in SUBSET (SUBSET S)
    OBVIOUS
  <2> HIDE DEF Bad
  <2> QED BY <2>1, Smaller
<1> DEFINE H(s) == CHOOSE h : Sums(f, s, h)
           less(s) == s \ {Pick(s)}
           all == [s \in SUBSET B |-> IF s = {} THEN 0 ELSE f[Pick(s)] + H(less(s))[less(s)]]
<1>2. \A s \in SUBSET B : s # {} => less(s) \in SUBSET B /\ less(s) # B
  BY PickIn
<1>3. \A s \in SUBSET B : s # {} => Sums(f, less(s), H(less(s)))
  <2> SUFFICES ASSUME NEW s \in SUBSET B, s # {} PROVE Sums(f, less(s), H(less(s)))
    OBVIOUS
  <2> HIDE DEF less
  <2>1. \E h : Sums(f, less(s), h)
    BY <1>1, <1>2
  <2> QED BY <2>1
<1>4. \A s \in SUBSET B : s # {} => H(less(s))[less(s)] = all[less(s)]
  <2> SUFFICES ASSUME NEW s \in SUBSET B, s # {} PROVE H(less(s))[less(s)] = all[less(s)]
    OBVIOUS
  <2> DEFINE t == less(s)  g == H(t)
  <2>1. Sums(f, t, g) /\ t \in SUBSET B /\ t \in SUBSET t
    BY <1>2, <1>3
  <2>2. g[t] = IF t = {} THEN 0 ELSE f[Pick(t)] + g[less(t)]
    <3> HIDE DEF g, t
    <3> QED BY <2>1 DEF Sums
  <2>3. all[t] = IF t = {} THEN 0 ELSE f[Pick(t)] + H(less(t))[less(t)]
    <3> HIDE DEF t, H, less
    <3> QED BY <2>1
  <2>4. t # {} => g[less(t)] = H(less(t))[less(t)]
    <3> SUFFICES ASSUME t # {} PROVE g[less(t)] = H(less(t))[less(t)]
      OBVIOUS
    <3>1. Sums(f, less(t), H(less(t)))
      BY <1>3, <2>1
    <3>2. less(t) \in SUBSET t /\ IsFiniteSet(t)
      BY <2>1, FS_Subset
    <3> HIDE DEF g, t, H, less
    <3> QED BY <2>1, <3>1, <3>2, SumsOnce
  <2> QED BY <2>2, <2>3, <2>4
<1>5. Sums(f, B, all)
  <2> HIDE DEF H, less
  <2>1. \A s \in SUBSET B : s # {} => H(less(s))[less(s)] = all[less(s)]
    BY <1>4
  <2>2. all = [s \in SUBSET B |-> IF s = {} THEN 0 ELSE f[Pick(s)] + all[less(s)]]
    <3> DEFINE again == [s \in SUBSET B |-> IF s = {} THEN 0 ELSE f[Pick(s)] + all[less(s)]]
    <3>1. \A s \in SUBSET B : all[s] = again[s]
      BY <2>1
    <3> QED BY <3>1
  <2> QED BY <2>2 DEF Sums, less
<1> QED BY <1>1, <1>5

\* So a sum is its first element and the sum of the others.
LEMMA SumUnfolds ==
  ASSUME NEW f, NEW S, IsFiniteSet(S)
  PROVE  SumFunctionOnSet(f, S) =
           IF S = {} THEN 0 ELSE f[Pick(S)] + SumFunctionOnSet(f, S \ {Pick(S)})
<1> DEFINE H(s) == CHOOSE h : Sums(f, s, h)
           T == S \ {Pick(S)}
<1>1. Sums(f, S, H(S)) /\ Sums(f, T, H(T))
  <2>1. IsFiniteSet(T)
    BY FS_Subset
  <2> HIDE DEF T
  <2> QED BY <2>1, SumsExist
<1>2. H(S)[T] = H(T)[T]
  <2> HIDE DEF H
  <2> QED BY <1>1, SumsOnce
<1>3. H(S)[S] = IF S = {} THEN 0 ELSE f[Pick(S)] + H(S)[T]
  <2> HIDE DEF H
  <2> QED BY <1>1 DEF Sums
<1>4. SumFunctionOnSet(f, S) = H(S)[S] /\ SumFunctionOnSet(f, T) = H(T)[T]
  BY SumIs
<1> HIDE DEF H
<1> QED BY <1>2, <1>3, <1>4
\* The order of the elements does not matter.
LEMMA SumAdds ==
  ASSUME NEW S, IsFiniteSet(S), NEW f, \A x \in S : f[x] \in Int
  PROVE  /\ SumFunctionOnSet(f, S) \in Int
         /\ \A x \in S : SumFunctionOnSet(f, S) = f[x] + SumFunctionOnSet(f, S \ {x})
<1> DEFINE Sum(s) == SumFunctionOnSet(f, s)
           Fine(s) == /\ Sum(s) \in Int
                      /\ \A x \in s : Sum(s) = f[x] + Sum(s \ {x})
           Bad == {s \in SUBSET S : ~Fine(s)}
<1>0. \A s \in SUBSET S : Sum(s) = IF s = {} THEN 0 ELSE f[Pick(s)] + Sum(s \ {Pick(s)})
  BY FS_Subset, SumUnfolds
<1> HIDE DEF Sum
<1> SUFFICES ASSUME Bad # {} PROVE FALSE
  BY DEF Sum
<1>1. PICK s \in Bad : \A r \in Bad : ~(r \subseteq s /\ r # s)
  <2>1. Bad \in SUBSET (SUBSET S)
    OBVIOUS
  <2> HIDE DEF Bad
  <2> QED BY <2>1, Smaller
<1>2. s \in SUBSET S /\ \A r \in SUBSET s : r # s => Fine(r)
  <2> HIDE DEF Fine
  <2> QED BY <1>1
<1>3. s # {}
  <2> SUFFICES ASSUME s = {} PROVE FALSE
    OBVIOUS
  <2>1. Sum(s) = 0
    BY <1>0, <1>2
  <2> QED BY <1>1, <2>1
<1> DEFINE y == Pick(s)
<1>4. y \in s /\ Sum(s) = f[y] + Sum(s \ {y}) /\ f[y] \in Int
  BY <1>0, <1>2, <1>3, PickIn
<1> HIDE DEF y
<1>5. Sum(s) \in Int
  <2>1. Fine(s \ {y})
    <3> HIDE DEF Fine
    <3> QED BY <1>2, <1>4
  <2> QED BY <1>4, <2>1
<1>6. ASSUME NEW x \in s, x # y PROVE Sum(s) = f[x] + Sum(s \ {x})
  <2>1. Fine(s \ {y}) /\ Fine(s \ {x})
    <3> HIDE DEF Fine
    <3> QED BY <1>2, <1>4
  <2>2. (s \ {y}) \ {x} = (s \ {x}) \ {y}
    OBVIOUS
  <2>3. Fine((s \ {x}) \ {y})
    <3>1. (s \ {x}) \ {y} \in SUBSET s /\ (s \ {x}) \ {y} # s
      BY <1>4
    <3> HIDE DEF Fine
    <3> QED BY <1>2, <3>1
  <2>4. /\ Sum(s \ {y}) = f[x] + Sum((s \ {y}) \ {x})
        /\ Sum(s \ {x}) = f[y] + Sum((s \ {x}) \ {y})
    BY <1>4, <1>6, <2>1
  <2>5. f[x] \in Int /\ Sum((s \ {x}) \ {y}) \in Int
    BY <1>2, <2>3
  <2> DEFINE rest == Sum((s \ {x}) \ {y})
  <2>6. Sum(s) = f[y] + (f[x] + rest) /\ Sum(s \ {x}) = f[y] + rest
    BY <1>4, <2>2, <2>4
  <2>7. rest \in Int
    BY <2>5
  <2> HIDE DEF rest
  <2> QED BY <1>4, <2>5, <2>6, <2>7
<1> QED BY <1>1, <1>4, <1>5, <1>6

\* Only the elements count.
LEMMA SumSame ==
  ASSUME NEW S, IsFiniteSet(S), NEW f, NEW g, \A x \in S : f[x] = g[x]
  PROVE  SumFunctionOnSet(f, S) = SumFunctionOnSet(g, S)
<1> DEFINE Bad == {s \in SUBSET S : SumFunctionOnSet(f, s) # SumFunctionOnSet(g, s)}
<1> SUFFICES ASSUME Bad # {} PROVE FALSE
  OBVIOUS
<1>1. PICK s \in Bad : \A r \in Bad : ~(r \subseteq s /\ r # s)
  <2>1. Bad \in SUBSET (SUBSET S)
    OBVIOUS
  <2> HIDE DEF Bad
  <2> QED BY <2>1, Smaller
<1>2. /\ SumFunctionOnSet(f, s) =
           IF s = {} THEN 0 ELSE f[Pick(s)] + SumFunctionOnSet(f, s \ {Pick(s)})
      /\ SumFunctionOnSet(g, s) =
           IF s = {} THEN 0 ELSE g[Pick(s)] + SumFunctionOnSet(g, s \ {Pick(s)})
  BY FS_Subset, SumUnfolds
<1> QED BY <1>1, <1>2, PickIn

-----------------------------------------------------------------------------
(* The books. *)

\* A new transfer adds to what its sender has sent and its recipient received.
LEMMA MovedAfter ==
  ASSUME transfers \in Seq(TransferRow), NEW row \in TransferRow,
         transfers' = Append(transfers, row),
         NEW u, NEW part \in {"sender", "recipient"}
  PROVE  /\ Moved(u, part) \in Int
         /\ Moved(u, part)' = Moved(u, part) + IF row[part] = u THEN row.amount ELSE 0
<1> DEFINE n == Len(transfers) + 1
           paid == [i \in DOMAIN transfers |-> transfers[i].amount]
           now == [i \in DOMAIN transfers' |-> transfers'[i].amount]
           his == {i \in DOMAIN transfers : transfers[i][part] = u}
           hisNow == {i \in DOMAIN transfers' : transfers'[i][part] = u}
<1>1. /\ DOMAIN transfers = 1 .. Len(transfers) /\ Len(transfers) \in Nat
      /\ DOMAIN transfers' = DOMAIN transfers \union {n} /\ n \notin DOMAIN transfers
      /\ \A i \in DOMAIN transfers : transfers'[i] = transfers[i]
      /\ transfers'[n] = row
  OBVIOUS
<1>2. IsFiniteSet(his)
  <2>1. his \subseteq 1 .. Len(transfers)
    BY <1>1
  <2>2. IsFiniteSet(1 .. Len(transfers))
    BY <1>1, FS_Interval
  <2> HIDE DEF his
  <2> QED BY <2>1, <2>2, FS_Subset
<1>3. row.amount \in Int /\ \A i \in DOMAIN transfers : transfers[i].amount \in Int
  <2>1. \A q \in TransferRow : q.amount \in Int
    BY AmountAssumption DEF TransferRow, Amounts
  <2> QED BY <2>1
<1>4. /\ \A i \in his : paid[i] = now[i] /\ now[i] \in Int
      /\ now[n] = row.amount
  BY <1>1, <1>3
<1>5. hisNow = his \union (IF row[part] = u THEN {n} ELSE {})
  BY <1>1
<1>6. n \notin his
  BY <1>1
<1>7. Moved(u, part) = SumFunctionOnSet(paid, his)
  BY DEF Moved
<1>8. Moved(u, part)' = SumFunctionOnSet(now, hisNow)
  BY DEF Moved
<1> HIDE DEF n, paid, now, his, hisNow
<1>9. /\ SumFunctionOnSet(paid, his) = SumFunctionOnSet(now, his)
      /\ SumFunctionOnSet(now, his) \in Int
  BY <1>2, <1>4, SumSame, SumAdds
<1>10. CASE row[part] = u
  <2>1. hisNow \ {n} = his /\ n \in hisNow
    BY <1>5, <1>6, <1>10
  <2>2. IsFiniteSet(hisNow) /\ \A i \in hisNow : now[i] \in Int
    BY <1>2, <1>3, <1>4, <1>5, <1>10, FS_AddElement
  <2>3. SumFunctionOnSet(now, hisNow) = now[n] + SumFunctionOnSet(now, hisNow \ {n})
    BY <2>1, <2>2, SumAdds
  <2>4. Moved(u, part)' = row.amount + SumFunctionOnSet(now, his)
    BY <1>4, <1>8, <2>1, <2>3
  <2>5. Moved(u, part) = SumFunctionOnSet(now, his)
    BY <1>7, <1>9
  <2> QED BY <1>3, <1>9, <1>10, <2>4, <2>5
<1>11. CASE row[part] # u
  BY <1>5, <1>7, <1>8, <1>9, <1>11
<1> QED BY <1>10, <1>11

LEMMA CommitKeepsBooks ==
  ASSUME IInv, Books, NEW r \in Requests, Commit(r)
  PROVE  Books'
<1> DEFINE s == req[r].sender  to == req[r].to  a == req[r].amount
<1>1. Passed(r)
  BY DEF Commit, Passed
<1>2. /\ Row(r) \in TransferRow /\ Row(r)["sender"] = s /\ Row(r)["recipient"] = to
      /\ Row(r).amount = a /\ a \in Int
      /\ transfers \in Seq(TransferRow) /\ s \in Users /\ to \in Users /\ s # to
  <2>1. /\ Row(r) \in TransferRow /\ s \in Users /\ to \in Users /\ a \in Nat
    BY <1>1, RowIsTyped
  <2>2. Row(r)["sender"] = s /\ Row(r)["recipient"] = to /\ Row(r).amount = a
    BY DEF Row
  <2>3. s # to
    BY <1>1 DEF IInv, CheckedInv
  <2> QED BY <2>1, <2>2, <2>3 DEF IInv, TypeOK
<1>3. /\ transfers' = Append(transfers, Row(r)) /\ audits' = audits \union {Len(transfers) + 1}
      /\ balance' = [balance EXCEPT ![s] = @ - a, ![to] = @ + a]
  <2>1. work = [Committed EXCEPT !.transfers = Append(transfers, Row(r)),
                  !.balance = [balance EXCEPT ![s] = @ - a, ![to] = @ + a]]
    BY DEF IInv, WorkInv, ViewOf, Commit
  <2>2. work.audits = audits /\ work.transfers = Append(transfers, Row(r))
    BY <2>1 DEF Committed
  <2>3. Len(work.transfers) = Len(transfers) + 1
    BY <1>2, <2>2
  <2>4. work.balance = [balance EXCEPT ![s] = @ - a, ![to] = @ + a]
    BY <2>1 DEF Committed
  <2> QED BY <2>2, <2>3, <2>4 DEF Commit, Audited
<1>4. audits' = DOMAIN transfers'
  BY <1>3, CommitAppends DEF Books
<1>5. ASSUME NEW u \in Users
      PROVE  balance'[u] = Opening[u] + Moved(u, "recipient")' - Moved(u, "sender")'
  <2> DEFINE got == Moved(u, "recipient")  sent == Moved(u, "sender")
  <2>1. /\ got \in Int /\ sent \in Int
        /\ got' = got + IF to = u THEN a ELSE 0
        /\ sent' = sent + IF s = u THEN a ELSE 0
    BY <1>2, <1>3, MovedAfter
  <2>2. balance[u] = Opening[u] + got - sent /\ Opening[u] \in Int
    BY AmountAssumption DEF Books
  <2>3. balance'[u] = IF u = s THEN balance[u] - a ELSE IF u = to THEN balance[u] + a ELSE balance[u]
    BY <1>2, <1>3 DEF IInv, TypeOK
  <2> HIDE DEF got, sent
  <2> QED BY <1>2, <2>1, <2>2, <2>3 DEF got, sent
<1> QED BY <1>4, <1>5 DEF Books

LEMMA OthersLeaveBooks ==
  ASSUME [Next]_vars, \A r \in Requests : ~Commit(r)
  PROVE  UNCHANGED db
<1>1. ASSUME NEW r \in Requests, Serve(r) \/ Fault(r)
      PROVE  UNCHANGED db
  BY <1>1 DEF Serve, Admit, Begin, Busy, Check, Insert, debit_sender,
     credit_recipient, Deliver, Lose, Fault
<1> QED
  BY <1>1 DEF Next, transfer_form, ChangeStatus, Submit, Crash, vars, db

-----------------------------------------------------------------------------
(* The page over the ledger. *)

LEMMA SameSum == \A f, S : Funds!SumFunctionOnSet(f, S) = SumFunctionOnSet(f, S)
BY DEF Funds!SumFunctionOnSet, Funds!FoldFunctionOnSet, Funds!MapThenFoldSet,
   SumFunctionOnSet, FoldFunctionOnSet, MapThenFoldSet

LEMMA SameCount == \A S : Funds!Cardinality(S) = Cardinality(S)
BY DEF Funds!Cardinality, Cardinality

Entry == [sender : Users, recipient : Users, amount : Nat, key : PageKeys]

\* Funds!History up to row n, and what such rows make of the opening balance.
UpTo(t, n) ==
  {i \in DOMAIN t : Reader \in {t[i].sender, t[i].recipient} /\ i <= n}

Signs(t) ==
  [i \in DOMAIN t |-> IF t[i].recipient = Reader THEN t[i].amount ELSE -t[i].amount]

NetOf(t, S) == Opening[Reader] + SumFunctionOnSet(Signs(t), S)

\* The balance a page has read is what the ledger held after some row n; a page
\* that was not cut off shows all rows up to some row m, which is not before n.
Explained(n) ==
  /\ page.summary = NetOf(entries, UpTo(entries, n))
  /\ page.pc = "shown" /\ Cardinality(page.rows) < PerPage =>
       \E m \in n .. Len(entries) : page.rows = UpTo(entries, m)

PageType == [pc : {"idle", "first", "second", "third", "shown"}, summary : Int,
             rows : SUBSET Nat, total : Nat]

FundsInv ==
  /\ entries \in Seq(Entry) /\ funds \in [Users -> Int] /\ page \in PageType
  /\ funds[Reader] = NetOf(entries, UpTo(entries, Len(entries)))
  /\ page.pc \in {"second", "third", "shown"} => \E n \in 0 .. Len(entries) : Explained(n)

LEMMA HistoryIs ==
  ASSUME entries \in Seq(Entry)
  PROVE  /\ Funds!History = UpTo(entries, Len(entries))
         /\ IsFiniteSet(Funds!History) /\ Funds!History \subseteq 1 .. Len(entries)
<1>1. Funds!History \subseteq 1 .. Len(entries) /\ Funds!History = UpTo(entries, Len(entries))
  BY DEF Funds!History, UpTo
<1>2. IsFiniteSet(1 .. Len(entries))
  BY FS_Interval
<1> QED BY <1>1, <1>2, FS_Subset

LEMMA NetIs == ASSUME NEW S PROVE Funds!Net(S) = NetOf(entries, S)
BY SameSum DEF Funds!Net, NetOf, Signs

\* A new entry leaves the sums up to an earlier one alone ...
LEMMA NetStays ==
  ASSUME NEW t \in Seq(Entry), NEW row \in Entry, NEW n \in 0 .. Len(t)
  PROVE  /\ UpTo(Append(t, row), n) = UpTo(t, n)
         /\ NetOf(Append(t, row), UpTo(t, n)) = NetOf(t, UpTo(t, n))
         /\ SumFunctionOnSet(Signs(t), UpTo(t, n)) \in Int
<1> DEFINE now == Append(t, row)
<1>1. /\ DOMAIN t = 1 .. Len(t) /\ DOMAIN now = 1 .. Len(t) + 1 /\ Len(t) \in Nat
      /\ \A i \in DOMAIN t : now[i] = t[i] /\ t[i] \in Entry
  OBVIOUS
<1> HIDE DEF now
<1>2. UpTo(now, n) = UpTo(t, n)
  BY <1>1 DEF UpTo
<1>3. IsFiniteSet(UpTo(t, n))
  <2>1. UpTo(t, n) \subseteq 1 .. Len(t)
    BY <1>1 DEF UpTo
  <2>2. IsFiniteSet(1 .. Len(t))
    BY <1>1, FS_Interval
  <2> QED BY <2>1, <2>2, FS_Subset
<1>4. \A i \in UpTo(t, n) : Signs(t)[i] = Signs(now)[i] /\ Signs(t)[i] \in Int
  BY <1>1 DEF UpTo, Signs, Entry
<1>5. /\ SumFunctionOnSet(Signs(t), UpTo(t, n)) = SumFunctionOnSet(Signs(now), UpTo(t, n))
      /\ SumFunctionOnSet(Signs(t), UpTo(t, n)) \in Int
  BY <1>3, <1>4, SumSame, SumAdds
<1> QED BY <1>2, <1>5 DEF NetOf, now

\* ... and counts in the sum of all.
LEMMA NetGrows ==
  ASSUME NEW t \in Seq(Entry), NEW row \in Entry, NEW now, now = Append(t, row)
  PROVE  NetOf(now, UpTo(now, Len(now))) =
           NetOf(t, UpTo(t, Len(t)))
           + IF row.recipient = Reader THEN row.amount
             ELSE IF row.sender = Reader THEN -row.amount ELSE 0
<1> DEFINE n == Len(t) + 1  old == UpTo(t, Len(t))  new == UpTo(now, n)
           Sum(S) == SumFunctionOnSet(Signs(now), S)
<1>1. /\ DOMAIN t = 1 .. Len(t) /\ DOMAIN now = 1 .. n /\ Len(t) \in Nat /\ Len(now) = n
      /\ \A i \in DOMAIN t : now[i] = t[i]
      /\ now[n] = row /\ now \in Seq(Entry)
      /\ row.amount \in Int /\ \A i \in DOMAIN now : now[i].amount \in Int
  <2>1. \A q \in Entry : q.amount \in Int
    BY DEF Entry
  <2> QED BY <2>1
<1>2. new = old \union (IF Reader \in {row.sender, row.recipient} THEN {n} ELSE {})
  BY <1>1 DEF UpTo
<1>3. n \notin old /\ IsFiniteSet(old) /\ old \subseteq 1 .. Len(t)
  <2>1. old \subseteq 1 .. Len(t)
    BY <1>1 DEF UpTo
  <2>2. IsFiniteSet(1 .. Len(t)) /\ n \notin 1 .. Len(t)
    BY <1>1, FS_Interval
  <2> HIDE DEF old, n
  <2> QED BY <2>1, <2>2, FS_Subset
<1>4. /\ NetOf(t, old) = Opening[Reader] + Sum(old)
      /\ Sum(old) \in Int /\ Opening[Reader] \in Int
  <2>1. Len(t) \in 0 .. Len(t)
    BY <1>1
  <2>2. NetOf(t, old) = NetOf(now, old) /\ UpTo(now, Len(t)) = old
    BY <2>1, NetStays
  <2>3. Sum(old) \in Int
    <3>1. \A i \in old : Signs(now)[i] \in Int
      BY <1>1, <1>3 DEF Signs
    <3> HIDE DEF old
    <3> QED BY <1>3, <3>1, SumAdds
  <2> QED BY <2>2, <2>3, ReaderAssumption, AmountAssumption DEF NetOf
<1>5. CASE Reader \notin {row.sender, row.recipient}
  BY <1>1, <1>2, <1>4, <1>5 DEF NetOf
<1>6. CASE Reader \in {row.sender, row.recipient}
  <2> DEFINE gain == IF row.recipient = Reader THEN row.amount ELSE -row.amount
  <2>1. new = old \union {n} /\ new \ {n} = old /\ n \in new /\ IsFiniteSet(new)
    BY <1>2, <1>3, <1>6, FS_AddElement
  <2>2. Signs(now)[n] = gain /\ \A i \in new : Signs(now)[i] \in Int
    <3>1. new \subseteq DOMAIN now
      BY DEF UpTo
    <3> HIDE DEF new
    <3> QED BY <1>1, <3>1 DEF Signs
  <2>3. Sum(new) = gain + Sum(old)
    <3> HIDE DEF new, old, n, gain
    <3> QED BY <2>1, <2>2, SumAdds
  <2>4. NetOf(now, new) = Opening[Reader] + Sum(new)
    BY DEF NetOf
  <2> HIDE DEF Sum, new, old
  <2>5. NetOf(now, new) = NetOf(t, old) + gain
    BY <1>1, <1>4, <2>3, <2>4
  <2> QED BY <1>1, <1>6, <2>5 DEF new, old
<1> QED BY <1>5, <1>6

\* A set of row numbers has a last one.
LEMMA Greatest ==
  ASSUME NEW N \in Nat, NEW T \in SUBSET (1 .. N), T # {}
  PROVE  \E n \in T : \A m \in T : m <= n
<1> DEFINE U == {N - i : i \in T}
<1>1. U \in SUBSET Nat /\ U # {}
  <2>1. \A i \in T : N - i \in Nat
    OBVIOUS
  <2> QED BY <2>1
<1>2. PICK u \in U : \A v \in U : u <= v
  <2> HIDE DEF U
  <2> QED BY <1>1, Least
<1>3. PICK n \in T : u = N - n
  OBVIOUS
<1>4. \A m \in T : N - n <= N - m
  BY <1>2, <1>3
<1> QED BY <1>4

\* A first page with room left is the whole history.
LEMMA RoomLeft ==
  ASSUME entries \in Seq(Entry), Cardinality(Funds!Newest) < PerPage
  PROVE  Funds!Newest = Funds!History
<1> DEFINE newer(i) == {j \in Funds!History : j > i}
           T == Funds!History \ Funds!Newest
<1> SUFFICES ASSUME T # {} PROVE FALSE
  BY DEF Funds!Newest
<1>1. IsFiniteSet(Funds!History) /\ Funds!History \subseteq 1 .. Len(entries)
  BY HistoryIs
<1>2. PICK i \in T : \A m \in T : m <= i
  <2>1. Len(entries) \in Nat
    OBVIOUS
  <2>2. T \in SUBSET (1 .. Len(entries))
    BY <1>1
  <2> HIDE DEF T
  <2> QED BY <2>1, <2>2, Greatest
<1>3. newer(i) \subseteq Funds!Newest
  <2>1. \A j \in Funds!History : j \in Int
    BY <1>1
  <2>2. i \in Int
    BY <2>1
  <2>3. ASSUME NEW j \in Funds!History, j > i PROVE j \in Funds!Newest
    <3>1. ~ (j <= i)
      BY <2>1, <2>2, <2>3
    <3> QED BY <1>2, <3>1
  <2> QED BY <2>3
<1>4. ~ (Cardinality(newer(i)) < PerPage)
  BY <1>2, SameCount DEF Funds!Newest
<1>5. IsFiniteSet(Funds!Newest) /\ IsFiniteSet(newer(i))
  BY <1>1, FS_Subset DEF Funds!Newest
<1> HIDE DEF newer
<1>6. /\ Cardinality(newer(i)) <= Cardinality(Funds!Newest)
      /\ Cardinality(newer(i)) \in Nat /\ Cardinality(Funds!Newest) \in Nat
  BY <1>3, <1>5, FS_Subset, FS_CardinalityType
<1> QED BY <1>4, <1>6, ReaderAssumption

LEMMA FundsBegin == ASSUME Funds!Init PROVE FundsInv
<1>1. entries = << >> /\ funds = Opening /\ page = Funds!NoPage
  BY DEF Funds!Init, Funds!L!Init
<1>2. UpTo(entries, Len(entries)) = {}
  BY <1>1 DEF UpTo
<1>3. NetOf(entries, {}) = Opening[Reader]
  <2>1. SumFunctionOnSet(Signs(entries), {}) = 0
    BY SumUnfolds, FS_EmptySet
  <2> QED BY <2>1, ReaderAssumption, AmountAssumption DEF NetOf
<1>4. entries \in Seq(Entry) /\ funds \in [Users -> Int] /\ page \in PageType
  BY <1>1, AmountAssumption DEF Funds!NoPage, PageType
<1> QED BY <1>1, <1>2, <1>3, <1>4 DEF FundsInv, Funds!NoPage

LEMMA PayKeeps ==
  ASSUME FundsInv, UNCHANGED page, Funds!L!Next
  PROVE  FundsInv'
<1>1. CASE \E u \in Users, new \in {"active", "dormant"} : Funds!L!SetStatus(u, new)
  BY <1>1 DEF Funds!L!SetStatus, FundsInv, Explained
<1>2. ASSUME NEW s \in Users, NEW r \in Users, NEW a \in Funds!L!Amounts, NEW k \in PageKeys,
             Funds!L!Pay(s, r, a, k)
      PROVE  FundsInv'
  <2> DEFINE row == Funds!L!Row(s, r, a, k)
  <2>1. /\ entries \in Seq(Entry) /\ funds \in [Users -> Int] /\ row \in Entry /\ a \in Int
        /\ row.sender = s /\ row.recipient = r /\ row.amount = a
        /\ s # r /\ entries' = Append(entries, row)
        /\ funds' = [funds EXCEPT ![s] = @ - a, ![r] = @ + a]
    BY <1>2, AmountAssumption DEF FundsInv, Funds!L!Pay, Funds!L!Row, Funds!L!Amounts, Entry
  <2> HIDE DEF row
  <2>2. entries' \in Seq(Entry) /\ funds' \in [Users -> Int] /\ Len(entries') = Len(entries) + 1
        /\ Len(entries) \in Nat
    BY <2>1
  <2>3. NetOf(entries, UpTo(entries, Len(entries))) = funds[Reader] /\ Reader \in Users
    BY ReaderAssumption DEF FundsInv
  <2>4. funds'[Reader] = NetOf(entries', UpTo(entries', Len(entries')))
    <3>1. NetOf(entries', UpTo(entries', Len(entries'))) =
            funds[Reader] + IF r = Reader THEN a ELSE IF s = Reader THEN -a ELSE 0
      BY <2>1, <2>3, NetGrows
    <3> QED BY <2>1, <2>3, <3>1
  <2>5. \A n \in 0 .. Len(entries) :
          /\ UpTo(entries', n) = UpTo(entries, n)
          /\ NetOf(entries', UpTo(entries', n)) = NetOf(entries, UpTo(entries, n))
    BY <2>1, NetStays
  <2>6. ASSUME NEW n \in 0 .. Len(entries), Explained(n)
        PROVE  n \in 0 .. Len(entries') /\ Explained(n)'
    <3>1. ASSUME page.pc = "shown" /\ Cardinality(page.rows) < PerPage
          PROVE  \E m \in n .. Len(entries') : page.rows = UpTo(entries', m)
      BY <2>2, <2>5, <2>6, <3>1 DEF Explained
    <3> QED BY <2>2, <2>5, <2>6, <3>1 DEF Explained
  <2> QED BY <2>2, <2>4, <2>6 DEF FundsInv
<1> QED BY <1>1, <1>2 DEF Funds!L!Next

LEMMA ReadsKeep ==
  ASSUME FundsInv, Funds!index \/ Funds!Reads \/ Funds!Leave
  PROVE  FundsInv'
<1>0. /\ entries \in Seq(Entry) /\ funds \in [Users -> Int] /\ page \in PageType
      /\ Len(entries) \in Nat /\ UNCHANGED <<entries, funds>>
  BY DEF FundsInv, Funds!index, Funds!Reads, Funds!Leave, Funds!get_wallet_summary,
     Funds!CountHistory, Funds!ReadHistory
<1>1. CASE page' \in PageType /\ page'.pc \in {"idle", "first"}
  BY <1>0, <1>1 DEF FundsInv
<1>2. Funds!NoPage \in PageType /\ Funds!NoPage.pc = "idle"
  BY DEF Funds!NoPage, PageType
<1>3. CASE Funds!index \/ Funds!Leave
  BY <1>0, <1>1, <1>2, <1>3 DEF Funds!index, Funds!Leave, PageType
<1>4. CASE Funds!get_wallet_summary("first", "second")
  <2>1. CASE page' = Funds!NoPage
    BY <1>1, <1>2, <2>1
  <2>2. CASE page' = [page EXCEPT !.pc = "second", !.summary = funds[Reader]]
    <3>1. page' \in PageType /\ page'.pc = "second" /\ page'.summary = funds[Reader]
      BY <1>0, <2>2, ReaderAssumption DEF PageType
    <3>2. Explained(Len(entries))' /\ Len(entries) \in 0 .. Len(entries)
      BY <1>0, <3>1 DEF Explained, FundsInv
    <3> QED BY <1>0, <3>1, <3>2 DEF FundsInv
  <2> QED BY <1>4, <2>1, <2>2 DEF Funds!get_wallet_summary
<1>5. CASE Funds!CountHistory("second", "third")
  <2>1. Cardinality(Funds!History) \in Nat
    BY <1>0, HistoryIs, FS_CardinalityType
  <2>2. page' \in PageType /\ page'.pc = "third" /\ page'.summary = page.summary
    BY <1>0, <1>5, <2>1, SameCount DEF PageType, Funds!CountHistory
  <2>3. PICK n \in 0 .. Len(entries) : Explained(n)
    BY <1>5 DEF FundsInv, Funds!CountHistory
  <2>4. Explained(n)'
    BY <1>0, <2>2, <2>3 DEF Explained
  <2> QED BY <1>0, <2>2, <2>4 DEF FundsInv
<1>6. CASE Funds!ReadHistory("third", "shown")
  <2>1. Funds!Newest \in SUBSET Nat
    BY <1>0, HistoryIs DEF Funds!Newest
  <2>2. /\ page' \in PageType /\ page'.pc = "shown" /\ page'.summary = page.summary
        /\ page'.rows = Funds!Newest
    BY <1>0, <1>6, <2>1 DEF PageType, Funds!ReadHistory
  <2>3. PICK n \in 0 .. Len(entries) : Explained(n)
    BY <1>6 DEF FundsInv, Funds!ReadHistory
  <2>4. ASSUME Cardinality(page'.rows) < PerPage
        PROVE  page'.rows = UpTo(entries, Len(entries))
    BY <1>0, <2>2, <2>4, RoomLeft, HistoryIs
  <2>5. Explained(n)'
    BY <1>0, <2>2, <2>3, <2>4 DEF Explained
  <2> QED BY <1>0, <2>2, <2>5 DEF FundsInv
<1> QED BY <1>3, <1>4, <1>5, <1>6 DEF Funds!Reads

-----------------------------------------------------------------------------
LEMMA Together == Spec => [](IInv /\ IntentInv)
<1>1. Init => IntentInv
  <2> SUFFICES ASSUME Init PROVE IntentInv
    OBVIOUS
  <2>1. intent = << >> /\ Len(intent) = 0 /\ DOMAIN intent = {} /\ DOMAIN transfers = {}
    BY DEF Init
  <2> QED BY <2>1 DEF Init, Idle, IntentInv, Known, OneInUse
<1>2. IInv /\ IntentInv /\ [Next]_vars => IInv' /\ IntentInv'
  BY NextKeeps, NextKeepsIntent
<1> QED
  BY <1>1, <1>2, InitIInv, PTL DEF Spec

THEOREM Invariance == Spec => []IInv
  BY Together, PTL

\* The type invariant, and with it that no wallet is ever overdrawn: balances
\* are natural numbers without the CHECK constraint having to refuse an update.
THEOREM TypeCorrect == Spec => []TypeOK
<1>1. IInv => TypeOK
  BY DEF IInv
<1> QED
  BY <1>1, Invariance, PTL

\* However many threads post the same form, its key is spent at most once.
THEOREM KeysSpentOnce == Spec => []OneTransferPerKey
<1>1. IInv => OneTransferPerKey
  <2> SUFFICES ASSUME IInv PROVE OneTransferPerKey
    OBVIOUS
  <2>1. CASE work.transfers = transfers
    BY <2>1 DEF IInv, UniqueKeys, OneTransferPerKey
  <2>2. ASSUME NEW r \in Requests, Passed(r),
               work.transfers = Append(transfers, Row(r))
        PROVE  OneTransferPerKey
    <3>1. \A i \in DOMAIN transfers : transfers[i].key # Row(r).key
      BY <2>2 DEF IInv, CheckedInv, L!Spent, Row
    <3>2. transfers \in Seq(TransferRow)
      BY DEF IInv, TypeOK
    <3>3. /\ DOMAIN work.transfers = DOMAIN transfers \union {Len(transfers) + 1}
          /\ \A i \in DOMAIN transfers : work.transfers[i] = transfers[i]
          /\ work.transfers[Len(transfers) + 1] = Row(r)
      BY <2>2, <3>2
    <3> QED
      BY <3>1, <3>3 DEF IInv, UniqueKeys, OneTransferPerKey
  <2>3. \/ work.transfers = transfers
        \/ \E r \in Requests : Passed(r) /\ work.transfers = Append(transfers, Row(r))
    <3>1. CASE lock = NoRequest
      BY <3>1 DEF IInv, WorkInv, Committed
    <3>2. CASE lock \in Requests
      <4>1. InTransaction(lock) /\ ViewOf(lock)
        BY <3>2 DEF IInv, LockInv, WorkInv
      <4>2. CASE req[lock].pc \in {"begun", "checked"}
        BY <4>1, <4>2 DEF ViewOf, Committed
      <4>3. CASE req[lock].pc \in {"inserted", "debited", "credited"}
        <5>1. work.transfers = Append(transfers, Row(lock))
          BY <4>1, <4>3 DEF ViewOf, Committed
        <5> QED
          BY <3>2, <4>3, <5>1 DEF Passed
      <4> QED
        BY <4>1, <4>2, <4>3 DEF InTransaction
    <3> QED
      BY <3>1, <3>2 DEF IInv, TypeOK
  <2> QED
    BY <2>1, <2>2, <2>3
<1> QED
  BY <1>1, Invariance, PTL

\* create_transfer under BEGIN IMMEDIATE implements the abstract ledger.
THEOREM Refinement == Spec => ImplementsLedger
<1>1. Init => L!Init
  BY DEF Init, L!Init
<1>2. IInv /\ [Next]_vars => [L!Next]_<<balance, transfers, status>>
  <2> SUFFICES ASSUME IInv, [Next]_vars
               PROVE  L!Next \/ UNCHANGED <<balance, transfers, status>>
    OBVIOUS
  <2>1. ASSUME NEW r \in Requests, Commit(r)
        PROVE  L!Next
    BY <2>1, CommitPays DEF L!Next, L!Amounts, Amounts
  <2>2. ASSUME NEW u \in Users, ChangeStatus(u)
        PROVE  L!Next
    <3>1. L!SetStatus(u, IF status[u] = "active" THEN "dormant" ELSE "active")
      BY <2>2 DEF ChangeStatus, L!SetStatus, db
    <3> QED
      BY <3>1 DEF L!Next
  <2>3. ASSUME NEW r \in Requests, Serve(r) \/ Fault(r), ~Commit(r)
        PROVE  UNCHANGED <<balance, transfers, status>>
    BY <2>3 DEF Serve, Admit, Begin, Busy, Check, Insert, debit_sender,
       credit_recipient, Deliver, Lose, Fault, db
  <2> QED
    BY <2>1, <2>2, <2>3 DEF Next, transfer_form, Submit, Crash, vars, db
<1> QED
  BY <1>1, <1>2, Invariance, PTL DEF Spec, ImplementsLedger, L!Spec

\* Success is only claimed for the very transfer asked for, a conflict only
\* where the key paid for something else, until the browser has its answer.
THEOREM AnswersTruthful == Spec => []TruthfulAnswer
<1>1. Init => TruthfulAnswer
  BY DEF Init, Idle, TruthfulAnswer, Answered
<1>2. IInv /\ TruthfulAnswer /\ [Next]_vars => TruthfulAnswer'
  BY NextKeepsTruth
<1> QED
  BY <1>1, <1>2, Invariance, PTL DEF Spec

\* A payment the user wants once is made once, through every double click, lost
\* answer, "error" that hid a COMMIT, crash, resend, and new token after a
\* refusal: at most one token at a time can pay for it (OneInUse), and a token
\* pays once (UniqueKeys).  The exception is a refusal that comes when the old
\* token has paid or still can (wallet/routes.py, services.py create_transfer).
THEOREM PaidOnce == Spec => []IntentPaidOnce
<1>1. IInv /\ IntentInv => IntentPaidOnce
  <2> SUFFICES ASSUME IInv, IntentInv,
                      NEW i \in DOMAIN transfers, NEW j \in DOMAIN transfers,
                      transfers[i].sender = transfers[j].sender,
                      intent[transfers[i].key[2]] = intent[transfers[j].key[2]],
                      intent[transfers[i].key[2]] \notin misled
               PROVE  i = j
    BY DEF IntentPaidOnce, PaidTwice
  <2> DEFINE u == transfers[i].sender
  <2>1. /\ transfers[i].key \in Users \X Tokens /\ transfers[j].key \in Users \X Tokens
        /\ u \in Users
    <3>1. transfers[i] \in TransferRow /\ transfers[j] \in TransferRow
      BY DEF IInv, TypeOK
    <3> QED
      BY <3>1 DEF TransferRow, Keys
  <2>2. /\ transfers[i].key[1] = u /\ transfers[i].key[2] \in DOMAIN intent
        /\ transfers[j].key[1] = u /\ transfers[j].key[2] \in DOMAIN intent
    BY DEF IntentInv, Known
  <2> PICK k1, k2 \in DOMAIN intent : transfers[i].key = <<u, k1>> /\ transfers[j].key = <<u, k2>>
    BY <2>1, <2>2
  <2>3. InUse(u, k1) /\ InUse(u, k2) /\ intent[k1] = intent[k2] /\ intent[k1] \notin misled
    BY DEF InUse
  <2>4. k1 = k2
    BY <2>1, <2>3 DEF IntentInv, OneInUse
  <2> QED
    BY <2>4 DEF IInv, UniqueKeys
<1> QED
  BY <1>1, Together, PTL

\* For any opening balances, amounts and number of transfers, each wallet holds
\* what it was opened with plus what it was sent minus what it has sent, and each
\* transfer has its audit row: BEGIN IMMEDIATE makes debit, credit, row and audit
\* one step (wallet/services.py, create_transfer).
THEOREM BooksBalance == Spec => []Books
<1>1. Init => Books
  <2> SUFFICES ASSUME Init PROVE Books
    OBVIOUS
  <2>1. \A u, part : Moved(u, part) = 0
    <3>1. \A u, part : {i \in DOMAIN transfers : transfers[i][part] = u} = {}
      BY DEF Init
    <3> QED BY <3>1, SumUnfolds, FS_EmptySet DEF Moved
  <2> QED BY <2>1, AmountAssumption DEF Init, Books
<1>2. ASSUME IInv, Books, [Next]_vars PROVE Books'
  <2>1. CASE \E r \in Requests : Commit(r)
    BY <1>2, <2>1, CommitKeepsBooks
  <2>2. CASE \A r \in Requests : ~Commit(r)
    BY <1>2, <2>2, OthersLeaveBooks DEF Books, Moved, db
  <2> QED BY <2>1, <2>2
<1> QED
  BY <1>1, <1>2, Invariance, PTL DEF Spec

\* For any users, amounts, page length and number of payments, and payments
\* between any two of the three reads of wallet/routes.py, index: a page that is
\* not cut off accounts for every point of the balance it shows.
THEOREM BalancesAreExplained == SiteSpec => []BalanceExplained
<1>1. SiteInit => FundsInv
  BY FundsBegin DEF SiteInit
<1>2. FundsInv /\ [SiteNext]_<<vars, pageVars>> => FundsInv'
  <2> SUFFICES ASSUME FundsInv, [SiteNext]_<<vars, pageVars>> PROVE FundsInv'
    OBVIOUS
  <2>1. CASE UNCHANGED pageVars
    BY <2>1 DEF pageVars, FundsInv, Explained
  <2>2. CASE Funds!Next
    BY <2>2, PayKeeps, ReadsKeep DEF Funds!Next
  <2> QED BY <2>1, <2>2 DEF SiteNext
<1>3. FundsInv => BalanceExplained
  <2> SUFFICES ASSUME FundsInv, page.pc = "shown", Cardinality(page.rows) < PerPage
               PROVE  \E last \in page.rows \union {0} :
                        page.summary = Funds!Net({i \in page.rows : i <= last})
    BY SameCount DEF BalanceExplained, Funds!BalanceExplained
  <2>1. PICK n \in 0 .. Len(entries) : Explained(n)
    BY DEF FundsInv
  <2>2. PICK m \in n .. Len(entries) : page.rows = UpTo(entries, m)
    BY <2>1 DEF Explained
  <2>3. UpTo(entries, n) = {i \in page.rows : i <= n} /\ UpTo(entries, n) \subseteq 1 .. Len(entries)
        /\ Len(entries) \in Nat
    BY <2>2 DEF UpTo, FundsInv
  <2>4. CASE UpTo(entries, n) = {}
    <3>1. {i \in page.rows : i <= 0} = {}
      BY <2>2 DEF UpTo, FundsInv
    <3> QED BY <2>1, <2>4, <3>1, NetIs DEF Explained
  <2>5. CASE UpTo(entries, n) # {}
    <3>1. PICK last \in UpTo(entries, n) : \A j \in UpTo(entries, n) : j <= last
      BY <2>3, <2>5, Greatest
    <3>2. {i \in page.rows : i <= last} = UpTo(entries, n) /\ last \in page.rows
      BY <2>2, <2>3, <3>1 DEF UpTo
    <3> QED BY <2>1, <3>2, NetIs DEF Explained
  <2> QED BY <2>4, <2>5
<1> QED
  BY <1>1, <1>2, <1>3, PTL DEF SiteSpec
=============================================================================
