-------------------------- MODULE ApprovalsProofs --------------------------
(***************************************************************************)
(* Proofs about Approvals, for any number of requests, nonces and request  *)
(* threads, any escalation policy and any times.                           *)
(*                                                                         *)
(*   NoncesDecideOnce   threads past BurnNonce hold different nonces       *)
(*   StatusIsDecision   a listed copy of the pass is PENDING, undecided    *)
(*   EscalationsWait    a copy is at no higher level than the clock allows *)
(*   RemindersBounded   the last reminder leaves room for the next         *)
(*   DecisionsBounded   decisions, and threads about to write one, are     *)
(*                      limited by the threads and the reopenings          *)
(***************************************************************************)
EXTENDS Approvals, FiniteSetTheorems, TLAPS

-----------------------------------------------------------------------------
(* Type correctness.                                                       *)

\* A handler goes on with callback x, and no request disappears.
LEMMA HandlersStay ==
  ASSUME TypeOK, NEW h \in Handlers, NEW x \in Handler,
         x.pc # "idle" => /\ x.req \in Requests /\ requests[x.req] # None
                          /\ x.nonce \in Nonces /\ x.choice \in Decisions,
         x.pc = "write" => x.row \in Row,
         handler' = [handler EXCEPT ![h] = x],
         \A r \in Requests : requests[r] # None => requests'[r] # None
  PROVE  HandlersOK'
BY DEF TypeOK, HandlersOK

\* No handler moves, and no request disappears.
LEMMA HandlersRest ==
  ASSUME TypeOK, handler' = handler,
         \A r \in Requests : requests[r] # None => requests'[r] # None
  PROVE  HandlersOK'
BY DEF TypeOK, HandlersOK

\* save_approval_request.
LEMMA RowSaved ==
  ASSUME TypeOK, NEW r \in Requests, NEW row \in Row, requests' = [requests EXCEPT ![r] = row],
         nonces' \subseteq Nonces, reminders' = reminders
  PROVE  RowsOK' /\ \A q \in Requests : requests[q] # None => requests'[q] # None
BY ApprovalAssumptions DEF TypeOK, RowsOK

\* Answering and moving on.
LEMMA AnswerTypes ==
  ASSUME TypeOK, NEW h \in Handlers, Answer(h),
         \A r \in Requests : requests[r] # None => requests'[r] # None
  PROVE  HandlersOK'
<1>1. NoCallback \in Handler /\ NoCallback.pc = "idle"
  BY DEF NoCallback, Handler
<1> QED
  BY <1>1, HandlersStay DEF Answer

LEMMA GotoTypes ==
  ASSUME TypeOK, NEW h \in Handlers, NEW l \in {"token", "burn", "read"}, Goto(h, l),
         handler[h].pc # "idle", requests' = requests
  PROVE  HandlersOK'
<1> DEFINE x == [handler[h] EXCEPT !.pc = l]
<1>1. handler[h] \in Handler
  BY DEF TypeOK, HandlersOK
<1>2. x \in Handler /\ x.pc = l /\ x.req = handler[h].req /\ x.nonce = handler[h].nonce
      /\ x.choice = handler[h].choice
  BY <1>1 DEF Handler
<1>3. handler' = [handler EXCEPT ![h] = x]
  BY DEF Goto
<1>4. /\ x.req \in Requests /\ requests[x.req] # None
      /\ x.nonce \in Nonces /\ x.choice \in Decisions
  BY <1>2 DEF TypeOK, HandlersOK
<1> HIDE DEF x
<1> QED
  BY <1>2, <1>3, <1>4, HandlersStay

\* A callback handler keeps the types.
LEMMA CallbackTypes ==
  ASSUME TypeOK, NEW h \in Handlers, HandlerStep(h)
  PROVE  TypeOK'
<1> USE DEF rows, history
<1>1. ASSUME UNCHANGED <<now, requests, reminders, sweep, history>>, nonces' \subseteq Nonces,
             HandlersOK'
      PROVE  TypeOK'
  BY <1>1 DEF TypeOK, RowsOK, SweepOK, HistoryOK
<1>2. CASE \E r \in Requests, n \in Nonces, d \in Decisions : ReceiveCallback(h, r, n, d)
  <2>1. PICK r \in Requests, n \in Nonces, d \in Decisions : ReceiveCallback(h, r, n, d)
    BY <1>2
  <2> DEFINE x == [NoCallback EXCEPT !.pc = "nonce", !.req = r, !.nonce = n, !.choice = d]
  <2>2. x \in Handler /\ x.pc = "nonce" /\ x.req = r /\ x.nonce = n /\ x.choice = d
    BY DEF NoCallback, Handler
  <2>3. handler' = [handler EXCEPT ![h] = x] /\ requests[r] # None /\ requests' = requests
    BY <2>1 DEF ReceiveCallback
  <2> HIDE DEF x
  <2>4. HandlersOK'
    BY <2>2, <2>3, HandlersStay
  <2> QED
    BY <1>1, <2>1, <2>4 DEF ReceiveCallback, TypeOK, RowsOK
<1>3. CASE CheckNonce(h)
  BY <1>1, <1>3, AnswerTypes, GotoTypes DEF CheckNonce, TypeOK, RowsOK
<1>4. CASE VerifyToken(h)
  BY <1>1, <1>4, AnswerTypes, GotoTypes DEF VerifyToken, TypeOK, RowsOK
<1>5. CASE BurnNonce(h)
  <2>1. nonces' \subseteq Nonces
    BY <1>5 DEF BurnNonce, TypeOK, RowsOK, HandlersOK
  <2> QED
    BY <1>1, <1>5, <2>1, AnswerTypes, GotoTypes DEF BurnNonce
<1>6. CASE ReadRequest(h)
  <2> DEFINE row == requests[handler[h].req]
             x == [handler[h] EXCEPT !.pc = "write", !.row = row]
  <2>1. CASE Answer(h)
    BY <1>1, <1>6, <2>1, AnswerTypes DEF ReadRequest, TypeOK, RowsOK
  <2>2. CASE handler' = [handler EXCEPT ![h].pc = "write", ![h].row = row]
    <3>1. /\ handler[h] \in Handler
          /\ handler[h].req \in Requests /\ row # None
          /\ handler[h].nonce \in Nonces /\ handler[h].choice \in Decisions
      BY <1>6 DEF ReadRequest, TypeOK, HandlersOK
    <3>2. row \in Row
      BY <3>1 DEF TypeOK, RowsOK
    <3>3. /\ x \in Handler /\ x.pc = "write" /\ x.req = handler[h].req
          /\ x.nonce = handler[h].nonce /\ x.choice = handler[h].choice /\ x.row = row
      BY <3>1, <3>2 DEF Handler
    <3>4. handler' = [handler EXCEPT ![h] = x] /\ requests' = requests
      BY <1>6, <2>2 DEF ReadRequest, TypeOK, HandlersOK
    <3> HIDE DEF x
    <3>5. HandlersOK'
      BY <3>1, <3>2, <3>3, <3>4, HandlersStay
    <3> QED
      BY <1>1, <1>6, <3>5 DEF ReadRequest, TypeOK, RowsOK
  <2> QED
    BY <1>6, <2>1, <2>2 DEF ReadRequest
<1>7. CASE SaveDecision(h)
  <2> DEFINE d == handler[h].choice
             row == [handler[h].row EXCEPT !.status = d, !.decision = d]
  <2>1. /\ handler[h].req \in Requests /\ handler[h].nonce \in Nonces
        /\ d \in Decisions /\ handler[h].row \in Row
    BY <1>7 DEF SaveDecision, TypeOK, HandlersOK
  <2>2. row \in Row
    BY <2>1 DEF Row, ApprovalState
  <2>3. requests' = [requests EXCEPT ![handler[h].req] = row]
    BY <1>7 DEF SaveDecision
  <2> HIDE DEF row
  <2>4. RowsOK' /\ \A q \in Requests : requests[q] # None => requests'[q] # None
    BY <1>7, <2>1, <2>2, <2>3, RowSaved DEF SaveDecision, TypeOK, RowsOK
  <2>5. HandlersOK'
    BY <1>7, <2>4, AnswerTypes DEF SaveDecision
  <2>6. HistoryOK'
    BY <1>7, <2>1 DEF SaveDecision, TypeOK, HistoryOK
  <2> QED
    BY <1>7, <2>4, <2>5, <2>6 DEF SaveDecision, TypeOK, SweepOK
<1>8. CASE CallbackDies(h)
  BY <1>1, <1>8, AnswerTypes DEF CallbackDies, TypeOK, RowsOK
<1> QED
  BY <1>2, <1>3, <1>4, <1>5, <1>6, <1>7, <1>8 DEF HandlerStep

\* What the pass works on: a listed row and its request.
LEMMA ItemTypes ==
  ASSUME TypeOK, sweep.phase \in {"expire", "escalate", "remind"}
  PROVE  sweep.item[1] \in Requests /\ sweep.item[2] \in Row
BY DEF TypeOK, SweepOK, Sweep

\* The pass goes on after it has written.
LEMMA SweepGoesOn ==
  ASSUME TypeOK, sweep' = [sweep EXCEPT !.phase = "scan"]
  PROVE  SweepOK'
<1>1. sweep' \in Sweep /\ sweep'.phase = "scan"
  BY DEF TypeOK, SweepOK, Sweep
<1> QED
  BY <1>1 DEF SweepOK

\* The pass keeps the types.
LEMMA SweepTypes ==
  ASSUME TypeOK, SweepStep
  PROVE  TypeOK'
<1> USE DEF rows, history
<1>1. ASSUME UNCHANGED <<now, rows, handler, history>>, SweepOK'
      PROVE  TypeOK'
  BY <1>1 DEF TypeOK, RowsOK, HandlersOK, HistoryOK
<1>2. CASE BeginSweep
  <2> DEFINE found == {<<r, requests[r]>> : r \in {q \in Requests :
                         requests[q] # None /\ requests[q].status = "PENDING"}}
  <2>1. \A q \in Requests : requests[q] # None => requests[q] \in Row
    BY DEF TypeOK, RowsOK
  <2>2. found \subseteq Requests \X Row
    <3> SUFFICES ASSUME NEW e \in found PROVE e \in Requests \X Row
      OBVIOUS
    <3>1. PICK q \in Requests : requests[q] # None /\ e = <<q, requests[q]>>
      OBVIOUS
    <3> QED
      BY <2>1, <3>1
  <2>3. sweep' = [NoSweep EXCEPT !.phase = "scan", !.todo = found]
    BY <1>2 DEF BeginSweep
  <2> HIDE DEF found
  <2>4. sweep' \in Sweep /\ sweep'.phase = "scan"
    BY <2>2, <2>3 DEF NoSweep, Sweep
  <2> QED
    BY <1>1, <1>2, <2>4 DEF BeginSweep, SweepOK
<1>3. CASE \E x \in sweep.todo : Inspect(x)
  <2>1. PICK x \in sweep.todo : Inspect(x)
    BY <1>3
  <2>2. x \in Requests \X Row /\ sweep.todo \ {x} \subseteq Requests \X Row
    <3>1. sweep.todo \subseteq Requests \X Row
      BY DEF TypeOK, SweepOK, Sweep
    <3> QED
      BY <2>1, <3>1
  <2>3. Task(x[1], x[2], now) \in {"scan", "expire", "escalate", "remind"} /\ now \in Nat
    BY ApprovalAssumptions DEF Task, TypeOK
  <2>4. sweep' \in Sweep /\ sweep'.item = x
    BY <2>1, <2>2, <2>3 DEF Inspect, Sweep
  <2> QED
    BY <1>1, <2>1, <2>2, <2>4 DEF Inspect, SweepOK
<1>4. CASE Expire
  <2> DEFINE row == [sweep.item[2] EXCEPT !.status = "EXPIRED"]
  <2>1. sweep.item[1] \in Requests /\ sweep.item[2] \in Row
    BY <1>4, ItemTypes DEF Expire
  <2>2. row \in Row
    BY <2>1 DEF Row, ApprovalState
  <2>3. requests' = [requests EXCEPT ![sweep.item[1]] = row]
    BY <1>4 DEF Expire
  <2> HIDE DEF row
  <2>4. RowsOK' /\ HandlersOK'
    BY <1>4, <2>1, <2>2, <2>3, RowSaved, HandlersRest DEF Expire, TypeOK, RowsOK
  <2> QED
    BY <1>4, <2>4, SweepGoesOn DEF Expire, TypeOK, HistoryOK
<1>5. CASE Escalate
  <2> DEFINE row == [sweep.item[2] EXCEPT !.level = @ + 1]
  <2>1. sweep.item[1] \in Requests /\ sweep.item[2] \in Row
    BY <1>5, ItemTypes DEF Escalate
  <2>2. sweep.item[2].level + 1 \in Nat
    BY <2>1 DEF Row
  <2>3. row \in Row
    BY <2>1, <2>2 DEF Row, ApprovalState
  <2>4. requests' = [requests EXCEPT ![sweep.item[1]] = row]
    BY <1>5 DEF Escalate
  <2> HIDE DEF row
  <2>5. RowsOK' /\ HandlersOK'
    BY <1>5, <2>1, <2>3, <2>4, RowSaved, HandlersRest DEF Escalate, TypeOK, RowsOK
  <2>6. HistoryOK'
    BY <1>5, <2>1 DEF Escalate, TypeOK, HistoryOK
  <2> QED
    BY <1>5, <2>5, <2>6, SweepGoesOn DEF Escalate, TypeOK
<1>6. CASE Remind
  <2>1. sweep.item[1] \in Requests /\ sweep.at \in Nat
    BY <1>6, ItemTypes DEF Remind, TypeOK, SweepOK, Sweep
  <2>2. Append(reminders[sweep.item[1]], sweep.at) \in Seq(Nat)
    BY <2>1 DEF TypeOK, RowsOK
  <2>3. reminders' \in [Requests -> Seq(Nat)]
    BY <1>6, <2>1, <2>2 DEF Remind, TypeOK, RowsOK
  <2>4. RowsOK' /\ HandlersOK'
    BY <1>6, <2>3, HandlersRest DEF Remind, TypeOK, RowsOK
  <2> QED
    BY <1>6, <2>4, SweepGoesOn DEF Remind, TypeOK, HistoryOK
<1>7. CASE EndSweep
  <2>1. NoSweep \in Sweep /\ NoSweep.phase = "idle"
    BY DEF NoSweep, Sweep
  <2> QED
    BY <1>1, <1>7, <2>1 DEF EndSweep, SweepOK
<1> QED
  BY <1>2, <1>3, <1>4, <1>5, <1>6, <1>7 DEF SweepStep

LEMMA CreateTypes ==
  ASSUME TypeOK, NEW r \in Requests, CreateRequest(r)
  PROVE  TypeOK'
<1> DEFINE row == [status |-> "PENDING", level |-> 1, decision |-> None, created |-> now]
<1>1. row \in Row
  BY ApprovalAssumptions DEF Row, ApprovalState, TypeOK
<1>2. requests' = [requests EXCEPT ![r] = row]
  BY DEF CreateRequest
<1> HIDE DEF row
<1>3. RowsOK' /\ HandlersOK'
  BY <1>1, <1>2, RowSaved, HandlersRest DEF CreateRequest, TypeOK, RowsOK
<1> QED
  BY <1>3 DEF CreateRequest, TypeOK, SweepOK, HistoryOK, history

\* A callback in a handler is complete and about a request that exists, and
\* every row is well formed.
THEOREM TypeCorrect == Spec => []TypeOK
<1>1. Init => TypeOK
  <2>1. NoCallback \in Handler /\ NoCallback.pc = "idle"
    BY DEF NoCallback, Handler
  <2>2. NoSweep \in Sweep /\ NoSweep.phase = "idle"
    BY DEF NoSweep, Sweep
  <2>3. 0 \in 0..MaxTime /\ <<>> \in Seq(Nat)
    BY ApprovalAssumptions
  <2> QED
    BY <2>1, <2>2, <2>3 DEF Init, TypeOK, RowsOK, HandlersOK, SweepOK, HistoryOK
<1>2. TypeOK /\ [Next]_vars => TypeOK'
  <2> SUFFICES ASSUME TypeOK, [Next]_vars PROVE TypeOK'
    OBVIOUS
  <2>1. CASE Tick
    BY <2>1, ApprovalAssumptions
    DEF Tick, TypeOK, RowsOK, HandlersOK, SweepOK, HistoryOK, rows, history
  <2>2. CASE UNCHANGED vars
    BY <2>2 DEF vars, TypeOK, RowsOK, HandlersOK, SweepOK, HistoryOK
  <2> QED
    BY <2>1, <2>2, CallbackTypes, SweepTypes, CreateTypes DEF Next
<1> QED
  BY <1>1, <1>2, PTL DEF Spec

-----------------------------------------------------------------------------
(* Replay protection.  A nonce is taken when a callback burns it: from then  *)
(* on one handler at most has the right to decide with it.                   *)

Deciding(h) == handler[h].pc \in {"read", "write"}

NonceInv ==
  /\ \A g, h \in Handlers :
       Deciding(g) /\ Deciding(h) /\ handler[g].nonce = handler[h].nonce => g = h
  /\ \A h \in Handlers :
       Deciding(h) => handler[h].nonce \in nonces /\ used[handler[h].nonce] = 0
  /\ \A n \in Nonces : used[n] <= 1 /\ (n \notin nonces => used[n] = 0)

\* A handler goes on with callback x and may not decide unless it could before.
LEMMA NobodyDecides ==
  ASSUME NonceInv, UNCHANGED <<nonces, used>>, handler \in [Handlers -> Handler],
         NEW h \in Handlers, NEW x, handler' = [handler EXCEPT ![h] = x],
         x.pc \in {"read", "write"} => Deciding(h) /\ x.nonce = handler[h].nonce
  PROVE  NonceInv'
<1>1. \A g \in Handlers :
        handler'[g].pc \in {"read", "write"} =>
          handler[g].pc \in {"read", "write"} /\ handler'[g].nonce = handler[g].nonce
  BY DEF Deciding
<1> QED
  BY <1>1 DEF NonceInv, Deciding

LEMMA CallbackNonces ==
  ASSUME TypeOK, NonceInv, NEW h \in Handlers, HandlerStep(h)
  PROVE  NonceInv'
<1> USE DEF rows, history
<1>0. handler \in [Handlers -> Handler] /\ handler[h] \in Handler
  BY DEF TypeOK, HandlersOK
<1>1. NoCallback.pc = "idle"
  BY DEF NoCallback
<1>a. ASSUME UNCHANGED <<nonces, used>>, Answer(h) PROVE NonceInv'
  BY <1>0, <1>1, <1>a, NobodyDecides DEF Answer
<1>b. ASSUME UNCHANGED <<nonces, used>>, NEW l \in {"token", "burn"}, Goto(h, l)
      PROVE  NonceInv'
  <2> DEFINE x == [handler[h] EXCEPT !.pc = l]
  <2>1. handler' = [handler EXCEPT ![h] = x] /\ x.pc = l
    BY <1>0, <1>b DEF Goto, Handler
  <2> HIDE DEF x
  <2> QED
    BY <1>0, <1>b, <2>1, NobodyDecides
<1>2. CASE \E r \in Requests, n \in Nonces, d \in Decisions : ReceiveCallback(h, r, n, d)
  <2>1. PICK r \in Requests, n \in Nonces, d \in Decisions : ReceiveCallback(h, r, n, d)
    BY <1>2
  <2> DEFINE x == [NoCallback EXCEPT !.pc = "nonce", !.req = r, !.nonce = n, !.choice = d]
  <2>2. handler' = [handler EXCEPT ![h] = x] /\ x.pc = "nonce"
    BY <2>1 DEF ReceiveCallback, NoCallback
  <2> HIDE DEF x
  <2> QED
    BY <1>0, <2>1, <2>2, NobodyDecides DEF ReceiveCallback
<1>3. CASE CheckNonce(h) \/ VerifyToken(h) \/ CallbackDies(h)
  BY <1>3, <1>a, <1>b DEF CheckNonce, VerifyToken, CallbackDies
<1>4. CASE BurnNonce(h)
  <2>1. CASE handler[h].nonce \in nonces /\ Answer(h)
    <3>1. nonces' = nonces /\ used' = used
      BY <1>4, <2>1 DEF BurnNonce
    <3> QED
      BY <1>a, <2>1, <3>1
  <2>2. CASE handler[h].nonce \notin nonces /\ Goto(h, "read")
    <3> DEFINE n == handler[h].nonce
    <3>1. /\ handler'[h].nonce = n /\ handler'[h].pc = "read"
          /\ \A g \in Handlers \ {h} : handler'[g] = handler[g]
      BY <1>0, <2>2 DEF Goto, Handler
    <3>2. n \in Nonces /\ nonces' = nonces \cup {n} /\ used' = used
      BY <1>4 DEF BurnNonce, TypeOK, HandlersOK
    <3>3. \A g \in Handlers \ {h} : handler'[g].pc \in {"read", "write"} => handler[g].nonce # n
      BY <2>2, <3>1 DEF NonceInv, Deciding
    <3> QED
      BY <2>2, <3>1, <3>2, <3>3 DEF NonceInv, Deciding
  <2> QED
    BY <1>4, <2>1, <2>2 DEF BurnNonce
<1>5. CASE ReadRequest(h)
  <2> DEFINE x == [handler[h] EXCEPT !.pc = "write", !.row = requests[handler[h].req]]
  <2>1. CASE Answer(h)
    BY <1>5, <1>a, <2>1 DEF ReadRequest
  <2>2. CASE handler' = [handler EXCEPT ![h] = x]
    <3>1. Deciding(h) /\ x.nonce = handler[h].nonce
      BY <1>0, <1>5 DEF ReadRequest, Deciding, Handler
    <3> HIDE DEF x
    <3> QED
      BY <1>0, <1>5, <2>2, <3>1, NobodyDecides DEF ReadRequest
  <2>3. handler' = [handler EXCEPT ![h].pc = "write", ![h].row = requests[handler[h].req]]
          => handler' = [handler EXCEPT ![h] = x]
    BY <1>0
  <2> QED
    BY <1>5, <2>1, <2>2, <2>3 DEF ReadRequest
<1>6. CASE SaveDecision(h)
  <2> DEFINE n == handler[h].nonce
  <2>1. n \in Nonces /\ n \in nonces /\ used[n] = 0 /\ used' = [used EXCEPT ![n] = 1]
    <3>1. n \in Nonces /\ n \in nonces /\ used[n] = 0
      BY <1>6 DEF SaveDecision, TypeOK, HandlersOK, NonceInv, Deciding
    <3>2. used' = [used EXCEPT ![n] = used[n] + 1]
      BY <1>6 DEF SaveDecision
    <3> QED
      BY <3>1, <3>2
  <2>2. /\ handler'[h].pc = "idle"
        /\ \A g \in Handlers \ {h} : handler'[g] = handler[g]
    BY <1>0, <1>1, <1>6 DEF SaveDecision, Answer
  <2>3. \A g \in Handlers \ {h} : Deciding(g) => handler[g].nonce # n
    BY <1>6 DEF SaveDecision, NonceInv, Deciding
  <2>4. nonces' = nonces /\ used \in [Nonces -> Nat]
    BY <1>6 DEF SaveDecision, TypeOK, HistoryOK
  <2>5. \A g \in Handlers : Deciding(g) => handler[g].nonce \in Nonces
    BY DEF TypeOK, HandlersOK, Deciding
  <2> HIDE DEF n
  <2> QED
    BY <2>1, <2>2, <2>3, <2>4, <2>5 DEF NonceInv, Deciding
<1> QED
  BY <1>2, <1>3, <1>4, <1>5, <1>6 DEF HandlerStep

\* callbacks.py, handle_token_callback, "Replay protection": a nonce applies at
\* most one decision, however many request threads receive it at once.
THEOREM NoncesDecideOnce == Spec => []NonceDecidesOnce
<1>1. Init => NonceInv
  BY DEF Init, NonceInv, Deciding, NoCallback
<1>2. TypeOK /\ NonceInv /\ [Next]_vars => NonceInv'
  <2> SUFFICES ASSUME TypeOK, NonceInv, [Next]_vars PROVE NonceInv'
    OBVIOUS
  <2>1. ASSUME UNCHANGED <<handler, nonces, used>> PROVE NonceInv'
    BY <2>1 DEF NonceInv, Deciding
  <2>2. CASE SweepStep
    BY <2>1, <2>2
    DEF SweepStep, BeginSweep, Expire, Escalate, Remind, EndSweep, Inspect, rows, history
  <2>3. CASE Tick \/ (\E r \in Requests : CreateRequest(r)) \/ UNCHANGED vars
    BY <2>1, <2>3 DEF Tick, CreateRequest, vars, rows, history
  <2> QED
    BY <2>2, <2>3, CallbackNonces DEF Next
<1>3. NonceInv => NonceDecidesOnce
  BY DEF NonceInv, NonceDecidesOnce
<1> QED
  BY <1>1, <1>2, <1>3, TypeCorrect, PTL DEF Spec

-----------------------------------------------------------------------------
(* Status and decision.  The pass only ever works on copies of PENDING rows. *)

Agrees(row) == row.decision = IF row.status \in Decisions THEN row.status ELSE None
Open(row) == row.status = "PENDING" /\ row.decision = None

CopyInv ==
  /\ \A r \in Requests : requests[r] # None => Agrees(requests[r])
  /\ \A x \in sweep.todo : Open(x[2])
  /\ sweep.phase \in {"expire", "escalate"} => Open(sweep.item[2])

\* approval_service.py: a row is written as a whole from one copy, so its status
\* and its decision agree whatever decisions, expiries and escalations race.
THEOREM StatusIsDecision == Spec => []StatusMatchesDecision
<1>1. Init => CopyInv
  BY DEF Init, CopyInv, NoSweep
<1>2. TypeOK /\ CopyInv /\ [Next]_vars => CopyInv'
  <2> SUFFICES ASSUME TypeOK, CopyInv, [Next]_vars PROVE CopyInv'
    OBVIOUS
  <2> USE DEF rows, history
  <2>1. ASSUME NEW h \in Handlers, HandlerStep(h) PROVE CopyInv'
    <3>1. CASE SaveDecision(h)
      <4> DEFINE row == [handler[h].row EXCEPT !.status = handler[h].choice,
                                               !.decision = handler[h].choice]
      <4>1. handler[h].row \in Row /\ handler[h].choice \in Decisions
        BY <3>1 DEF SaveDecision, TypeOK, HandlersOK
      <4>2. Agrees(row)
        BY <4>1 DEF Agrees, Row
      <4>3. requests' = [requests EXCEPT ![handler[h].req] = row] /\ sweep' = sweep
        BY <3>1 DEF SaveDecision
      <4> HIDE DEF row
      <4> QED
        BY <4>2, <4>3 DEF CopyInv, Agrees, Open, TypeOK, RowsOK
    <3>2. CASE UNCHANGED <<requests, sweep>>
      BY <3>2 DEF CopyInv, Agrees, Open
    <3> QED
      BY <2>1, <3>1, <3>2
      DEF HandlerStep, ReceiveCallback, CheckNonce, VerifyToken, BurnNonce, ReadRequest, CallbackDies
  <2>2. CASE BeginSweep
    <3>1. \A r \in Requests : requests[r] # None /\ requests[r].status = "PENDING" =>
            Open(requests[r])
      BY DEF CopyInv, Agrees, Open, Decisions
    <3>2. /\ sweep'.phase = "scan" /\ requests' = requests
          /\ sweep'.todo = {<<r, requests[r]>> : r \in {q \in Requests :
               requests[q] # None /\ requests[q].status = "PENDING"}}
      BY <2>2 DEF BeginSweep, NoSweep
    <3> QED
      BY <3>1, <3>2 DEF CopyInv, Agrees, Open
  <2>3. CASE \E x \in sweep.todo : Inspect(x)
    <3>1. PICK x \in sweep.todo : Inspect(x)
      BY <2>3
    <3>2. sweep'.item = x /\ sweep'.todo \subseteq sweep.todo /\ requests' = requests
      BY <3>1 DEF Inspect
    <3> QED
      BY <3>1, <3>2 DEF CopyInv, Agrees, Open
  <2>4. CASE Expire
    <3> DEFINE row == [sweep.item[2] EXCEPT !.status = "EXPIRED"]
    <3>1. sweep.item[2] \in Row /\ Open(sweep.item[2])
      BY <2>4, ItemTypes DEF Expire, CopyInv
    <3>2. Agrees(row)
      BY <3>1 DEF Agrees, Open, Row, Decisions
    <3>3. /\ requests' = [requests EXCEPT ![sweep.item[1]] = row]
          /\ sweep'.phase = "scan" /\ sweep'.todo = sweep.todo
      BY <2>4 DEF Expire, TypeOK, SweepOK, Sweep
    <3> HIDE DEF row
    <3> QED
      BY <3>2, <3>3 DEF CopyInv, Agrees, Open, TypeOK, RowsOK
  <2>5. CASE Escalate
    <3> DEFINE row == [sweep.item[2] EXCEPT !.level = @ + 1]
    <3>1. sweep.item[2] \in Row /\ Open(sweep.item[2])
      BY <2>5, ItemTypes DEF Escalate, CopyInv
    <3>2. Agrees(row)
      BY <3>1 DEF Agrees, Open, Row, Decisions
    <3>3. /\ requests' = [requests EXCEPT ![sweep.item[1]] = row]
          /\ sweep'.phase = "scan" /\ sweep'.todo = sweep.todo
      BY <2>5 DEF Escalate, TypeOK, SweepOK, Sweep
    <3> HIDE DEF row
    <3> QED
      BY <3>2, <3>3 DEF CopyInv, Agrees, Open, TypeOK, RowsOK
  <2>6. CASE Remind
    <3>1. requests' = requests /\ sweep'.phase = "scan" /\ sweep'.todo = sweep.todo
      BY <2>6 DEF Remind, TypeOK, SweepOK, Sweep
    <3> QED
      BY <3>1 DEF CopyInv, Agrees, Open
  <2>7. CASE EndSweep
    BY <2>7 DEF EndSweep, NoSweep, CopyInv, Agrees, Open
  <2>8. CASE \E r \in Requests : CreateRequest(r)
    <3>1. PICK r \in Requests : CreateRequest(r)
      BY <2>8
    <3> DEFINE row == [status |-> "PENDING", level |-> 1, decision |-> None, created |-> now]
    <3>2. Agrees(row)
      BY DEF Agrees, Decisions
    <3>3. requests' = [requests EXCEPT ![r] = row] /\ sweep' = sweep
      BY <3>1 DEF CreateRequest
    <3> HIDE DEF row
    <3> QED
      BY <3>2, <3>3 DEF CopyInv, Agrees, Open, TypeOK, RowsOK
  <2>9. CASE Tick \/ UNCHANGED vars
    BY <2>9 DEF Tick, vars, CopyInv, Agrees, Open
  <2> QED
    BY <2>1, <2>2, <2>3, <2>4, <2>5, <2>6, <2>7, <2>8, <2>9 DEF Next, SweepStep
<1>3. CopyInv => StatusMatchesDecision
  BY DEF CopyInv, StatusMatchesDecision, Agrees
<1> QED
  BY <1>1, <1>2, <1>3, TypeCorrect, PTL DEF Spec

-----------------------------------------------------------------------------
(* Levels.  Every copy of a row, wherever it is held, has the creation time  *)
(* of the row it was read from, and a level whose turn has come.             *)

Waited(row) ==
  /\ row.level > 0
  /\ row.level > 1 => /\ row.level - 1 \in DOMAIN Timeouts
                      /\ row.created + Timeouts[row.level - 1] <= now

Genuine(r, row) == requests[r] # None /\ row.created = requests[r].created /\ Waited(row)

LevelInv ==
  /\ \A r \in Requests : requests[r] # None => Waited(requests[r])
  /\ \A h \in Handlers : handler[h].pc = "write" => Genuine(handler[h].req, handler[h].row)
  /\ \A x \in sweep.todo : Genuine(x[1], x[2])
  /\ sweep.phase \in {"expire", "escalate", "remind"} =>
       Genuine(sweep.item[1], sweep.item[2]) /\ sweep.at <= now
  /\ sweep.phase = "escalate" => Escalates(sweep.item[2], sweep.at)

\* A row is saved under its creation time: rows and copies stay genuine.
LEMMA SaveGenuine ==
  ASSUME TypeOK, LevelInv, NEW r \in Requests, NEW row \in Row, Waited(row), now' = now,
         requests' = [requests EXCEPT ![r] = row],
         requests[r] # None => row.created = requests[r].created
  PROVE  /\ \A q \in Requests : requests'[q] # None => Waited(requests[q])'
         /\ \A q \in Requests, c \in Row : Genuine(q, c) => Genuine(q, c)'
<1>1. requests \in [Requests -> Row \cup {None}] /\ row # None
  BY ApprovalAssumptions DEF TypeOK, RowsOK
<1>2. \A c : Waited(c) => Waited(c)'
  BY DEF Waited
<1>3. ASSUME NEW q \in Requests, requests'[q] # None PROVE Waited(requests[q])'
  BY <1>1, <1>3 DEF LevelInv, Waited
<1>4. ASSUME NEW q \in Requests, NEW c \in Row, Genuine(q, c) PROVE Genuine(q, c)'
  BY <1>1, <1>2, <1>4 DEF Genuine
<1> QED
  BY <1>3, <1>4

\* Nothing is saved: what was genuine is.
LEMMA RestGenuine ==
  ASSUME TypeOK, LevelInv, requests' = requests, now' \in Nat, now <= now'
  PROVE  /\ \A q \in Requests : requests'[q] # None => Waited(requests[q])'
         /\ \A q \in Requests, c \in Row : Genuine(q, c) => Genuine(q, c)'
<1>1. now \in Nat
  BY ApprovalAssumptions DEF TypeOK
<1>2. ASSUME NEW c \in Row, Waited(c) PROVE Waited(c)'
  <2>1. c.level \in Nat /\ c.created \in Nat
    BY DEF Row
  <2>2. c.level > 1 => Timeouts[c.level - 1] \in Nat
    BY <1>2, ApprovalAssumptions DEF Waited
  <2> QED
    BY <1>1, <1>2, <2>1, <2>2 DEF Waited
<1>3. \A q \in Requests : requests[q] # None => requests[q] \in Row
  BY DEF TypeOK, RowsOK
<1> QED
  BY <1>2, <1>3 DEF LevelInv, Genuine

\* No callback and no pass takes another copy.
LEMMA CopiesRest ==
  ASSUME TypeOK, LevelInv, UNCHANGED <<handler, sweep>>, now' \in Nat, now <= now',
         \A q \in Requests : requests'[q] # None => Waited(requests[q])',
         \A q \in Requests, c \in Row : Genuine(q, c) => Genuine(q, c)'
  PROVE  LevelInv'
<1>1. \A h \in Handlers : handler[h].pc = "write" => handler[h].req \in Requests /\ handler[h].row \in Row
  BY DEF TypeOK, HandlersOK
<1>2. \A x \in sweep.todo : x[1] \in Requests /\ x[2] \in Row
  BY DEF TypeOK, SweepOK, Sweep
<1>3. sweep.phase \in {"expire", "escalate", "remind"} =>
        sweep.item[1] \in Requests /\ sweep.item[2] \in Row
  BY ItemTypes
<1>4. sweep.at \in Nat /\ now \in Nat
  BY ApprovalAssumptions DEF TypeOK, SweepOK, Sweep
<1>5. /\ \A h \in Handlers : handler'[h].pc = "write" => Genuine(handler[h].req, handler[h].row)'
      /\ \A x \in sweep'.todo : Genuine(x[1], x[2])'
  BY <1>1, <1>2 DEF LevelInv
<1>6. /\ sweep'.phase \in {"expire", "escalate", "remind"} =>
           Genuine(sweep.item[1], sweep.item[2])' /\ sweep'.at <= now'
      /\ sweep'.phase = "escalate" => Escalates(sweep.item[2], sweep.at)'
  BY <1>3, <1>4 DEF LevelInv, Escalates
<1> QED
  BY <1>5, <1>6 DEF LevelInv

\* Only ReadRequest makes a handler a writer.
LEMMA WritersRest ==
  ASSUME TypeOK, NEW h \in Handlers,
         \/ \E r \in Requests, n \in Nonces, d \in Decisions : ReceiveCallback(h, r, n, d)
         \/ CheckNonce(h) \/ VerifyToken(h) \/ BurnNonce(h) \/ CallbackDies(h)
  PROVE  \A g \in Handlers : handler'[g].pc = "write" => handler'[g] = handler[g]
<1>1. handler \in [Handlers -> Handler] /\ handler[h] \in Handler
  BY DEF TypeOK, HandlersOK
<1>2. ASSUME NEW x, handler' = [handler EXCEPT ![h] = x], x.pc # "write"
      PROVE  \A g \in Handlers : handler'[g].pc = "write" => handler'[g] = handler[g]
  BY <1>1, <1>2
<1>3. CASE \E r \in Requests, n \in Nonces, d \in Decisions : ReceiveCallback(h, r, n, d)
  <2>1. PICK r \in Requests, n \in Nonces, d \in Decisions : ReceiveCallback(h, r, n, d)
    BY <1>3
  <2> DEFINE x == [NoCallback EXCEPT !.pc = "nonce", !.req = r, !.nonce = n, !.choice = d]
  <2>2. handler' = [handler EXCEPT ![h] = x] /\ x.pc = "nonce"
    BY <2>1 DEF ReceiveCallback, NoCallback
  <2> HIDE DEF x
  <2> QED
    BY <1>2, <2>2
<1>4. ASSUME Answer(h) PROVE \A g \in Handlers : handler'[g].pc = "write" => handler'[g] = handler[g]
  BY <1>1, <1>4 DEF Answer, NoCallback
<1>5. ASSUME NEW l \in {"token", "burn", "read"}, Goto(h, l)
      PROVE  \A g \in Handlers : handler'[g].pc = "write" => handler'[g] = handler[g]
  BY <1>1, <1>5 DEF Goto, Handler
<1>6. CASE CheckNonce(h) \/ VerifyToken(h) \/ BurnNonce(h) \/ CallbackDies(h)
  BY <1>4, <1>5, <1>6 DEF CheckNonce, VerifyToken, BurnNonce, CallbackDies
<1> QED
  BY <1>3, <1>6

\* A callback handler: the copy it reads is the row, the row it saves its copy.
LEMMA CallbackLevels ==
  ASSUME TypeOK, LevelInv, NEW h \in Handlers, HandlerStep(h)
  PROVE  LevelInv'
<1> USE DEF rows, history
<1>0. now' = now /\ sweep' = sweep
  BY DEF HandlerStep, ReceiveCallback, CheckNonce, VerifyToken, BurnNonce, ReadRequest,
         SaveDecision, CallbackDies
<1>1. now' = now /\ now \in Nat /\ sweep' = sweep
  BY <1>0, ApprovalAssumptions DEF TypeOK
<1>2. /\ \A x \in sweep.todo : x[1] \in Requests /\ x[2] \in Row
      /\ sweep.phase \in {"expire", "escalate", "remind"} =>
           sweep.item[1] \in Requests /\ sweep.item[2] \in Row
  BY ItemTypes DEF TypeOK, SweepOK, Sweep
<1>3. ASSUME \A q \in Requests : requests'[q] # None => Waited(requests[q])',
             \A q \in Requests, c \in Row : Genuine(q, c) => Genuine(q, c)',
             \A g \in Handlers : handler'[g].pc = "write" => Genuine(handler[g].req, handler[g].row)'
      PROVE  LevelInv'
  <2>1. \A x \in sweep'.todo : Genuine(x[1], x[2])'
    BY <1>1, <1>2, <1>3 DEF LevelInv
  <2>2. /\ sweep'.phase \in {"expire", "escalate", "remind"} =>
             Genuine(sweep.item[1], sweep.item[2])' /\ sweep'.at <= now'
        /\ sweep'.phase = "escalate" => Escalates(sweep.item[2], sweep.at)'
    BY <1>1, <1>2, <1>3 DEF LevelInv, Escalates
  <2> QED
    BY <1>3, <2>1, <2>2 DEF LevelInv
<1>4. \A g \in Handlers : handler[g].pc = "write" =>
        handler[g].req \in Requests /\ handler[g].row \in Row /\ Genuine(handler[g].req, handler[g].row)
  BY DEF TypeOK, HandlersOK, LevelInv
<1>5. handler \in [Handlers -> Handler]
  BY DEF TypeOK, HandlersOK
<1>6. ASSUME requests' = requests,
             \A g \in Handlers : handler'[g].pc = "write" =>
                handler'[g] = handler[g] \/ Genuine(handler'[g].req, handler'[g].row)
      PROVE  LevelInv'
  <2>1. /\ \A q \in Requests : requests'[q] # None => Waited(requests[q])'
        /\ \A q \in Requests, c \in Row : Genuine(q, c) => Genuine(q, c)'
    BY <1>1, <1>6, RestGenuine
  <2>2. \A g \in Handlers : handler'[g].pc = "write" => Genuine(handler[g].req, handler[g].row)'
    BY <1>1, <1>4, <1>6 DEF Genuine, Waited
  <2> QED
    BY <1>3, <2>1, <2>2
<1>7. CASE SaveDecision(h)
  <2> DEFINE r == handler[h].req
             row == [handler[h].row EXCEPT !.status = handler[h].choice,
                                           !.decision = handler[h].choice]
  <2>1. /\ r \in Requests /\ requests[r] # None /\ handler[h].row \in Row /\ handler[h].choice \in Decisions
        /\ Genuine(r, handler[h].row)
    BY <1>4, <1>7 DEF SaveDecision, TypeOK, HandlersOK
  <2>2. row \in Row /\ row.level = handler[h].row.level /\ row.created = handler[h].row.created
    BY <2>1 DEF Row, ApprovalState
  <2>3. requests' = [requests EXCEPT ![r] = row]
    BY <1>7 DEF SaveDecision
  <2>4. \A g \in Handlers : handler'[g].pc = "write" => handler'[g] = handler[g]
    BY <1>5, <1>7 DEF SaveDecision, Answer, NoCallback
  <2> HIDE DEF row, r
  <2>5. Waited(row) /\ row.created = requests[r].created
    BY <2>1, <2>2 DEF Genuine, Waited
  <2>6. /\ \A q \in Requests : requests'[q] # None => Waited(requests[q])'
        /\ \A q \in Requests, c \in Row : Genuine(q, c) => Genuine(q, c)'
    BY <1>1, <2>1, <2>2, <2>3, <2>5, SaveGenuine
  <2>7. \A g \in Handlers : handler'[g].pc = "write" => Genuine(handler[g].req, handler[g].row)'
    BY <1>4, <2>4, <2>6
  <2> QED
    BY <1>3, <2>6, <2>7
<1>8. CASE ReadRequest(h)
  <2>1. handler[h].req \in Requests /\ requests[handler[h].req] # None
    BY <1>8 DEF ReadRequest, TypeOK, HandlersOK
  <2>2. Genuine(handler[h].req, requests[handler[h].req])
    BY <2>1 DEF Genuine, LevelInv
  <2>3. handler[h] \in Handler
    BY <1>5
  <2>4. \A g \in Handlers : handler'[g].pc = "write" =>
          handler'[g] = handler[g] \/ Genuine(handler'[g].req, handler'[g].row)
    BY <1>5, <1>8, <2>2, <2>3 DEF ReadRequest, Answer, NoCallback, Handler
  <2> QED
    BY <1>6, <1>8, <2>4 DEF ReadRequest
<1>9. CASE \/ \E r \in Requests, n \in Nonces, d \in Decisions : ReceiveCallback(h, r, n, d)
           \/ CheckNonce(h) \/ VerifyToken(h) \/ BurnNonce(h) \/ CallbackDies(h)
  <2>1. requests' = requests
    BY <1>9 DEF ReceiveCallback, CheckNonce, VerifyToken, BurnNonce, CallbackDies
  <2>2. \A g \in Handlers : handler'[g].pc = "write" => handler'[g] = handler[g]
    BY <1>9, WritersRest
  <2> QED
    BY <1>6, <2>1, <2>2
<1> QED
  BY <1>7, <1>8, <1>9, Zenon DEF HandlerStep

\* The pass: it lists rows, and saves what it listed under its creation time.
LEMMA SweepLevels ==
  ASSUME TypeOK, LevelInv, SweepStep
  PROVE  LevelInv'
<1> USE DEF rows, history
<1>1. now' = now /\ now \in Nat /\ handler' = handler
  BY ApprovalAssumptions
  DEF TypeOK, SweepStep, BeginSweep, Inspect, Expire, Escalate, Remind, EndSweep
<1>2. \A h \in Handlers : handler[h].pc = "write" => handler[h].req \in Requests /\ handler[h].row \in Row
  BY DEF TypeOK, HandlersOK
<1>3. \A x \in sweep.todo : x[1] \in Requests /\ x[2] \in Row
  BY DEF TypeOK, SweepOK, Sweep
<1>4. ASSUME \A q \in Requests : requests'[q] # None => Waited(requests[q])',
             \A q \in Requests, c \in Row : Genuine(q, c) => Genuine(q, c)',
             \A x \in sweep'.todo : Genuine(x[1], x[2])',
             sweep'.phase \in {"expire", "escalate", "remind"} =>
               Genuine(sweep.item[1], sweep.item[2])' /\ sweep'.at <= now',
             sweep'.phase = "escalate" => Escalates(sweep.item[2], sweep.at)'
      PROVE  LevelInv'
  BY <1>1, <1>2, <1>4 DEF LevelInv
<1>5. ASSUME requests' = requests
      PROVE  /\ \A q \in Requests : requests'[q] # None => Waited(requests[q])'
             /\ \A q \in Requests, c \in Row : Genuine(q, c) => Genuine(q, c)'
  BY <1>1, <1>5, RestGenuine
<1>6. ASSUME NEW row \in Row, Waited(row), NEW r \in Requests, requests[r] # None,
             row.created = requests[r].created, requests' = [requests EXCEPT ![r] = row],
             sweep'.phase = "scan", sweep'.todo = sweep.todo
      PROVE  LevelInv'
  <2>1. /\ \A q \in Requests : requests'[q] # None => Waited(requests[q])'
        /\ \A q \in Requests, c \in Row : Genuine(q, c) => Genuine(q, c)'
    BY <1>1, <1>6, SaveGenuine
  <2>2. \A x \in sweep'.todo : Genuine(x[1], x[2])'
    BY <1>3, <1>6, <2>1 DEF LevelInv
  <2> QED
    BY <1>4, <1>6, <2>1, <2>2
<1>7. CASE BeginSweep
  <2>1. /\ sweep'.phase = "scan" /\ requests' = requests
        /\ sweep'.todo = {<<r, requests[r]>> : r \in {q \in Requests :
             requests[q] # None /\ requests[q].status = "PENDING"}}
    BY <1>7 DEF BeginSweep, NoSweep
  <2>2. \A x \in sweep'.todo : x[1] \in Requests /\ x[2] \in Row /\ Genuine(x[1], x[2])
    BY <2>1 DEF Genuine, LevelInv, TypeOK, RowsOK
  <2>3. \A x \in sweep'.todo : Genuine(x[1], x[2])'
    BY <1>5, <2>1, <2>2
  <2> QED
    BY <1>4, <1>5, <2>1, <2>3
<1>8. CASE \E x \in sweep.todo : Inspect(x)
  <2>1. PICK x \in sweep.todo : Inspect(x)
    BY <1>8
  <2>2. /\ sweep' = [phase |-> Task(x[1], x[2], now), todo |-> sweep.todo \ {x}, item |-> x, at |-> now]
        /\ requests' = requests
    BY <2>1 DEF Inspect
  <2>3. sweep'.phase = Task(x[1], x[2], now) /\ sweep'.todo \subseteq sweep.todo
        /\ sweep'.item = x /\ sweep'.at = now
    BY <2>2
  <2>4. Genuine(x[1], x[2])' /\ \A y \in sweep'.todo : Genuine(y[1], y[2])'
    BY <1>3, <1>5, <2>2, <2>3 DEF LevelInv
  <2>5. Task(x[1], x[2], now) = "escalate" => Escalates(x[2], now)
    BY DEF Task
  <2>6. sweep'.phase = "escalate" => Escalates(sweep.item[2], sweep.at)'
    BY <2>3, <2>5 DEF Escalates
  <2>7. Genuine(sweep.item[1], sweep.item[2])' /\ sweep'.at <= now'
    BY <1>1, <2>3, <2>4 DEF Genuine, Waited
  <2> QED
    BY <1>4, <1>5, <2>2, <2>4, <2>6, <2>7
<1>9. CASE Expire
  <2> DEFINE row == [sweep.item[2] EXCEPT !.status = "EXPIRED"]
             r == sweep.item[1]
  <2>1. /\ r \in Requests /\ sweep.item[2] \in Row
        /\ requests' = [requests EXCEPT ![r] = row]
        /\ Genuine(r, sweep.item[2])
    BY <1>9, ItemTypes DEF Expire, LevelInv
  <2>2. row \in Row /\ row.created = sweep.item[2].created /\ row.level = sweep.item[2].level
    BY <2>1 DEF Row, ApprovalState
  <2>3. sweep'.phase = "scan" /\ sweep'.todo = sweep.todo
    BY <1>9 DEF Expire, TypeOK, SweepOK, Sweep
  <2> HIDE DEF row, r
  <2> QED
    BY <1>6, <2>1, <2>2, <2>3 DEF Genuine, Waited
<1>10. CASE Escalate
  <2> DEFINE row == [sweep.item[2] EXCEPT !.level = @ + 1]
             r == sweep.item[1]
             item == sweep.item[2]
  <2>1. /\ r \in Requests /\ item \in Row
        /\ requests' = [requests EXCEPT ![r] = row]
        /\ Genuine(r, item) /\ sweep.at <= now /\ Escalates(item, sweep.at)
    BY <1>10, ItemTypes DEF Escalate, LevelInv
  <2>2. item.level \in Nat /\ item.created \in Nat /\ item.level + 1 \in Nat /\ sweep.at \in Nat
    BY <2>1 DEF Row, TypeOK, SweepOK, Sweep
  <2>3. row \in Row /\ row.created = item.created /\ row.level = item.level + 1
    BY <2>1, <2>2 DEF Row, ApprovalState
  <2>4. sweep'.phase = "scan" /\ sweep'.todo = sweep.todo
    BY <1>10 DEF Escalate, TypeOK, SweepOK, Sweep
  <2> HIDE DEF row, r, item
  <2>5. item.level \in DOMAIN Timeouts /\ Timeouts[item.level] \in Nat
    BY <2>1, <2>2, ApprovalAssumptions DEF Genuine, Waited, Escalates
  <2>6. item.created + Timeouts[item.level] <= now
    BY <1>1, <2>1, <2>2, <2>5 DEF Escalates
  <2>7. Waited(row)
    BY <2>2, <2>3, <2>5, <2>6 DEF Waited
  <2> QED
    BY <1>6, <2>1, <2>3, <2>4, <2>7 DEF Genuine
<1>11. CASE Remind
  <2>1. requests' = requests /\ sweep'.phase = "scan" /\ sweep'.todo = sweep.todo
    BY <1>11 DEF Remind, TypeOK, SweepOK, Sweep
  <2> QED
    BY <1>3, <1>4, <1>5, <2>1 DEF LevelInv
<1>12. CASE EndSweep
  <2>1. requests' = requests /\ sweep'.phase = "idle" /\ sweep'.todo = {}
    BY <1>12 DEF EndSweep, NoSweep
  <2> QED
    BY <1>4, <1>5, <2>1
<1> QED
  BY <1>7, <1>8, <1>9, <1>10, <1>11, <1>12 DEF SweepStep

LEMMA LevelInvariant == Spec => []LevelInv
<1>1. Init => LevelInv
  BY DEF Init, LevelInv, NoSweep, NoCallback
<1>2. TypeOK /\ LevelInv /\ [Next]_vars => LevelInv'
  <2> SUFFICES ASSUME TypeOK, LevelInv, [Next]_vars PROVE LevelInv'
    OBVIOUS
  <2> USE DEF rows, history
  <2>1. CASE \E r \in Requests : CreateRequest(r)
    <3>1. PICK r \in Requests : CreateRequest(r)
      BY <2>1
    <3> DEFINE row == [status |-> "PENDING", level |-> 1, decision |-> None, created |-> now]
    <3>2. row \in Row /\ row.level = 1 /\ now \in Nat
      BY ApprovalAssumptions DEF Row, ApprovalState, TypeOK
    <3>3. /\ requests[r] = None /\ requests' = [requests EXCEPT ![r] = row]
          /\ now' = now /\ handler' = handler /\ sweep' = sweep
      BY <3>1 DEF CreateRequest
    <3> HIDE DEF row
    <3>4. Waited(row)
      BY <3>2 DEF Waited
    <3>5. /\ \A q \in Requests : requests'[q] # None => Waited(requests[q])'
          /\ \A q \in Requests, c \in Row : Genuine(q, c) => Genuine(q, c)'
      BY <3>2, <3>3, <3>4, SaveGenuine
    <3> QED
      BY <3>2, <3>3, <3>5, CopiesRest
  <2>2. CASE Tick \/ UNCHANGED vars
    <3>1. UNCHANGED <<requests, handler, sweep>> /\ now' \in Nat /\ now <= now'
      BY <2>2, ApprovalAssumptions DEF Tick, vars, TypeOK
    <3> QED
      BY <3>1, RestGenuine, CopiesRest
  <2> QED
    BY <2>1, <2>2, CallbackLevels, SweepLevels DEF Next
<1> QED
  BY <1>1, <1>2, TypeCorrect, PTL DEF Spec

\* escalation.py: no level takes over before the time of the level before it is
\* over, whichever copy of the request the pass, a callback or a new pass saves.
THEOREM EscalationsWait == Spec => []EscalationWaits
<1>1. LevelInv => EscalationWaits
  BY DEF LevelInv, Waited, EscalationWaits
<1> QED
  BY <1>1, LevelInvariant, PTL

-----------------------------------------------------------------------------
(* Reminders.  The pass is the only writer, so what it saw when it took a    *)
(* row still holds when it sends the reminder.                               *)

Last(r) == reminders[r][Len(reminders[r])]

ReminderInv ==
  /\ sweep.phase = "remind" =>
       ~Expired(sweep.item[2], sweep.at) /\ Reminds(sweep.item[1], sweep.item[2], sweep.at)
  /\ \A r \in Requests : reminders[r] # <<>> =>
       /\ requests[r] # None
       /\ requests[r].created + Len(reminders[r]) * ReminderInterval <= Last(r)
       /\ Last(r) <= requests[r].created + Lifetime

\* A request keeps its row and its creation time.
LEMMA CreatedStays ==
  ASSUME TypeOK, LevelInv, [Next]_vars, NEW r \in Requests, requests[r] # None
  PROVE  requests'[r] # None /\ requests'[r].created = requests[r].created
<1> USE DEF rows, history
<1>1. ASSUME NEW q \in Requests, NEW row \in Row, requests' = [requests EXCEPT ![q] = row],
             requests[q] # None => row.created = requests[q].created
      PROVE  requests'[r] # None /\ requests'[r].created = requests[r].created
  BY <1>1, ApprovalAssumptions DEF TypeOK, RowsOK
<1>2. CASE \E h \in Handlers : SaveDecision(h)
  <2>1. PICK h \in Handlers : SaveDecision(h)
    BY <1>2
  <2> DEFINE row == [handler[h].row EXCEPT !.status = handler[h].choice,
                                           !.decision = handler[h].choice]
  <2>2. /\ handler[h].req \in Requests /\ handler[h].row \in Row /\ handler[h].choice \in Decisions
        /\ handler[h].row.created = requests[handler[h].req].created
        /\ requests' = [requests EXCEPT ![handler[h].req] = row]
    BY <2>1 DEF SaveDecision, TypeOK, HandlersOK, LevelInv, Genuine
  <2>3. row \in Row /\ row.created = handler[h].row.created
    BY <2>2 DEF Row, ApprovalState
  <2> HIDE DEF row
  <2> QED
    BY <1>1, <2>2, <2>3
<1>3. CASE Expire
  <2> DEFINE row == [sweep.item[2] EXCEPT !.status = "EXPIRED"]
  <2>1. /\ sweep.item[1] \in Requests /\ sweep.item[2] \in Row
        /\ sweep.item[2].created = requests[sweep.item[1]].created
        /\ requests' = [requests EXCEPT ![sweep.item[1]] = row]
    BY <1>3, ItemTypes DEF Expire, LevelInv, Genuine
  <2>2. row \in Row /\ row.created = sweep.item[2].created
    BY <2>1 DEF Row, ApprovalState
  <2> HIDE DEF row
  <2> QED
    BY <1>1, <2>1, <2>2
<1>4. CASE Escalate
  <2> DEFINE row == [sweep.item[2] EXCEPT !.level = @ + 1]
  <2>1. /\ sweep.item[1] \in Requests /\ sweep.item[2] \in Row
        /\ sweep.item[2].created = requests[sweep.item[1]].created
        /\ requests' = [requests EXCEPT ![sweep.item[1]] = row]
    BY <1>4, ItemTypes DEF Escalate, LevelInv, Genuine
  <2>2. sweep.item[2].level + 1 \in Nat
    BY <2>1 DEF Row
  <2>3. row \in Row /\ row.created = sweep.item[2].created
    BY <2>1, <2>2 DEF Row, ApprovalState
  <2> HIDE DEF row
  <2> QED
    BY <1>1, <2>1, <2>3
<1>5. CASE \E q \in Requests : CreateRequest(q)
  BY <1>5 DEF CreateRequest, TypeOK, RowsOK
<1>6. CASE UNCHANGED requests
  BY <1>6
<1>7. ASSUME NEW h \in Handlers, HandlerStep(h) PROVE SaveDecision(h) \/ UNCHANGED requests
  BY <1>7 DEF HandlerStep, ReceiveCallback, CheckNonce, VerifyToken, BurnNonce, ReadRequest, CallbackDies
<1>8. CASE SweepStep
  BY <1>3, <1>4, <1>6, <1>8 DEF SweepStep, BeginSweep, Inspect, Remind, EndSweep
<1>9. CASE Tick \/ UNCHANGED vars
  BY <1>6, <1>9 DEF Tick, vars
<1> QED
  BY <1>2, <1>5, <1>6, <1>7, <1>8, <1>9 DEF Next

\* Who touches neither reminders nor the pass preserves ReminderInv.
LEMMA RemindersRest ==
  ASSUME TypeOK, LevelInv, ReminderInv, [Next]_vars, reminders' = reminders,
         sweep'.phase = "remind" => sweep' = sweep
  PROVE  ReminderInv'
<1>1. \A r \in Requests : requests[r] # None =>
        requests'[r] # None /\ requests'[r].created = requests[r].created
  BY CreatedStays
<1> QED
  BY <1>1 DEF ReminderInv, Last, Reminds, Expired

\* escalation.py: a reminder is sent when the interval since the last one has
\* passed and the request has not expired, so its lifetime limits their number.
THEOREM RemindersBounded == Spec => []RemindersAreBounded
<1>1. Init => ReminderInv
  BY DEF Init, ReminderInv, NoSweep
<1>2. TypeOK /\ LevelInv /\ ReminderInv /\ [Next]_vars => ReminderInv'
  <2> SUFFICES ASSUME TypeOK, LevelInv, ReminderInv, [Next]_vars PROVE ReminderInv'
    OBVIOUS
  <2> USE DEF rows, history
  <2>1. CASE Remind
    <3> DEFINE q == sweep.item[1]
               row == sweep.item[2]
    <3>1. /\ q \in Requests /\ row \in Row /\ requests[q] # None /\ row.created = requests[q].created
          /\ ~Expired(row, sweep.at) /\ Reminds(q, row, sweep.at)
      BY <2>1, ItemTypes DEF Remind, LevelInv, Genuine, ReminderInv
    <3>2. /\ reminders' = [reminders EXCEPT ![q] = Append(reminders[q], sweep.at)]
          /\ requests' = requests /\ sweep'.phase = "scan"
      BY <2>1 DEF Remind, TypeOK, SweepOK, Sweep
    <3>3. row.created \in Nat /\ sweep.at \in Nat /\ reminders \in [Requests -> Seq(Nat)]
      BY <3>1 DEF Row, TypeOK, SweepOK, Sweep, RowsOK
    <3> HIDE DEF q, row
    <3>4. sweep.at <= row.created + Lifetime
      BY <3>1, <3>3, ApprovalAssumptions DEF Expired
    <3>5. row.created + (Len(reminders[q]) + 1) * ReminderInterval <= sweep.at
      <4> DEFINE n == Len(reminders[q])
      <4>1. n \in Nat /\ ReminderInterval \in Nat
        BY <3>1, <3>3, ApprovalAssumptions
      <4>2. (n + 1) * ReminderInterval = n * ReminderInterval + ReminderInterval
            /\ n * ReminderInterval \in Nat
        <5> HIDE DEF n
        <5> QED
          BY <4>1
      <4>3. CASE reminders[q] = <<>>
        <5>1. n = 0 /\ sweep.at - row.created >= ReminderInterval
          BY <3>1, <4>3 DEF Reminds
        <5> QED
          BY <3>3, <4>1, <5>1
      <4>4. CASE reminders[q] # <<>>
        <5>1. /\ row.created + n * ReminderInterval <= Last(q)
              /\ sweep.at - Last(q) >= ReminderInterval
          BY <3>1, <4>4 DEF ReminderInv, Reminds, Last
        <5>2. Last(q) \in Nat
          BY <3>1, <3>3, <4>4 DEF Last
        <5> HIDE DEF n
        <5>3. row.created + (n + 1) * ReminderInterval <= sweep.at
          BY <3>3, <4>1, <4>2, <5>1, <5>2
        <5> QED
          BY <5>3 DEF n
      <4> QED
        BY <4>3, <4>4
    <3>6. /\ reminders'[q] = Append(reminders[q], sweep.at)
          /\ \A r \in Requests \ {q} : reminders'[r] = reminders[r]
      BY <3>1, <3>2, <3>3
    <3>7. Len(reminders'[q]) = Len(reminders[q]) + 1 /\ reminders'[q][Len(reminders'[q])] = sweep.at
      BY <3>1, <3>3, <3>6
    <3>8. ASSUME NEW r \in Requests, reminders'[r] # <<>>
          PROVE  /\ requests'[r] # None
                 /\ requests'[r].created + Len(reminders'[r]) * ReminderInterval
                      <= reminders'[r][Len(reminders'[r])]
                 /\ reminders'[r][Len(reminders'[r])] <= requests'[r].created + Lifetime
      <4>1. CASE r = q
        BY <3>1, <3>2, <3>4, <3>5, <3>7, <4>1
      <4>2. CASE r # q
        BY <3>2, <3>6, <3>8, <4>2 DEF ReminderInv, Last
      <4> QED
        BY <4>1, <4>2
    <3> QED
      BY <3>2, <3>8 DEF ReminderInv, Last
  <2>2. CASE \E x \in sweep.todo : Inspect(x)
    <3>1. PICK x \in sweep.todo : Inspect(x)
      BY <2>2
    <3>2. /\ sweep'.phase = Task(x[1], x[2], now) /\ sweep'.item = x /\ sweep'.at = now
          /\ reminders' = reminders /\ requests' = requests
      BY <3>1 DEF Inspect
    <3>3. Task(x[1], x[2], now) = "remind" => ~Expired(x[2], now) /\ Reminds(x[1], x[2], now)
      BY DEF Task
    <3>4. sweep'.phase = "remind" =>
            ~Expired(sweep.item[2], sweep.at)' /\ Reminds(sweep.item[1], sweep.item[2], sweep.at)'
      BY <3>2, <3>3 DEF Expired, Reminds
    <3> QED
      BY <3>2, <3>4 DEF ReminderInv, Last
  <2>3. CASE BeginSweep \/ Expire \/ Escalate \/ EndSweep
    <3>1. BeginSweep => reminders' = reminders /\ sweep'.phase = "scan"
      BY DEF BeginSweep, NoSweep
    <3>2. EndSweep => reminders' = reminders /\ sweep'.phase = "idle"
      BY DEF EndSweep, NoSweep
    <3>3. Expire \/ Escalate => reminders' = reminders /\ sweep' = [sweep EXCEPT !.phase = "scan"]
      BY DEF Expire, Escalate
    <3>4. reminders' = reminders /\ sweep'.phase # "remind"
      BY <2>3, <3>1, <3>2, <3>3 DEF TypeOK, SweepOK, Sweep
    <3> QED
      BY <3>4, RemindersRest
  <2>4. CASE (\E r \in Requests : CreateRequest(r)) \/ Tick \/ UNCHANGED vars
    <3>1. reminders' = reminders /\ sweep' = sweep
      BY <2>4 DEF CreateRequest, Tick, vars
    <3> QED
      BY <3>1, RemindersRest
  <2>5. CASE \E h \in Handlers : HandlerStep(h)
    <3>1. reminders' = reminders /\ sweep' = sweep
      BY <2>5 DEF HandlerStep, ReceiveCallback, CheckNonce, VerifyToken, BurnNonce, ReadRequest,
                  SaveDecision, CallbackDies
    <3> QED
      BY <3>1, RemindersRest
  <2> QED
    BY <2>1, <2>2, <2>3, <2>4, <2>5 DEF Next, SweepStep
<1>3. TypeOK /\ ReminderInv => RemindersAreBounded
  <2> SUFFICES ASSUME TypeOK, ReminderInv, NEW r \in Requests
               PROVE  Len(reminders[r]) * ReminderInterval <= Lifetime
    BY DEF RemindersAreBounded
  <2>1. reminders[r] \in Seq(Nat) /\ Lifetime \in Nat /\ ReminderInterval \in Nat
    BY ApprovalAssumptions DEF TypeOK, RowsOK
  <2>2. CASE reminders[r] = <<>>
    BY <2>1, <2>2
  <2>3. CASE reminders[r] # <<>>
    <3> DEFINE k == Len(reminders[r]) * ReminderInterval
    <3>1. requests[r] # None /\ requests[r].created + k <= Last(r) /\ Last(r) <= requests[r].created + Lifetime
      BY <2>3 DEF ReminderInv
    <3>2. requests[r].created \in Nat /\ Last(r) \in Nat
      BY <2>1, <2>3, <3>1 DEF TypeOK, RowsOK, Row, Last
    <3>3. k \in Nat
      BY <2>1
    <3> HIDE DEF k
    <3>4. k <= Lifetime
      BY <2>1, <3>1, <3>2, <3>3
    <3> QED
      BY <3>4 DEF k
  <2> QED
    BY <2>2, <2>3
<1> QED
  BY <1>1, <1>2, <1>3, TypeCorrect, LevelInvariant, PTL DEF Spec

-----------------------------------------------------------------------------
(* Decisions.  Only a PENDING row makes writers, and only an escalation of a *)
(* decided row makes it PENDING again: an expired request stays closed,      *)
(* since the pass that closed it has no copy of it left.                     *)

Writers(r) == {h \in Handlers : handler[h].pc = "write" /\ handler[h].req = r}
Size == Cardinality(Handlers)
Undecided(r) == requests[r] = None \/ requests[r].status = "PENDING"

\* Rounds(k): the decisions that k reopenings allow.
Rounds(k) == Size * k

DecisionInv ==
  /\ \A r \in Requests :
       /\ decided[r] + Cardinality(Writers(r)) <= Rounds(1 + reopened[r])
       /\ Undecided(r) => decided[r] <= Rounds(reopened[r])
  /\ \A x, y \in sweep.todo : x[1] = y[1] => x = y
  /\ \A x \in sweep.todo : requests[x[1]] # None /\ requests[x[1]].status # "EXPIRED"
  /\ sweep.phase \in {"expire", "escalate"} =>
       /\ requests[sweep.item[1]] # None /\ requests[sweep.item[1]].status # "EXPIRED"
       /\ \A x \in sweep.todo : x[1] # sweep.item[1]

LEMMA RoundsGrow ==
  ASSUME NEW k \in Nat
  PROVE  Size \in Nat /\ Rounds(k) \in Nat /\ Rounds(k + 1) = Rounds(k) + Size /\ Rounds(1 + k) = Rounds(k) + Size
<1>1. Size \in Nat
  BY FS_CardinalityType, ApprovalAssumptions DEF Size
<1>2. Size * k \in Nat /\ Size * (k + 1) = Size * k + Size /\ Size * (1 + k) = Size * k + Size
  BY <1>1
<1> QED
  BY <1>1, <1>2 DEF Rounds

LEMMA WritersFinite ==
  ASSUME NEW r
  PROVE  Cardinality(Writers(r)) \in Nat /\ Cardinality(Writers(r)) <= Size /\ IsFiniteSet(Writers(r))
<1>1. Writers(r) \subseteq Handlers
  BY DEF Writers
<1>2. IsFiniteSet(Writers(r)) /\ Cardinality(Writers(r)) <= Cardinality(Handlers)
  BY <1>1, FS_Subset, ApprovalAssumptions
<1> QED
  BY <1>2, FS_CardinalityType DEF Size

\* Writers of old stay or leave: their number does not grow.
LEMMA WritersShrink ==
  ASSUME TypeOK, \A g \in Handlers : handler'[g].pc = "write" => handler'[g] = handler[g], NEW r
  PROVE  Cardinality(Writers(r))' \in Nat /\ Cardinality(Writers(r))' <= Cardinality(Writers(r))
<1>1. Writers(r)' \subseteq Writers(r)
  BY DEF Writers
<1>2. IsFiniteSet(Writers(r)) /\ Cardinality(Writers(r)) \in Nat
  BY WritersFinite
<1>3. IsFiniteSet(Writers(r)') /\ Cardinality(Writers(r)') <= Cardinality(Writers(r))
  BY <1>1, <1>2, FS_Subset
<1> QED
  BY <1>3, FS_CardinalityType

\* Steps that decide nothing: writers leave, statuses stay or close.
LEMMA DecisionsRest ==
  ASSUME TypeOK, DecisionInv, UNCHANGED <<decided, reopened>>,
         \A g \in Handlers : handler'[g].pc = "write" => handler'[g] = handler[g],
         \A r \in Requests : Undecided(r)' => Undecided(r)
  PROVE  \A r \in Requests :
           /\ decided'[r] + Cardinality(Writers(r))' <= Rounds(1 + reopened'[r])
           /\ Undecided(r)' => decided'[r] <= Rounds(reopened'[r])
<1> SUFFICES ASSUME NEW r \in Requests
             PROVE  /\ decided'[r] + Cardinality(Writers(r))' <= Rounds(1 + reopened'[r])
                    /\ Undecided(r)' => decided'[r] <= Rounds(reopened'[r])
  OBVIOUS
<1>1. decided[r] \in Nat /\ reopened[r] \in Nat
  BY DEF TypeOK, HistoryOK
<1>2. Cardinality(Writers(r))' \in Nat /\ Cardinality(Writers(r))' <= Cardinality(Writers(r))
  BY WritersShrink
<1>3. Cardinality(Writers(r)) \in Nat /\ Rounds(1 + reopened[r]) \in Nat
  BY <1>1, WritersFinite, RoundsGrow
<1>4. /\ decided[r] + Cardinality(Writers(r)) <= Rounds(1 + reopened[r])
      /\ Undecided(r) => decided[r] <= Rounds(reopened[r])
  BY DEF DecisionInv
<1>5. decided[r] + Cardinality(Writers(r))' <= Rounds(1 + reopened[r])
  BY <1>1, <1>2, <1>3, <1>4
<1> QED
  BY <1>4, <1>5

\* A callback handler.
LEMMA CallbackDecisions ==
  ASSUME TypeOK, DecisionInv, NEW h \in Handlers, HandlerStep(h)
  PROVE  DecisionInv'
<1> USE DEF rows, history
<1>1. sweep' = sweep /\ handler \in [Handlers -> Handler] /\ handler[h] \in Handler
  BY DEF TypeOK, HandlersOK, HandlerStep, ReceiveCallback, CheckNonce, VerifyToken, BurnNonce,
         ReadRequest, SaveDecision, CallbackDies
<1>2. ASSUME requests' = requests,
             \A r \in Requests :
               /\ decided'[r] + Cardinality(Writers(r))' <= Rounds(1 + reopened'[r])
               /\ Undecided(r)' => decided'[r] <= Rounds(reopened'[r])
      PROVE  DecisionInv'
  BY <1>1, <1>2 DEF DecisionInv
<1>3. ASSUME requests' = requests, UNCHANGED <<decided, reopened>>,
             \A g \in Handlers : handler'[g].pc = "write" => handler'[g] = handler[g]
      PROVE  DecisionInv'
  <2>1. \A r \in Requests : Undecided(r)' => Undecided(r)
    BY <1>3 DEF Undecided
  <2> QED
    BY <1>2, <1>3, <2>1, DecisionsRest
<1>4. CASE \/ \E r \in Requests, n \in Nonces, d \in Decisions : ReceiveCallback(h, r, n, d)
           \/ CheckNonce(h) \/ VerifyToken(h) \/ BurnNonce(h) \/ CallbackDies(h)
  <2>1. requests' = requests /\ UNCHANGED <<decided, reopened>>
    BY <1>4 DEF ReceiveCallback, CheckNonce, VerifyToken, BurnNonce, CallbackDies
  <2> QED
    BY <1>3, <1>4, <2>1, WritersRest
<1>5. CASE ReadRequest(h)
  <2> DEFINE q == handler[h].req
             x == [handler[h] EXCEPT !.pc = "write", !.row = requests[q]]
  <2>1. requests' = requests /\ UNCHANGED <<decided, reopened>> /\ q \in Requests
    BY <1>5 DEF ReadRequest, TypeOK, HandlersOK
  <2>2. CASE Answer(h)
    BY <1>1, <1>3, <2>1, <2>2 DEF Answer, NoCallback
  <2>3. CASE requests[q].status = "PENDING" /\ handler' = [handler EXCEPT ![h] = x]
    <3>1. x.pc = "write" /\ x.req = q
      BY <1>1 DEF Handler
    <3>2. Undecided(q)
      BY <2>3 DEF Undecided
    <3>3. handler' = [handler EXCEPT ![h] = x]
      BY <2>3
    <3> HIDE DEF x, q
    <3>4. ASSUME NEW r \in Requests
          PROVE  decided[r] + Cardinality(Writers(r))' <= Rounds(1 + reopened[r])
      <4>1. decided[r] \in Nat /\ reopened[r] \in Nat
        BY DEF TypeOK, HistoryOK
      <4>2. /\ Size \in Nat /\ Rounds(reopened[r]) \in Nat
            /\ Rounds(1 + reopened[r]) = Rounds(reopened[r]) + Size
        BY <4>1, RoundsGrow
      <4>3. CASE r = q
        <5>1. Cardinality(Writers(r)') \in Nat /\ Cardinality(Writers(r)') <= Size
          <6>1. Writers(r)' \subseteq Handlers
            BY DEF Writers
          <6>2. IsFiniteSet(Writers(r)') /\ Cardinality(Writers(r)') <= Cardinality(Handlers)
            BY <6>1, FS_Subset, ApprovalAssumptions
          <6> QED
            BY <6>2, FS_CardinalityType DEF Size
        <5>2. decided[r] <= Rounds(reopened[r])
          BY <3>2, <4>3 DEF DecisionInv
        <5> QED
          BY <4>1, <4>2, <5>1, <5>2
      <4>4. CASE r # q
        <5>1. Writers(r)' \subseteq Writers(r)
          BY <1>1, <3>1, <3>3, <4>4 DEF Writers
        <5>2. IsFiniteSet(Writers(r)) /\ Cardinality(Writers(r)) \in Nat
          BY WritersFinite
        <5>3. IsFiniteSet(Writers(r)') /\ Cardinality(Writers(r)') <= Cardinality(Writers(r))
          BY <5>1, <5>2, FS_Subset
        <5>4. Cardinality(Writers(r)') \in Nat
          BY <5>3, FS_CardinalityType
        <5>5. decided[r] + Cardinality(Writers(r)) <= Rounds(1 + reopened[r])
          BY DEF DecisionInv
        <5> QED
          BY <4>1, <4>2, <5>2, <5>3, <5>4, <5>5
      <4> QED
        BY <4>3, <4>4
    <3>5. \A r \in Requests : Undecided(r)' => decided[r] <= Rounds(reopened[r])
      BY <2>1 DEF DecisionInv, Undecided
    <3> QED
      BY <1>2, <2>1, <3>4, <3>5
  <2>4. handler' = [handler EXCEPT ![h].pc = "write", ![h].row = requests[q]]
          => handler' = [handler EXCEPT ![h] = x]
    BY <1>1
  <2> QED
    BY <1>5, <2>2, <2>3, <2>4 DEF ReadRequest
<1>6. CASE SaveDecision(h)
  <2>0. PICK q \in Requests : q = handler[h].req
    BY <1>6 DEF SaveDecision, TypeOK, HandlersOK
  <2> DEFINE row == [handler[h].row EXCEPT !.status = handler[h].choice, !.decision = handler[h].choice]
  <2>1. q = handler[h].req /\ handler[h].pc = "write" /\ handler[h].row \in Row /\ handler[h].choice \in Decisions
    BY <1>6, <2>0 DEF SaveDecision, TypeOK, HandlersOK
  <2>2. row.status \in Decisions /\ row \in Row /\ row # None
    BY <2>1, ApprovalAssumptions DEF Row, ApprovalState
  <2>3. /\ requests' = [requests EXCEPT ![q] = row]
        /\ decided' = [decided EXCEPT ![q] = decided[q] + 1] /\ reopened' = reopened
    BY <1>6, <2>0 DEF SaveDecision
  <2>4. handler'[h].pc = "idle" /\ \A g \in Handlers \ {h} : handler'[g] = handler[g]
    BY <1>1, <1>6 DEF SaveDecision, Answer, NoCallback
  <2>5. requests \in [Requests -> Row \cup {None}]
    BY DEF TypeOK, RowsOK
  <2>6. decided \in [Requests -> Nat] /\ reopened \in [Requests -> Nat]
    BY DEF TypeOK, HistoryOK
  <2>7. h \in Writers(q) /\ Writers(q)' = Writers(q) \ {h}
        /\ \A r \in Requests \ {q} : Writers(r)' = Writers(r)
    BY <2>1, <2>4 DEF Writers
  <2> HIDE DEF row
  <2>8. ASSUME NEW r \in Requests
        PROVE  decided'[r] + Cardinality(Writers(r))' <= Rounds(1 + reopened'[r])
    <3>1. CASE r = q
      <4>1. Cardinality(Writers(q)') = Cardinality(Writers(q)) - 1 /\ Cardinality(Writers(q)) \in Nat
        BY <2>7, WritersFinite, FS_RemoveElement
      <4>2. decided'[q] = decided[q] + 1 /\ reopened'[q] = reopened[q]
        BY <2>1, <2>3, <2>6
      <4>3. decided[q] + Cardinality(Writers(q)) <= Rounds(1 + reopened[q])
        BY <2>1 DEF DecisionInv
      <4>4. decided[q] \in Nat /\ Rounds(1 + reopened[q]) \in Int
        BY <2>1, <2>6, RoundsGrow
      <4> QED
        BY <3>1, <4>1, <4>2, <4>3, <4>4
    <3>2. CASE r # q
      BY <2>3, <2>6, <2>7, <3>2 DEF DecisionInv
    <3> QED
      BY <3>1, <3>2
  <2>9. \A r \in Requests : Undecided(r)' => Undecided(r) /\ r # q
    BY <2>2, <2>3, <2>5 DEF Undecided, Decisions
  <2>10. \A r \in Requests : Undecided(r)' => decided'[r] <= Rounds(reopened'[r])
    BY <2>3, <2>6, <2>9 DEF DecisionInv
  <2>11. \A r \in Requests : requests[r] # None /\ requests[r].status # "EXPIRED" =>
            requests'[r] # None /\ requests'[r].status # "EXPIRED"
    BY <2>2, <2>3, <2>5 DEF Decisions
  <2>12. \A x \in sweep.todo : x[1] \in Requests
    BY DEF TypeOK, SweepOK, Sweep
  <2>13. sweep.phase \in {"expire", "escalate"} => sweep.item[1] \in Requests
    BY ItemTypes
  <2> QED
    BY <1>1, <2>8, <2>10, <2>11, <2>12, <2>13 DEF DecisionInv
<1> QED
  BY <1>4, <1>5, <1>6, Zenon DEF HandlerStep

\* The pass.
LEMMA SweepDecisions ==
  ASSUME TypeOK, DecisionInv, SweepStep
  PROVE  DecisionInv'
<1> USE DEF rows, history
<1>1. handler' = handler /\ decided' = decided
  BY DEF SweepStep, BeginSweep, Inspect, Expire, Escalate, Remind, EndSweep
<1>2. /\ requests \in [Requests -> Row \cup {None}]
      /\ decided \in [Requests -> Nat] /\ reopened \in [Requests -> Nat]
      /\ \A x \in sweep.todo : x[1] \in Requests
  BY DEF TypeOK, RowsOK, HistoryOK, SweepOK, Sweep
<1>3. \A r : Writers(r)' = Writers(r)
  BY <1>1 DEF Writers
<1>4. ASSUME reopened' = reopened, \A r \in Requests : Undecided(r)' => Undecided(r)
      PROVE  \A r \in Requests :
               /\ decided'[r] + Cardinality(Writers(r))' <= Rounds(1 + reopened'[r])
               /\ Undecided(r)' => decided'[r] <= Rounds(reopened'[r])
  BY <1>1, <1>4, DecisionsRest
<1>5. CASE BeginSweep
  <2>1. /\ sweep'.phase = "scan" /\ requests' = requests /\ reopened' = reopened
        /\ sweep'.todo = {<<r, requests[r]>> : r \in {q \in Requests :
             requests[q] # None /\ requests[q].status = "PENDING"}}
    BY <1>5 DEF BeginSweep, NoSweep
  <2>2. \A x \in sweep'.todo : requests[x[1]] # None /\ requests[x[1]].status # "EXPIRED"
                               /\ x = <<x[1], requests[x[1]]>>
    BY <2>1
  <2> QED
    BY <1>4, <2>1, <2>2 DEF DecisionInv, Undecided
<1>6. CASE \E x \in sweep.todo : Inspect(x)
  <2>1. PICK x \in sweep.todo : Inspect(x)
    BY <1>6
  <2>2. /\ sweep'.todo = sweep.todo \ {x} /\ sweep'.item = x
        /\ requests' = requests /\ reopened' = reopened
    BY <2>1 DEF Inspect
  <2> QED
    BY <1>4, <2>1, <2>2 DEF DecisionInv, Undecided
<1>7. CASE Expire
  <2> DEFINE row == [sweep.item[2] EXCEPT !.status = "EXPIRED"]
  <2>1. PICK q \in Requests : q = sweep.item[1] /\ sweep.item[2] \in Row
    BY <1>7, ItemTypes DEF Expire
  <2>2. row.status = "EXPIRED" /\ row \in Row /\ row # None
    BY <2>1, ApprovalAssumptions DEF Row, ApprovalState
  <2>3. requests' = [requests EXCEPT ![q] = row] /\ reopened' = reopened
    BY <1>7, <2>1 DEF Expire
  <2>4. sweep'.phase = "scan" /\ sweep'.todo = sweep.todo
    BY <1>7 DEF Expire, TypeOK, SweepOK, Sweep
  <2>5. \A x \in sweep.todo : x[1] # q
    BY <1>7, <2>1 DEF Expire, DecisionInv
  <2> HIDE DEF row
  <2>6. \A r \in Requests : Undecided(r)' => Undecided(r)
    BY <1>2, <2>2, <2>3 DEF Undecided
  <2>7. \A x \in sweep.todo : requests'[x[1]] = requests[x[1]]
    BY <1>2, <2>3, <2>5
  <2> QED
    BY <1>4, <2>3, <2>4, <2>6, <2>7 DEF DecisionInv
<1>8. CASE Escalate
  <2> DEFINE row == [sweep.item[2] EXCEPT !.level = @ + 1]
  <2>1. PICK q \in Requests : q = sweep.item[1] /\ sweep.item[2] \in Row
    BY <1>8, ItemTypes DEF Escalate
  <2>2. /\ requests' = [requests EXCEPT ![q] = row]
        /\ reopened' = [reopened EXCEPT ![q] = IF requests[q].status \in Decisions THEN reopened[q] + 1
                                               ELSE reopened[q]]
    BY <1>8, <2>1 DEF Escalate
  <2>3. sweep'.phase = "scan" /\ sweep'.todo = sweep.todo
    BY <1>8 DEF Escalate, TypeOK, SweepOK, Sweep
  <2>4. /\ requests[q] # None /\ requests[q].status # "EXPIRED"
        /\ \A x \in sweep.todo : x[1] # q
    BY <1>8, <2>1 DEF Escalate, DecisionInv
  <2> HIDE DEF row
  <2>5. \A r \in Requests \ {q} : requests'[r] = requests[r] /\ reopened'[r] = reopened[r]
    BY <1>2, <2>2
  <2>6. /\ decided[q] + Cardinality(Writers(q)) <= Rounds(1 + reopened[q])
        /\ Undecided(q) => decided[q] <= Rounds(reopened[q])
    BY DEF DecisionInv
  <2>7. Cardinality(Writers(q)) \in Nat
    BY WritersFinite
  <2>8. CASE requests[q].status \in Decisions
    <3>1. reopened'[q] = reopened[q] + 1 /\ reopened[q] \in Nat /\ decided[q] \in Nat
      BY <1>2, <2>2, <2>8
    <3>2. /\ Rounds(1 + reopened[q]) \in Int /\ Size \in Nat
          /\ Rounds(reopened'[q]) = Rounds(1 + reopened[q])
          /\ Rounds(1 + reopened'[q]) = Rounds(1 + reopened[q]) + Size
      <4>1. 1 + reopened[q] \in Nat /\ reopened[q] + 1 = 1 + reopened[q]
        BY <3>1
      <4> QED
        BY <3>1, <4>1, RoundsGrow
    <3>3. /\ decided[q] <= Rounds(reopened'[q])
          /\ decided[q] + Cardinality(Writers(q)) <= Rounds(1 + reopened'[q])
      BY <2>6, <2>7, <3>1, <3>2
    <3>4. \A r \in Requests :
            /\ decided'[r] + Cardinality(Writers(r))' <= Rounds(1 + reopened'[r])
            /\ Undecided(r)' => decided'[r] <= Rounds(reopened'[r])
      BY <1>1, <1>3, <2>5, <3>3 DEF DecisionInv, Undecided
    <3>5. \A x \in sweep.todo : requests'[x[1]] = requests[x[1]]
      BY <1>2, <2>4, <2>5
    <3> QED
      BY <2>3, <3>4, <3>5 DEF DecisionInv
  <2>9. CASE requests[q].status \notin Decisions
    <3>1. Undecided(q)
      BY <1>2, <2>4, <2>9 DEF Undecided, Row, ApprovalState
    <3>2. reopened'[q] = reopened[q]
      BY <1>2, <2>2, <2>9
    <3>3. reopened' = reopened
      BY <1>2, <2>2, <2>9
    <3>4. \A r \in Requests : Undecided(r)' => Undecided(r)
      BY <2>5, <3>1 DEF Undecided
    <3>5. \A x \in sweep.todo : requests'[x[1]] = requests[x[1]]
      BY <1>2, <2>4, <2>5
    <3> QED
      BY <1>4, <2>3, <3>3, <3>4, <3>5 DEF DecisionInv
  <2> QED
    BY <2>8, <2>9
<1>9. CASE Remind
  <2>1. requests' = requests /\ reopened' = reopened /\ sweep'.phase = "scan" /\ sweep'.todo = sweep.todo
    BY <1>9 DEF Remind, TypeOK, SweepOK, Sweep
  <2> QED
    BY <1>4, <2>1 DEF DecisionInv, Undecided
<1>10. CASE EndSweep
  <2>1. requests' = requests /\ reopened' = reopened /\ sweep'.phase = "idle" /\ sweep'.todo = {}
    BY <1>10 DEF EndSweep, NoSweep
  <2> QED
    BY <1>4, <2>1 DEF DecisionInv, Undecided
<1> QED
  BY <1>5, <1>6, <1>7, <1>8, <1>9, <1>10 DEF SweepStep

\* approval_service.py: between two reopenings by a stale escalation a request is
\* decided at most once per request thread, however many callbacks come in.
THEOREM DecisionsBounded == Spec => []DecisionsAreBounded
<1>1. Init => DecisionInv
  <2> SUFFICES ASSUME Init PROVE DecisionInv
    OBVIOUS
  <2>1. \A r : Writers(r) = {}
    BY DEF Init, Writers, NoCallback
  <2>2. Cardinality({}) = 0 /\ Size \in Nat /\ Rounds(0) = 0 /\ Rounds(1 + 0) = Size
    <3>1. Size \in Nat
      BY RoundsGrow
    <3>2. Size * 0 = 0 /\ Size * (1 + 0) = Size
      BY <3>1
    <3> QED
      BY <3>1, <3>2, FS_EmptySet DEF Rounds
  <2>3. ASSUME NEW r \in Requests
        PROVE  /\ decided[r] + Cardinality(Writers(r)) <= Rounds(1 + reopened[r])
               /\ Undecided(r) => decided[r] <= Rounds(reopened[r])
    <3>1. decided[r] = 0 /\ reopened[r] = 0
      BY DEF Init
    <3>2. Rounds(reopened[r]) = 0 /\ Rounds(1 + reopened[r]) = Size
      BY <2>2, <3>1
    <3>3. Cardinality(Writers(r)) = 0
      BY <2>1, <2>2
    <3> QED
      BY <2>2, <3>1, <3>2, <3>3
  <2> QED
    BY <2>3 DEF Init, DecisionInv, NoSweep
<1>2. TypeOK /\ DecisionInv /\ [Next]_vars => DecisionInv'
  <2> SUFFICES ASSUME TypeOK, DecisionInv, [Next]_vars PROVE DecisionInv'
    OBVIOUS
  <2> USE DEF rows, history
  <2>1. CASE \E r \in Requests : CreateRequest(r)
    <3>1. PICK q \in Requests : CreateRequest(q)
      BY <2>1
    <3> DEFINE row == [status |-> "PENDING", level |-> 1, decision |-> None, created |-> now]
    <3>2. row \in Row /\ row # None /\ row.status = "PENDING"
      BY ApprovalAssumptions DEF Row, ApprovalState, TypeOK
    <3>3. /\ requests[q] = None /\ requests' = [requests EXCEPT ![q] = row]
          /\ handler' = handler /\ sweep' = sweep /\ UNCHANGED <<decided, reopened>>
      BY <3>1 DEF CreateRequest
    <3> HIDE DEF row
    <3>4. requests \in [Requests -> Row \cup {None}]
      BY DEF TypeOK, RowsOK
    <3>5. \A r \in Requests : Undecided(r)' => Undecided(r)
      BY <3>3, <3>4 DEF Undecided
    <3>6. \A r \in Requests :
            /\ decided'[r] + Cardinality(Writers(r))' <= Rounds(1 + reopened'[r])
            /\ Undecided(r)' => decided'[r] <= Rounds(reopened'[r])
      BY <3>3, <3>5, DecisionsRest
    <3>7. \A r \in Requests : requests[r] # None => requests'[r] = requests[r]
      BY <3>3, <3>4
    <3>8. /\ \A x \in sweep.todo : x[1] \in Requests
          /\ sweep.phase \in {"expire", "escalate"} => sweep.item[1] \in Requests
      BY ItemTypes DEF TypeOK, SweepOK, Sweep
    <3> QED
      BY <3>3, <3>6, <3>7, <3>8 DEF DecisionInv
  <2>2. CASE Tick \/ UNCHANGED vars
    <3>1. UNCHANGED <<requests, handler, sweep, decided, reopened>>
      BY <2>2 DEF Tick, vars
    <3>2. \A r \in Requests :
            /\ decided'[r] + Cardinality(Writers(r))' <= Rounds(1 + reopened'[r])
            /\ Undecided(r)' => decided'[r] <= Rounds(reopened'[r])
      BY <3>1, DecisionsRest DEF Undecided
    <3> QED
      BY <3>1, <3>2 DEF DecisionInv
  <2> QED
    BY <2>1, <2>2, CallbackDecisions, SweepDecisions DEF Next
<1>3. TypeOK /\ DecisionInv => DecisionsAreBounded
  <2> SUFFICES ASSUME TypeOK, DecisionInv, NEW r \in Requests
               PROVE  decided[r] <= Cardinality(Handlers) * (1 + reopened[r])
    BY DEF DecisionsAreBounded
  <2>1. decided[r] \in Nat /\ reopened[r] \in Nat /\ Cardinality(Writers(r)) \in Nat
    BY WritersFinite DEF TypeOK, HistoryOK
  <2>2. decided[r] + Cardinality(Writers(r)) <= Rounds(1 + reopened[r])
    BY DEF DecisionInv
  <2>3. Rounds(1 + reopened[r]) \in Int
    BY <2>1, RoundsGrow
  <2>4. decided[r] <= Rounds(1 + reopened[r])
    BY <2>1, <2>2, <2>3
  <2> QED
    BY <2>4 DEF Rounds, Size
<1> QED
  BY <1>1, <1>2, <1>3, TypeCorrect, PTL DEF Spec
=============================================================================
