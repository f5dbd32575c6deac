------------------------------ MODULE Approvals ------------------------------
(***************************************************************************)
(* Approval requests (app/collaboration): the service that creates them    *)
(* when an execution pauses, the callbacks that decide them, and the pass  *)
(* that expires, escalates and reminds of them.                            *)
(*                                                                         *)
(* Callbacks run in request threads, one repository call after the other.  *)
(* save_approval_request writes status, level and decision of the copy its *)
(* caller has, whatever the row holds by then: a decision races with other *)
(* decisions and with the pass, which works on the list it read first.     *)
(***************************************************************************)
EXTENDS Naturals, Sequences, FiniteSets

CONSTANTS
  Requests,          \* approval requests that may be created
  Nonces,            \* nonces of callbacks; a client may send one again
  Handlers,          \* HTTP request threads
  Lifetime,          \* expires_in_seconds, of the request and of its token
  Timeouts,          \* timeout_seconds of the levels of the escalation policy
  ReminderInterval,  \* reminder_interval
  MaxTime,           \* bound: the last instant of the clock
  None

Decisions == {"APPROVED", "REJECTED"}
ApprovalState == {"PENDING", "EXPIRED"} \cup Decisions
Row == [status: ApprovalState, level: Nat, decision: Decisions \cup {None}, created: Nat]

ASSUME ApprovalAssumptions ==
  /\ IsFiniteSet(Handlers)
  /\ Lifetime \in Nat /\ MaxTime \in Nat
  /\ Timeouts \in Seq(Nat)
  /\ ReminderInterval \in Nat \ {0}
  /\ None \notin Decisions /\ None \notin Row

VARIABLES
  now,
  requests,   \* approval_requests
  nonces,     \* nonces of the rows of approval_callbacks
  reminders,  \* sent_at of the rows of approval_reminders, by reminder_number
  handler,    \* the callback each request thread handles
  sweep,      \* check_and_process_escalations
  used,       \* history: decisions applied with a nonce
  decided,    \* history: decisions applied to a request
  reopened    \* history: decided requests that an escalation made PENDING again

rows == <<requests, nonces, reminders>>
history == <<used, decided, reopened>>
vars == <<now, requests, nonces, reminders, handler, sweep, used, decided, reopened>>

Handler == [pc: {"idle", "nonce", "token", "burn", "read", "write"},
            req: Requests \cup {None}, nonce: Nonces \cup {None},
            choice: Decisions \cup {None}, row: Row \cup {None}]
NoCallback == [pc |-> "idle", req |-> None, nonce |-> None, choice |-> None, row |-> None]

\* The rows listed and not handled yet, the one being handled, and the time the
\* pass took for it.
Sweep == [phase: {"idle", "scan", "expire", "escalate", "remind"},
          todo: SUBSET (Requests \X Row), item: (Requests \X Row) \cup {None}, at: Nat]
NoSweep == [phase |-> "idle", todo |-> {}, item |-> None, at |-> 0]

RowsOK ==
  /\ requests \in [Requests -> Row \cup {None}]
  /\ nonces \subseteq Nonces
  /\ reminders \in [Requests -> Seq(Nat)]

\* A callback in a handler is complete and about a request that exists.
HandlersOK ==
  /\ handler \in [Handlers -> Handler]
  /\ \A h \in Handlers :
       /\ handler[h].pc # "idle" =>
            /\ handler[h].req \in Requests /\ requests[handler[h].req] # None
            /\ handler[h].nonce \in Nonces /\ handler[h].choice \in Decisions
       /\ handler[h].pc = "write" => handler[h].row \in Row

SweepOK ==
  /\ sweep \in Sweep
  /\ sweep.phase \in {"expire", "escalate", "remind"} => sweep.item \in Requests \X Row

HistoryOK ==
  /\ used \in [Nonces -> Nat]
  /\ decided \in [Requests -> Nat]
  /\ reopened \in [Requests -> Nat]

TypeOK == now \in 0..MaxTime /\ RowsOK /\ HandlersOK /\ SweepOK /\ HistoryOK

Init ==
  /\ now = 0
  /\ requests = [r \in Requests |-> None]
  /\ nonces = {}
  /\ reminders = [r \in Requests |-> <<>>]
  /\ handler = [h \in Handlers |-> NoCallback]
  /\ sweep = NoSweep
  /\ used = [n \in Nonces |-> 0]
  /\ decided = [r \in Requests |-> 0] /\ reopened = [r \in Requests |-> 0]

\* create_approval_request: saved first, then the primary contact is notified.
CreateRequest(r) ==
  /\ requests[r] = None
  /\ requests' = [requests EXCEPT
       ![r] = [status |-> "PENDING", level |-> 1, decision |-> None, created |-> now]]
  /\ UNCHANGED <<now, nonces, reminders, handler, sweep, history>>

Expired(row, t) == t > row.created + Lifetime

-----------------------------------------------------------------------------
(* ------------------------------ callbacks -------------------------------- *)

Goto(h, l) == handler' = [handler EXCEPT ![h].pc = l]

\* The callback is answered, with a result or with an error.
Answer(h) == handler' = [handler EXCEPT ![h] = NoCallback]

\* handle_token_callback: a callback with a fresh timestamp and a token that was
\* sent out for r.
ReceiveCallback(h, r, n, d) ==
  /\ handler[h].pc = "idle"
  /\ requests[r] # None
  /\ handler' = [handler EXCEPT ![h] = [NoCallback EXCEPT
                   !.pc = "nonce", !.req = r, !.nonce = n, !.choice = d]]
  /\ UNCHANGED <<now, rows, sweep, history>>

\* is_callback_nonce_processed.
CheckNonce(h) ==
  /\ handler[h].pc = "nonce"
  /\ \/ handler[h].nonce \in nonces /\ Answer(h)
     \/ handler[h].nonce \notin nonces /\ Goto(h, "token")
  /\ UNCHANGED <<now, rows, sweep, history>>

\* verify_approval_token.
VerifyToken(h) ==
  /\ handler[h].pc = "token"
  /\ \/ Expired(requests[handler[h].req], now) /\ Answer(h)
     \/ ~Expired(requests[handler[h].req], now) /\ Goto(h, "burn")
  /\ UNCHANGED <<now, rows, sweep, history>>

\* As if the column nonce were not UNIQUE.
BurnAnyNonce(h) ==
  /\ handler[h].pc = "burn"
  /\ nonces' = nonces \cup {handler[h].nonce}
  /\ Goto(h, "read")
  /\ UNCHANGED <<now, requests, reminders, sweep, history>>

\* As if decide_approval did not read the request again.
BurnUnread(h) ==
  /\ handler[h].pc = "burn"
  /\ handler[h].nonce \notin nonces
  /\ nonces' = nonces \cup {handler[h].nonce}
  /\ Goto(h, "write")
  /\ UNCHANGED <<now, requests, reminders, sweep, history>>

\* save_approval_callback: the column nonce is UNIQUE, a second insert raises.
BurnNonce(h) ==
  /\ handler[h].pc = "burn"
  /\ \/ handler[h].nonce \in nonces /\ Answer(h)
     \/ handler[h].nonce \notin nonces /\ Goto(h, "read")
  /\ nonces' = nonces \cup {handler[h].nonce}
  /\ UNCHANGED <<now, requests, reminders, sweep, history>>

\* As if decide_approval did not look at the status.
ReadAnyRequest(h) ==
  /\ handler[h].pc = "read"
  /\ handler' = [handler EXCEPT ![h].pc = "write", ![h].row = requests[handler[h].req]]
  /\ UNCHANGED <<now, rows, sweep, history>>

\* decide_approval reads the request; one that is resolved already is refused.
ReadRequest(h) ==
  LET row == requests[handler[h].req]
  IN /\ handler[h].pc = "read"
     /\ \/ row.status # "PENDING" /\ Answer(h)
        \/ /\ row.status = "PENDING"
           /\ handler' = [handler EXCEPT ![h].pc = "write", ![h].row = row]
     /\ UNCHANGED <<now, rows, sweep, history>>

\* decide_approval saves its copy with the decision.
SaveDecision(h) ==
  LET r == handler[h].req
      d == handler[h].choice
  IN /\ handler[h].pc = "write"
     /\ requests' = [requests EXCEPT ![r] = [handler[h].row EXCEPT !.status = d, !.decision = d]]
     /\ used' = [used EXCEPT ![handler[h].nonce] = @ + 1]
     /\ decided' = [decided EXCEPT ![r] = @ + 1]
     /\ Answer(h)
     /\ UNCHANGED <<now, nonces, reminders, sweep, reopened>>

\* The process dies, or a repository call raises.
CallbackDies(h) ==
  /\ handler[h].pc # "idle"
  /\ Answer(h)
  /\ UNCHANGED <<now, rows, sweep, history>>

-----------------------------------------------------------------------------
(* ------------------------ escalations and reminders ---------------------- *)

\* list_approval_requests; rows that are not PENDING are passed over.
BeginSweep ==
  /\ sweep.phase = "idle"
  /\ sweep' = [NoSweep EXCEPT !.phase = "scan",
       !.todo = {<<r, requests[r]>> : r \in {q \in Requests :
                   requests[q] # None /\ requests[q].status = "PENDING"}}]
  /\ UNCHANGED <<now, rows, handler, history>>

\* As if every level had the timeout of the first.
EscalatesEarly(row, t) ==
  /\ row.level < Len(Timeouts)
  /\ t - row.created >= Timeouts[1]

\* The next level takes over: elapsed time is counted from the creation.
Escalates(row, t) ==
  /\ row.level < Len(Timeouts)
  /\ t - row.created >= Timeouts[row.level]

\* As if only the time since the creation counted; and the code: the time since
\* the last reminder, or since the creation if there is none.
RemindsSinceCreation(r, row, t) == t - row.created >= ReminderInterval
Reminds(r, row, t) ==
  IF reminders[r] = <<>> THEN t - row.created >= ReminderInterval
  ELSE t - reminders[r][Len(reminders[r])] >= ReminderInterval

\* What the pass has to do for a row.
Task(r, row, t) ==
  CASE Expired(row, t) -> "expire"
    [] ~Expired(row, t) /\ Escalates(row, t) -> "escalate"
    [] ~Expired(row, t) /\ ~Escalates(row, t) /\ Reminds(r, row, t) -> "remind"
    [] OTHER -> "scan"

\* The pass takes the next row, newest first, and sees what to do for it.
Inspect(x) ==
  /\ sweep.phase = "scan"
  /\ x \in sweep.todo
  /\ \A y \in sweep.todo : y[2].created <= x[2].created
  /\ sweep' = [phase |-> Task(x[1], x[2], now), todo |-> sweep.todo \ {x}, item |-> x, at |-> now]
  /\ UNCHANGED <<now, rows, handler, history>>

\* As if only the status column were written.
ExpireStatusOnly ==
  /\ sweep.phase = "expire"
  /\ requests' = [requests EXCEPT ![sweep.item[1]].status = "EXPIRED"]
  /\ sweep' = [sweep EXCEPT !.phase = "scan"]
  /\ UNCHANGED <<now, nonces, reminders, handler, history>>

\* The copy is saved as EXPIRED.
Expire ==
  /\ sweep.phase = "expire"
  /\ requests' = [requests EXCEPT ![sweep.item[1]] = [sweep.item[2] EXCEPT !.status = "EXPIRED"]]
  /\ sweep' = [sweep EXCEPT !.phase = "scan"]
  /\ UNCHANGED <<now, nonces, reminders, handler, history>>

\* The copy is saved with the next level, PENDING as it was when it was listed.
Escalate ==
  LET r == sweep.item[1]
  IN /\ sweep.phase = "escalate"
     /\ requests' = [requests EXCEPT ![r] = [sweep.item[2] EXCEPT !.level = @ + 1]]
     /\ reopened' = [reopened EXCEPT ![r] = IF requests[r].status \in Decisions THEN @ + 1 ELSE @]
     /\ sweep' = [sweep EXCEPT !.phase = "scan"]
     /\ UNCHANGED <<now, nonces, reminders, handler, used, decided>>

Remind ==
  /\ sweep.phase = "remind"
  /\ reminders' = [reminders EXCEPT ![sweep.item[1]] = Append(@, sweep.at)]
  /\ sweep' = [sweep EXCEPT !.phase = "scan"]
  /\ UNCHANGED <<now, requests, nonces, handler, history>>

\* The pass is through, its process dies, or a repository call raises.
EndSweep ==
  /\ sweep.phase # "idle"
  /\ sweep' = NoSweep
  /\ UNCHANGED <<now, rows, handler, history>>

Tick ==
  /\ now < MaxTime
  /\ now' = now + 1
  /\ UNCHANGED <<rows, handler, sweep, history>>

-----------------------------------------------------------------------------
HandlerStep(h) ==
  \/ \E r \in Requests, n \in Nonces, d \in Decisions : ReceiveCallback(h, r, n, d)
  \/ CheckNonce(h) \/ VerifyToken(h) \/ BurnNonce(h) \/ ReadRequest(h) \/ SaveDecision(h)
  \/ CallbackDies(h)

SweepStep ==
  \/ BeginSweep \/ Expire \/ Escalate \/ Remind \/ EndSweep
  \/ \E x \in sweep.todo : Inspect(x)

Next ==
  \/ \E r \in Requests : CreateRequest(r)
  \/ \E h \in Handlers : HandlerStep(h)
  \/ SweepStep
  \/ Tick

Spec == Init /\ [][Next]_vars

-----------------------------------------------------------------------------
\* Replay protection: however often and concurrently a callback is sent, its
\* nonce applies one decision at most.
NonceDecidesOnce == \A n \in Nonces : used[n] <= 1

\* A request is decided again only by callbacks that read it before the first
\* decision was saved, or after an escalation of an old copy reopened it.
DecisionsAreBounded ==
  \A r \in Requests : decided[r] <= Cardinality(Handlers) * (1 + reopened[r])

\* A level is only asked when the time of the levels before it is over.
EscalationWaits ==
  \A r \in Requests :
    requests[r] # None /\ requests[r].level > 1 =>
      now >= requests[r].created + Timeouts[requests[r].level - 1]

\* Status and decision of a row never come from different writers.
StatusMatchesDecision ==
  \A r \in Requests :
    requests[r] # None =>
      requests[r].decision = IF requests[r].status \in Decisions THEN requests[r].status ELSE None

\* The reminders of a request are limited by its lifetime.
RemindersAreBounded ==
  \A r \in Requests : Len(reminders[r]) * ReminderInterval <= Lifetime
=============================================================================
