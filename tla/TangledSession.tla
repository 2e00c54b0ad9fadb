--------------------------- MODULE TangledSession ---------------------------
(***************************************************************************)
(* The session of the Tangled client (internal/tangled/client.go): every   *)
(* request that carries the account's access token goes through            *)
(* ensureFreshSession before and one re-login and retry after an           *)
(* ExpiredToken answer.  CreateIssue is one write; CreateRepo mints a      *)
(* service token, creates the repo on the knot with it and announces it.   *)
(* The PDS may drop a token at any time, and the clock by which the client *)
(* tells its age may stand still while the machine sleeps.                 *)
(***************************************************************************)
EXTENDS Naturals, Sequences

CONSTANT MaxEvents   \* bound: how often each kind of event may happen

(* Requests of each operation.  "service" mints a token and writes         *)
(* nothing; "knot" is authorised by that token, not by the session.        *)
Requests == [createIssue |-> <<"record">>,
             createRepo  |-> <<"service", "knot", "record">>]

Plan == [createIssue |-> <<"record">>, createRepo |-> <<"knot", "record">>]

(*   expired  the PDS stops to honour the access token                     *)
(*   aged     the token gets older than sessionMaxAge by its clock          *)
(*   died     the process dies and a new one starts                        *)
Events == {"expired", "aged", "died"}

ASSUME EventsAssumption == MaxEvents \in Nat

VARIABLES
  pc,       \* where the client stands, "start" before the first login
  op,       \* the operation that runs or ran last
  k,        \* its request at hand
  done,     \* history: the writes it made
  status,   \* "running", or how it ended
  token,    \* accessJwt: "none", "live", or "expired" to the PDS
  old,      \* is time.Since(loggedInAt) > sessionMaxAge?
  logins,   \* history: sessions the client got
  events    \* history: how often each kind of event happened

callVars == <<op, k, done, status>>
sessionVars == <<token, old, logins>>
vars == <<pc, callVars, sessionVars, events>>

Init ==
  /\ pc = "start"
  /\ op \in DOMAIN Plan /\ k = 1 /\ done = <<>> /\ status = "error"
  /\ token = "none" /\ old = FALSE /\ logins = 0
  /\ events = [e \in Events |-> 0]

Happens(e) ==
  /\ events[e] < MaxEvents
  /\ events' = [events EXCEPT ![e] = @ + 1]

-----------------------------------------------------------------------------
(* Logging in *)

(* Mutant of doLogin: loggedInAt is only set at start-up.                  *)
doLoginKeepsAge ==
  /\ token' = "live"
  /\ old' = (old /\ pc # "start")
  /\ logins' = logins + 1

(* createSession succeeds.  A login that fails leaves the session as it    *)
(* was, also when the answer was lost or has no token.                     *)
doLogin ==
  /\ token' = "live"
  /\ old' = FALSE
  /\ logins' = logins + 1

(* main exits when the first login fails, and is started again.            *)
Login ==
  /\ pc = "start"
  /\ doLogin
  /\ pc' = "idle"
  /\ UNCHANGED <<callVars, events>>

Stale == token = "none" \/ old

ensureFreshSession ==
  /\ pc = "fresh"
  /\ IF Stale THEN doLogin ELSE UNCHANGED sessionVars
  /\ pc' = "send"
  /\ UNCHANGED <<callVars, events>>

-----------------------------------------------------------------------------
(* One operation *)

Request == Requests[op][k]
Entry(o, n) == IF Requests[o][n] = "knot" THEN "send" ELSE "fresh"

Call(o) ==
  /\ pc = "idle"
  /\ op' = o /\ k' = 1 /\ done' = <<>> /\ status' = "running"
  /\ pc' = Entry(o, 1)
  /\ UNCHANGED <<sessionVars, events>>

Return(s) ==
  /\ status' = s
  /\ pc' = "idle"
  /\ UNCHANGED <<op, k>>

(* A request reaches a service that honours it and does what it asks.      *)
Served ==
  /\ pc \in {"send", "retry"}
  /\ Request # "knot" => token = "live"
  /\ done' = IF Request = "service" THEN done ELSE Append(done, Request)

(* Mutant of Succeeds: CreateRepo returns what the knot answered.          *)
SucceedsUnannounced ==
  /\ Served
  /\ IF Request # "service"
     THEN Return("ok")
     ELSE k' = k + 1 /\ pc' = Entry(op, k + 1) /\ UNCHANGED <<op, status>>
  /\ UNCHANGED <<sessionVars, events>>

Succeeds ==
  /\ Served
  /\ IF k = Len(Requests[op])
     THEN Return("ok")
     ELSE /\ k' = k + 1
          /\ pc' = Entry(op, k + 1)
          /\ UNCHANGED <<op, status>>
  /\ UNCHANGED <<sessionVars, events>>

(* Mutant of AnswerLost: whatever goes wrong, the request is retried once. *)
AnswerLostRetried ==
  /\ Served
  /\ IF pc = "send" THEN pc' = "retry" /\ UNCHANGED <<op, k, status>>
                    ELSE Return("error")
  /\ UNCHANGED <<sessionVars, events>>

(* The answer is lost, has no repoDid or does not decode.                  *)
AnswerLost ==
  /\ Served
  /\ Return("error")
  /\ UNCHANGED <<sessionVars, events>>

(* Mutant of SaysExpired: the client as it was, with no second login.      *)
SaysExpiredReturned ==
  /\ pc \in {"send", "retry"}
  /\ Request # "knot" /\ token = "expired"
  /\ Return("error")
  /\ UNCHANGED <<done, sessionVars, events>>

(* The PDS answers ExpiredToken, once answered by a new login.             *)
SaysExpired ==
  /\ pc \in {"send", "retry"}
  /\ Request # "knot" /\ token = "expired"
  /\ IF pc = "send" THEN pc' = "relogin" /\ UNCHANGED <<op, k, status>>
                    ELSE Return("error")
  /\ UNCHANGED <<done, sessionVars, events>>

Relogin ==
  /\ pc = "relogin"
  /\ doLogin
  /\ pc' = "retry"
  /\ UNCHANGED <<callVars, events>>

(* A request, or a login on its behalf, fails without any effect.          *)
Refused ==
  /\ pc \in {"send", "retry", "relogin", "fresh"}
  /\ pc = "fresh" => Stale
  /\ Return("error")
  /\ UNCHANGED <<done, sessionVars, events>>

-----------------------------------------------------------------------------
Expire ==
  /\ token = "live"
  /\ Happens("expired")
  /\ token' = "expired"
  /\ UNCHANGED <<pc, callVars, old, logins>>

Age ==
  /\ token # "none" /\ ~old
  /\ Happens("aged")
  /\ old' = TRUE
  /\ UNCHANGED <<pc, callVars, token, logins>>

Die ==
  /\ pc # "start"
  /\ Happens("died")
  /\ pc' = "start"
  /\ status' = IF status = "running" THEN "error" ELSE status
  /\ token' = "none" /\ old' = FALSE
  /\ UNCHANGED <<op, k, done, logins>>

Next ==
  \/ Login
  \/ \E o \in DOMAIN Plan : Call(o)
  \/ ensureFreshSession \/ Succeeds \/ AnswerLost \/ SaysExpired \/ Relogin
  \/ Refused
  \/ Expire \/ Age \/ Die

Spec == Init /\ [][Next]_vars

(***************************************************************************)
(* The process is restarted and goes on asking; a service that is asked    *)
(* the same again and again answers again and again.  Nothing is assumed   *)
(* of the client's clock.                                                  *)
(***************************************************************************)
Fairness ==
  /\ WF_vars(\E o \in DOMAIN Plan : Call(o))
  /\ SF_vars(Login) /\ SF_vars(ensureFreshSession) /\ SF_vars(Relogin)
  /\ SF_vars(SaysExpired)
  /\ \A o \in DOMAIN Plan : \A n \in 1..Len(Requests[o]) :
       SF_vars(op = o /\ k = n /\ Succeeds)

FairSpec == Spec /\ Fairness

-----------------------------------------------------------------------------
(* What the requests before the n-th of an operation have written.         *)
Written(n) == IF n = 3 THEN <<"knot">> ELSE <<>>

(* Types of the client's state; while an operation runs, it has made the   *)
(* writes of the requests before the one at hand and no other, and a       *)
(* request is only sent by a client that has logged in.                    *)
TypeOK ==
  /\ pc \in {"start", "idle", "fresh", "send", "relogin", "retry"}
  /\ op \in DOMAIN Plan /\ k \in 1..Len(Requests[op])
  /\ status \in {"running", "ok", "error"}
  /\ token \in {"none", "live", "expired"} /\ old \in BOOLEAN
  /\ logins \in Nat /\ events \in [Events -> Nat]
  /\ status = "running" <=> pc \notin {"start", "idle"}
  /\ status = "running" => done = Written(k)
  /\ status = "ok" => done = Plan[op]
  /\ token = "none" <=> pc = "start"

Remote == INSTANCE RemoteCall

(* The re-login and the retry are invisible to the bridge: a write is      *)
(* never made twice by one call, whatever expires or gets lost while it    *)
(* runs, and success is reported for all writes or not at all              *)
(* (client.go:178-193, 219-269).                                           *)
WritesOnce == Remote!Spec

(* The client logs in again only when it has to: once per process, per     *)
(* token the PDS dropped and per session that got old (client.go:107-117). *)
LoginsPaidFor ==
  logins <= 1 + events["died"] + events["expired"] + events["aged"]

(* Writes do not fail for ever after a token expired, even if the client's *)
(* clock never tells it so (client.go:41-51).                              *)
SessionRecovers == []<>(status = "ok")
=============================================================================
