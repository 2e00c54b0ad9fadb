---------------------------- MODULE SessionProofs ----------------------------
(***************************************************************************)
(* TangledSession implements RemoteCall, for any number of expiries, old   *)
(* sessions and deaths.  The invariant is TypeOK itself, which ties the    *)
(* writes made so far to the request at hand.                              *)
(***************************************************************************)
EXTENDS TangledSession, SequenceTheorems, TLAPS

-----------------------------------------------------------------------------
(* The operations and their requests, spelled out.                         *)
LEMMA Operations ==
  /\ DOMAIN Plan = {"createIssue", "createRepo"}
  /\ Plan["createIssue"] = <<"record">>
  /\ Plan["createRepo"] = <<"knot", "record">>
  /\ Requests["createIssue"] = <<"record">>
  /\ Requests["createRepo"] = <<"service", "knot", "record">>
  /\ Len(Requests["createIssue"]) = 1
  /\ Len(Requests["createRepo"]) = 3
BY DEF Plan, Requests

(* The writes of CreateRepo, one after the other.                          *)
LEMMA SecondWrite == Append(<<"knot">>, "record") = <<"knot", "record">>
<1> DEFINE s == Append(<<"knot">>, "record")
           t == <<"knot", "record">>
<1>1. <<"knot">> \in Seq({"knot", "record"}) /\ Len(<<"knot">>) = 1 /\ <<"knot">>[1] = "knot"
  OBVIOUS
<1>2. t \in Seq({"knot", "record"}) /\ Len(t) = 2 /\ t[1] = "knot" /\ t[2] = "record"
  OBVIOUS
<1>3. s \in Seq({"knot", "record"}) /\ Len(s) = 2 /\ s[1] = "knot" /\ s[2] = "record"
  BY <1>1, AppendProperties
<1> HIDE DEF s, t
<1>4. \A i \in 1..Len(s) : s[i] = t[i]
  BY <1>2, <1>3
<1>5. s = t
  BY <1>2, <1>3, <1>4, SeqEqual
<1> QED
  BY <1>5 DEF s, t

(* What a request that is served leaves in done.                           *)
LEMMA ServedWrites ==
  ASSUME TypeOK, Served
  PROVE  /\ status = "running"
         /\ k < Len(Requests[op]) => /\ k + 1 \in 1..Len(Requests[op])
                                     /\ done' = Written(k + 1)
         /\ k = Len(Requests[op]) => done' = Plan[op]
         /\ done' = done \/ Remote!Write
<1>1. status = "running" /\ done = Written(k)
  BY DEF TypeOK, Served
<1>2. op \in {"createIssue", "createRepo"} /\ k \in 1..Len(Requests[op])
  BY Operations DEF TypeOK
<1>3. CASE op = "createIssue"
  <2>1. k = 1 /\ Request = "record" /\ done = <<>>
    BY <1>1, <1>2, <1>3, Operations DEF Request, Written
  <2>2. done' = <<"record">>
    BY <2>1 DEF Served
  <2> QED
    BY <1>1, <1>3, <2>1, <2>2, Operations DEF Remote!Write
<1>4. CASE op = "createRepo" /\ k = 1
  <2>1. Request = "service" /\ done = <<>>
    BY <1>1, <1>4, Operations DEF Request, Written
  <2> QED
    BY <1>1, <1>4, <2>1, Operations DEF Served, Written
<1>5. CASE op = "createRepo" /\ k = 2
  <2>1. Request = "knot" /\ done = <<>>
    BY <1>1, <1>5, Operations DEF Request, Written
  <2>2. done' = <<"knot">>
    BY <2>1 DEF Served
  <2> QED
    BY <1>1, <1>5, <2>1, <2>2, Operations DEF Written, Remote!Write
<1>6. CASE op = "createRepo" /\ k = 3
  <2>1. Request = "record" /\ done = <<"knot">>
    BY <1>1, <1>6, Operations DEF Request, Written
  <2>2. done' = Append(<<"knot">>, "record")
    BY <2>1 DEF Served
  <2>3. Len(<<"knot">>) = 1 /\ Len(<<"knot", "record">>) = 2
    OBVIOUS
  <2> QED
    BY <1>1, <1>6, <2>1, <2>2, <2>3, SecondWrite, Operations DEF Remote!Write
<1>7. op = "createIssue" \/ (op = "createRepo" /\ k \in {1, 2, 3})
  <2>1. op = "createRepo" => k \in 1..3
    BY <1>2, Operations
  <2>2. 1..3 = {1, 2, 3}
    OBVIOUS
  <2>3. op = "createIssue" \/ op = "createRepo"
    BY <1>2
  <2> QED
    BY <2>1, <2>2, <2>3
<1> QED
  BY <1>3, <1>4, <1>5, <1>6, <1>7

-----------------------------------------------------------------------------
LEMMA TypeInit == Init => TypeOK
<1> SUFFICES ASSUME Init PROVE TypeOK
  OBVIOUS
<1>1. /\ pc = "start" /\ op \in DOMAIN Plan /\ k = 1 /\ done = <<>>
      /\ status = "error" /\ token = "none" /\ old \in BOOLEAN /\ logins = 0
      /\ events \in [Events -> Nat]
  BY DEF Init
<1>2. Len(Requests[op]) \in {1, 3}
  BY <1>1, Operations
<1>3. 1 \in 1..Len(Requests[op])
  BY <1>2
<1> QED
  BY <1>1, <1>3 DEF TypeOK

(* A login, by whichever step.                                             *)
LEMMA LoginType ==
  ASSUME TypeOK, doLogin
  PROVE  token' = "live" /\ old' \in BOOLEAN /\ logins' \in Nat
<1>1. token' = "live" /\ logins' \in Nat
  BY DEF doLogin, TypeOK
<1>2. old' \in BOOLEAN
  BY Zenon DEF doLogin
<1> QED
  BY <1>1, <1>2

LEMMA EntryType == \A o, n : Entry(o, n) \in {"send", "fresh"}
BY DEF Entry

LEMMA TypeStep == TypeOK /\ [Next]_vars => TypeOK'
<1> SUFFICES ASSUME TypeOK, [Next]_vars PROVE TypeOK'
  OBVIOUS
<1> USE DEF callVars, sessionVars
<1>1. CASE Login
  <2>1. pc' = "idle" /\ UNCHANGED <<callVars, events>> /\ pc = "start"
    BY <1>1 DEF Login
  <2>2. token' = "live" /\ old' \in BOOLEAN /\ logins' \in Nat
    BY <1>1, LoginType DEF Login
  <2> QED
    BY <2>1, <2>2 DEF TypeOK
<1>2. ASSUME NEW o \in DOMAIN Plan, Call(o) PROVE TypeOK'
  <2>1. /\ op' = o /\ k' = 1 /\ done' = <<>> /\ status' = "running"
        /\ pc = "idle" /\ pc' \in {"send", "fresh"}
        /\ UNCHANGED <<sessionVars, events>>
    BY <1>2, EntryType DEF Call
  <2>2. 1 \in 1..Len(Requests[o]) /\ Written(1) = <<>>
    BY Operations DEF Written
  <2> QED
    BY <2>1, <2>2 DEF TypeOK
<1>3. CASE ensureFreshSession
  <2>1. pc' = "send" /\ UNCHANGED <<callVars, events>> /\ pc = "fresh"
    BY <1>3 DEF ensureFreshSession
  <2>2. \/ token' = "live" /\ old' \in BOOLEAN /\ logins' \in Nat
        \/ UNCHANGED sessionVars
    BY <1>3, LoginType DEF ensureFreshSession
  <2> QED
    BY <2>1, <2>2 DEF TypeOK
<1>4. CASE Succeeds
  <2>1. CASE k = Len(Requests[op])
    BY <1>4, <2>1, ServedWrites DEF Succeeds, Served, Return, TypeOK
  <2>2. CASE k # Len(Requests[op])
    <3>1. k < Len(Requests[op])
      BY <2>2, Operations DEF TypeOK
    <3> QED
      BY <1>4, <2>2, <3>1, ServedWrites, EntryType DEF Succeeds, Served, TypeOK
  <2> QED
    BY <2>1, <2>2
<1>5. CASE AnswerLost
  BY <1>5 DEF AnswerLost, Served, Return, TypeOK
<1>6. CASE SaysExpired
  BY <1>6 DEF SaysExpired, Return, TypeOK
<1>7. CASE Relogin
  <2>1. pc' = "retry" /\ UNCHANGED <<callVars, events>> /\ pc = "relogin"
    BY <1>7 DEF Relogin
  <2>2. token' = "live" /\ old' \in BOOLEAN /\ logins' \in Nat
    BY <1>7, LoginType DEF Relogin
  <2> QED
    BY <2>1, <2>2 DEF TypeOK
<1>8. CASE Refused
  BY <1>8 DEF Refused, Return, TypeOK
<1>9. CASE Expire
  BY <1>9 DEF Expire, Happens, TypeOK, Events
<1>10. CASE Age
  BY <1>10 DEF Age, Happens, TypeOK, Events
<1>11. CASE Die
  <2>1. /\ pc' = "start" /\ token' = "none" /\ old' \in BOOLEAN
        /\ status' = IF status = "running" THEN "error" ELSE status
        /\ UNCHANGED <<op, k, done, logins>>
    BY <1>11 DEF Die
  <2>2. events' \in [Events -> Nat]
    BY <1>11 DEF Die, Happens, TypeOK, Events
  <2> QED
    BY <2>1, <2>2 DEF TypeOK
<1>12. CASE UNCHANGED vars
  BY <1>12 DEF vars, TypeOK
<1> QED
  BY <1>1, <1>2, <1>3, <1>4, <1>5, <1>6, <1>7, <1>8, <1>9, <1>10, <1>11,
     <1>12 DEF Next

(* The client's state is well typed, and while an operation runs, it has   *)
(* made the writes of the requests before the one at hand and no other     *)
(* (client.go:178-269).                                                    *)
THEOREM SessionTyped == Spec => []TypeOK
BY TypeInit, TypeStep, PTL DEF Spec

-----------------------------------------------------------------------------
(* Every step of the client is one of the abstract operation, or none.     *)
LEMMA StepMaps == TypeOK /\ [Next]_vars => [Remote!Next]_(Remote!vars)
<1> SUFFICES ASSUME TypeOK, [Next]_vars PROVE [Remote!Next]_(Remote!vars)
  OBVIOUS
<1> USE DEF callVars, sessionVars, Remote!vars
<1>1. CASE Login \/ ensureFreshSession \/ Relogin \/ Expire \/ Age
  BY <1>1 DEF Login, ensureFreshSession, Relogin, Expire, Age
<1>2. ASSUME NEW o \in DOMAIN Plan, Call(o) PROVE Remote!Next
  BY <1>2 DEF Call, TypeOK, Remote!Next, Remote!Call
<1>3. CASE Succeeds
  <2>1. CASE k = Len(Requests[op])
    BY <1>3, <2>1, ServedWrites DEF Succeeds, Return, Remote!Next, Remote!Work
  <2>2. CASE k # Len(Requests[op])
    BY <1>3, <2>2, ServedWrites DEF Succeeds, Remote!Next, Remote!Work
  <2> QED
    BY <2>1, <2>2
<1>4. CASE AnswerLost
  BY <1>4, ServedWrites DEF AnswerLost, Return, Remote!Next, Remote!Work
<1>5. CASE SaysExpired \/ Refused
  BY <1>5 DEF SaysExpired, Refused, Return, TypeOK, Remote!Next, Remote!Work
<1>6. CASE Die
  BY <1>6 DEF Die, TypeOK, Remote!Next, Remote!Work
<1>7. CASE UNCHANGED vars
  BY <1>7 DEF vars
<1> QED
  BY <1>1, <1>2, <1>3, <1>4, <1>5, <1>6, <1>7 DEF Next

(* Whatever expires, gets lost or dies, an operation of the client makes   *)
(* its writes in order, each at most once, and reports success only if it  *)
(* made all: TangledSession implements RemoteCall.                         *)
THEOREM WritesMadeOnce == Spec => WritesOnce
<1>1. Init => Remote!Init
  BY DEF Init, Remote!Init
<1> QED
  BY <1>1, SessionTyped, StepMaps, PTL DEF Spec, WritesOnce, Remote!Spec

-----------------------------------------------------------------------------
(* Reasons to log in that no login has answered yet.  Whatever happens     *)
(* adds at most one, and the client logs in only for one.                  *)
Reasons == (IF token # "live" THEN 1 ELSE 0) + (IF old THEN 1 ELSE 0)
Happened == events["died"] + events["expired"] + events["aged"]

LoginInv ==
  /\ logins + Reasons <= 1 + Happened
  /\ pc = "relogin" => token # "live"

LEMMA LoginInit == Init => LoginInv
BY DEF Init, LoginInv, Reasons, Happened, Events

(* The counters are numbers.                                               *)
LEMMA Counters ==
  ASSUME TypeOK
  PROVE  /\ logins \in Nat /\ events["died"] \in Nat
         /\ events["expired"] \in Nat /\ events["aged"] \in Nat
BY DEF TypeOK, Events

(* A login with a reason answers all of them at once.                      *)
LEMMA LoginPays ==
  ASSUME TypeOK, LoginInv, doLogin, UNCHANGED events, token # "live" \/ old
  PROVE  logins' + Reasons' <= 1 + Happened'
<1>1. Reasons' = 0
  BY DEF doLogin, Reasons
<1>2. Reasons \in {1, 2}
  BY DEF Reasons
<1>3. logins' = logins + 1 /\ Happened' = Happened
  BY DEF doLogin, Happened
<1>4. logins \in Nat /\ Happened \in Nat
  BY Counters DEF Happened
<1> QED
  BY <1>1, <1>2, <1>3, <1>4 DEF LoginInv

LEMMA LoginStep == TypeOK /\ LoginInv /\ [Next]_vars => LoginInv'
<1> SUFFICES ASSUME TypeOK, LoginInv, [Next]_vars PROVE LoginInv'
  OBVIOUS
<1>a. Reasons \in 0..2 /\ Happened \in Nat /\ logins \in Nat
  BY Counters DEF Reasons, Happened
<1>1. CASE Login
  <2>1. token # "live" /\ doLogin /\ UNCHANGED events /\ pc' = "idle"
    BY <1>1 DEF Login, TypeOK
  <2> QED
    BY <2>1, LoginPays DEF LoginInv
<1>2. CASE ensureFreshSession
  <2>1. pc' = "send" /\ pc = "fresh" /\ UNCHANGED events
    BY <1>2 DEF ensureFreshSession
  <2>2. CASE Stale
    <3>1. old /\ doLogin
      BY <1>2, <2>1, <2>2 DEF ensureFreshSession, Stale, TypeOK
    <3> QED
      BY <2>1, <3>1, LoginPays DEF LoginInv
  <2>3. CASE ~Stale
    <3>1. UNCHANGED <<token, old, logins>>
      BY <1>2, <2>3 DEF ensureFreshSession, sessionVars
    <3> QED
      BY <2>1, <3>1 DEF LoginInv, Reasons, Happened
  <2> QED
    BY <2>2, <2>3
<1>3. CASE Relogin
  <2>1. token # "live" /\ doLogin /\ UNCHANGED events /\ pc' = "retry"
    BY <1>3 DEF Relogin, LoginInv
  <2> QED
    BY <2>1, LoginPays DEF LoginInv
<1>4. CASE SaysExpired
  BY <1>4 DEF SaysExpired, Return, sessionVars, LoginInv, Reasons, Happened
<1>5. ASSUME UNCHANGED <<token, old, logins, events>>, pc' # "relogin" \/ pc' = pc
      PROVE LoginInv'
  BY <1>5 DEF LoginInv, Reasons, Happened
<1>6. CASE \/ \E o \in DOMAIN Plan : Call(o)
           \/ Succeeds \/ AnswerLost \/ Refused \/ UNCHANGED vars
  <2>1. UNCHANGED <<token, old, logins, events>>
    BY <1>6 DEF Call, Succeeds, AnswerLost, Refused, sessionVars, vars
  <2>2. pc' # "relogin" \/ pc' = pc
    BY <1>6 DEF Call, Entry, Succeeds, AnswerLost, Refused, Return, vars
  <2> QED
    BY <1>5, <2>1, <2>2
<1>7. CASE Expire
  <2>1. /\ token = "live" /\ token' = "expired" /\ UNCHANGED <<old, logins>>
        /\ events' = [events EXCEPT !["expired"] = @ + 1]
    BY <1>7 DEF Expire, Happens
  <2>2. Reasons' = Reasons + 1
    BY <2>1 DEF Reasons
  <2>3. Happened' = Happened + 1
    BY <2>1, Counters DEF Happened, TypeOK, Events
  <2> QED
    BY <1>a, <2>1, <2>2, <2>3 DEF LoginInv
<1>8. CASE Age
  <2>1. /\ ~old /\ old' = TRUE /\ UNCHANGED <<pc, token, logins>>
        /\ events' = [events EXCEPT !["aged"] = @ + 1]
    BY <1>8 DEF Age, Happens
  <2>2. Reasons' = Reasons + 1
    BY <2>1 DEF Reasons
  <2>3. Happened' = Happened + 1
    BY <2>1, Counters DEF Happened, TypeOK, Events
  <2> QED
    BY <1>a, <2>1, <2>2, <2>3 DEF LoginInv
<1>9. CASE Die
  <2>1. /\ token' = "none" /\ old' = FALSE /\ pc' = "start" /\ UNCHANGED logins
        /\ events' = [events EXCEPT !["died"] = @ + 1]
    BY <1>9 DEF Die, Happens
  <2>2. Reasons' = 1
    BY <2>1 DEF Reasons
  <2>3. Happened' = Happened + 1
    BY <2>1, Counters DEF Happened, TypeOK, Events
  <2> QED
    BY <1>a, <2>1, <2>2, <2>3 DEF LoginInv
<1> QED
  BY <1>1, <1>2, <1>3, <1>4, <1>6, <1>7, <1>8, <1>9 DEF Next

(* The client logs in once per process and once more for each expired or   *)
(* old session, however often they come (client.go:107-117, 181-193).      *)
THEOREM LoginsHaveReasons == Spec => []LoginsPaidFor
<1>1. TypeOK /\ LoginInv => LoginsPaidFor
  <2> SUFFICES ASSUME TypeOK, LoginInv PROVE LoginsPaidFor
    OBVIOUS
  <2>1. Reasons \in 0..2
    BY DEF Reasons
  <2> QED
    BY <2>1, Counters DEF LoginInv, Happened, LoginsPaidFor
<1> QED
  BY <1>1, LoginInit, LoginStep, SessionTyped, PTL DEF Spec
=============================================================================
