--------------------------- MODULE DeliveryProofs ---------------------------
(***************************************************************************)
(* Where a reply can go, and what its success says, for any hosts, paths   *)
(* and addresses, and any limit on redirects.                              *)
(***************************************************************************)
EXTENDS Delivery, TLAPS

Fields == {"method", "url", "body", "digest", "sig", "for"}

(* A request carries no signature, or the one SignRequest made for the     *)
(* inbox in its history field, wherever it was redirected since.           *)
SignedFor(r) ==
  \/ r.sig = <<>>
  \/ /\ DOMAIN r.sig = SignedHeaders
     /\ r.sig["(request-target)"] = <<"POST", r.for.path>>
     /\ r.sig["host"] = <<r.for.host>>

(* The inductive invariant: TypeOK, what a redirect leaves of a request,   *)
(* that a POST no server redirected is where it was signed for, and that a *)
(* reply is under way exactly while its status is open.                    *)
DeliveryInv ==
  /\ TypeOK
  /\ DOMAIN req = Fields
  /\ req.url \notin Unsafe
  /\ SignedFor(req)
  /\ phase = "post" /\ hops = 0 => req.method = "POST" /\ req.url = req.for
  /\ status = "running" <=> pc # "idle"
  /\ OnlyPublic
  /\ AcceptedAtInbox
  /\ SuccessExplained

-----------------------------------------------------------------------------
LEMMA GetFields ==
  ASSUME NEW u
  PROVE  /\ DOMAIN Get(u) = Fields
         /\ Get(u).method = "GET" /\ Get(u).url = u /\ Get(u).for = u
         /\ Get(u).body = "" /\ Get(u).digest = "" /\ Get(u).sig = <<>>
BY DEF Get, Fields

LEMMA SignFields ==
  ASSUME NEW u
  PROVE  LET r == SignRequest(u) IN
         /\ DOMAIN r = Fields
         /\ r.method = "POST" /\ r.url = u /\ r.for = u
         /\ r.body = "reply" /\ r.digest = "reply"
         /\ SignedFor(r)
<1> DEFINE s == [Get(u) EXCEPT !.method = "POST", !.body = "reply",
                               !.digest = "reply"]
           g == [h \in SignedHeaders |-> Header(s, h)]
<1>1. /\ DOMAIN s = Fields
      /\ s.method = "POST" /\ s.url = u /\ s.for = u
      /\ s.body = "reply" /\ s.digest = "reply"
  BY GetFields DEF Fields
<1>2. SignRequest(u) = [s EXCEPT !.sig = g]
  BY DEF SignRequest
<1>3. /\ Header(s, "(request-target)") = <<s.method, s.url.path>>
      /\ Header(s, "host") = <<s.url.host>>
  BY DEF Header
<1> HIDE DEF s
<1>4. /\ DOMAIN g = SignedHeaders
      /\ g["(request-target)"] = Header(s, "(request-target)")
      /\ g["host"] = Header(s, "host")
  BY DEF SignedHeaders
<1> HIDE DEF g
<1>5. /\ DOMAIN SignRequest(u) = Fields
      /\ SignRequest(u).method = "POST" /\ SignRequest(u).url = u
      /\ SignRequest(u).for = u /\ SignRequest(u).body = "reply"
      /\ SignRequest(u).digest = "reply" /\ SignRequest(u).sig = g
  BY <1>1, <1>2 DEF Fields
<1> QED
  BY <1>1, <1>3, <1>4, <1>5 DEF SignedFor

(* A redirect changes the URL, and maybe drops method and body.            *)
LEMMA RedirectFields ==
  ASSUME DeliveryInv, NEW u \in URLs, NEW keep \in BOOLEAN, Redirect(u, keep)
  PROVE  /\ DOMAIN req' = Fields
         /\ req'.url = u /\ req'.for = req.for /\ req'.sig = req.sig
         /\ req'.digest = req.digest
         /\ req'.method \in {req.method, "GET"} /\ req'.body \in {req.body, ""}
<1>1. DOMAIN req = Fields
  BY DEF DeliveryInv
<1>2. CASE keep
  <2>1. req' = [req EXCEPT !.url = u]
    BY <1>2 DEF Redirect
  <2> QED
    BY <1>1, <2>1 DEF Fields
<1>3. CASE ~keep
  <2>1. req' = [req EXCEPT !.url = u, !.method = "GET", !.body = ""]
    BY <1>3 DEF Redirect
  <2> QED
    BY <1>1, <2>1 DEF Fields
<1> QED
  BY <1>2, <1>3

(* What Graft takes was signed for where it was taken: request-target and  *)
(* host pin down the URL.                                                  *)
LEMMA TakenWhereSigned ==
  ASSUME DeliveryInv, Acceptable
  PROVE  req.url = req.for
<1>1. req.url \in URLs /\ req.for \in URLs /\ SignedFor(req)
  BY DEF DeliveryInv, TypeOK
<1>2. req.sig # <<>> /\ \A h \in DOMAIN req.sig : req.sig[h] = Header(req, h)
  BY DEF Acceptable, VerifyRequest
<1>3. /\ DOMAIN req.sig = SignedHeaders
      /\ req.sig["(request-target)"] = <<"POST", req.for.path>>
      /\ req.sig["host"] = <<req.for.host>>
  BY <1>1, <1>2 DEF SignedFor
<1>4. /\ Header(req, "(request-target)") = <<req.method, req.url.path>>
      /\ Header(req, "host") = <<req.url.host>>
  BY DEF Header
<1>5. req.url.path = req.for.path /\ req.url.host = req.for.host
  BY <1>2, <1>3, <1>4 DEF SignedHeaders
<1> QED
  BY <1>1, <1>5 DEF URLs

-----------------------------------------------------------------------------
LEMMA InvInit == Init => DeliveryInv
<1> SUFFICES ASSUME Init PROVE DeliveryInv
  OBVIOUS
<1>1. /\ ActorURL \in URLs /\ ActorURL \notin Unsafe /\ 0 \in 0..(MaxRedirects - 1)
  BY DeliveryAssumption
<1>2. /\ DOMAIN req = Fields /\ req.url = ActorURL /\ req.for = ActorURL
      /\ req.method = "GET" /\ req.body = "" /\ req.digest = "" /\ req.sig = <<>>
  BY GetFields DEF Init
<1>3. /\ pc = "idle" /\ phase = "actor" /\ hops = 0 /\ conn = None
      /\ status = "none" /\ serving \in BOOLEAN /\ accepted = {}
  BY DEF Init
<1>4. TypeOK
  BY <1>1, <1>2, <1>3 DEF TypeOK, Digests
<1> QED
  BY <1>1, <1>2, <1>3, <1>4
  DEF DeliveryInv, SignedFor, OnlyPublic, AcceptedAtInbox, SuccessExplained

(* Once a request is sent out, or given up, it is as it was.               *)
LEMMA RequestKept ==
  ASSUME DeliveryInv, UNCHANGED <<req, phase, hops>>
  PROVE  /\ DOMAIN req' = Fields /\ req'.url \notin Unsafe /\ SignedFor(req')
         /\ req'.method \in {"GET", "POST"} /\ req'.url \in URLs
         /\ req'.for \in URLs /\ req'.body \in Digests /\ req'.digest \in Digests
         /\ phase' = "post" /\ hops' = 0 => req'.method = "POST" /\ req'.url = req'.for
BY DEF DeliveryInv, TypeOK

LEMMA InvStep == DeliveryInv /\ [Next]_vars => DeliveryInv'
<1> SUFFICES ASSUME DeliveryInv, [Next]_vars PROVE DeliveryInv'
  OBVIOUS
<1> USE DEF SignedFor
<1>a. 0 \in 0..(MaxRedirects - 1) /\ ActorURL \in URLs \ Unsafe
  BY DeliveryAssumption
<1>1. CASE ReplyToIssue
  <2>1. /\ pc' = "dial" /\ phase' = "actor" /\ hops' = 0 /\ conn' = None
        /\ status' = "running" /\ accepted' \subseteq accepted
        /\ UNCHANGED serving /\ req' = Get(ActorURL)
    BY <1>1 DEF ReplyToIssue, Send
  <2>2. /\ DOMAIN req' = Fields /\ req'.url = ActorURL /\ req'.for = ActorURL
        /\ req'.method = "GET" /\ req'.body = "" /\ req'.digest = ""
        /\ req'.sig = <<>>
    BY <2>1, GetFields
  <2>3. TypeOK'
    BY <1>a, <2>1, <2>2 DEF DeliveryInv, TypeOK, Digests
  <2> QED
    BY <1>a, <2>1, <2>2, <2>3
    DEF DeliveryInv, OnlyPublic, AcceptedAtInbox, SuccessExplained
<1>2. CASE Dial
  <2>1. /\ pc = "dial" /\ pc' = "sent" /\ conn' \in Public
        /\ UNCHANGED <<phase, req, hops, status, serving, accepted>>
    BY <1>2 DEF Dial
  <2>2. TypeOK'
    BY <2>1, DeliveryAssumption DEF DeliveryInv, TypeOK
  <2> QED
    BY <2>1, <2>2 DEF DeliveryInv, OnlyPublic, AcceptedAtInbox, SuccessExplained
<1>3. ASSUME NEW u \in URLs, NEW keep \in BOOLEAN, Redirect(u, keep)
      PROVE  DeliveryInv'
  <2>1. /\ pc = "sent" /\ pc' = "dial" /\ u \notin Unsafe /\ conn' = None
        /\ hops + 1 < MaxRedirects /\ hops' = hops + 1
        /\ UNCHANGED <<phase, status, serving, accepted>>
    BY <1>3 DEF Redirect
  <2>2. /\ DOMAIN req' = Fields
        /\ req'.url = u /\ req'.for = req.for /\ req'.sig = req.sig
        /\ req'.digest = req.digest
        /\ req'.method \in {req.method, "GET"} /\ req'.body \in {req.body, ""}
    BY <1>3, RedirectFields
  <2>3. hops' \in 0..(MaxRedirects - 1)
    BY <2>1, DeliveryAssumption DEF DeliveryInv, TypeOK
  <2>4. TypeOK'
    BY <2>1, <2>2, <2>3 DEF DeliveryInv, TypeOK, Digests
  <2>5. status' = "running"
    BY <2>1 DEF DeliveryInv
  <2>6. hops' # 0
    BY <2>1 DEF DeliveryInv, TypeOK
  <2> QED
    BY <2>1, <2>2, <2>4, <2>5, <2>6
    DEF DeliveryInv, OnlyPublic, AcceptedAtInbox, SuccessExplained
<1>4. ASSUME NEW u \in URLs, ActorRead(u) PROVE DeliveryInv'
  <2>1. /\ pc = "sent" /\ pc' = "dial" /\ phase' = "post" /\ u \notin Unsafe
        /\ hops' = 0 /\ conn' = None /\ req' = SignRequest(u)
        /\ UNCHANGED <<status, serving, accepted>>
    BY <1>4 DEF ActorRead, Send
  <2>2. /\ DOMAIN req' = Fields /\ req'.method = "POST" /\ req'.url = u
        /\ req'.for = u /\ req'.body = "reply" /\ req'.digest = "reply"
        /\ SignedFor(req')
    BY <2>1, SignFields
  <2>3. TypeOK'
    BY <1>a, <2>1, <2>2 DEF DeliveryInv, TypeOK, Digests
  <2>4. status' = "running"
    BY <2>1 DEF DeliveryInv
  <2> QED
    BY <2>1, <2>2, <2>3, <2>4
    DEF DeliveryInv, OnlyPublic, AcceptedAtInbox, SuccessExplained
<1>5. ASSUME NEW s \in {"ok", "error"}, Accept(s) PROVE DeliveryInv'
  <2>1. /\ pc' = "idle" /\ status' = s
        /\ UNCHANGED <<phase, req, hops, conn, serving>>
        /\ accepted' = accepted \cup {[for |-> req.for, at |-> req.url]}
    BY <1>5 DEF Accept, Return
  <2>2. req.url = req.for
    BY <1>5, TakenWhereSigned DEF Accept
  <2>3. TypeOK'
    BY <2>1 DEF DeliveryInv, TypeOK
  <2>4. AcceptedAtInbox'
    BY <2>1, <2>2 DEF DeliveryInv, AcceptedAtInbox
  <2>5. [for |-> req'.for, at |-> req'.for] \in accepted'
    BY <2>1, <2>2
  <2> QED
    BY <2>1, <2>3, <2>4, <2>5, RequestKept
    DEF DeliveryInv, OnlyPublic, SuccessExplained
<1>6. CASE PageServed \/ Fails
  <2>1. /\ pc' = "idle" /\ status' \in {"ok", "error"}
        /\ status' = "ok" =>
             phase = "post" /\ (req.method = "GET" \/ req.url \notin Inboxes)
        /\ UNCHANGED <<phase, req, hops, conn, serving, accepted>>
    BY <1>6 DEF PageServed, Fails, Return
  <2>2. TypeOK'
    BY <2>1 DEF DeliveryInv, TypeOK
  <2>3. SuccessExplained'
    <3> SUFFICES ASSUME status' = "ok", req.for \in Inboxes, hops = 0
                 PROVE  FALSE
      BY <2>1 DEF DeliveryInv, TypeOK, SuccessExplained
    <3> QED
      BY <2>1 DEF DeliveryInv
  <2> QED
    BY <2>1, <2>2, <2>3, RequestKept DEF DeliveryInv, OnlyPublic, AcceptedAtInbox
<1>7. CASE Listen
  <2>1. /\ serving' = TRUE
        /\ UNCHANGED <<pc, phase, req, hops, conn, status, accepted>>
    BY <1>7 DEF Listen
  <2>2. TypeOK'
    BY <2>1 DEF DeliveryInv, TypeOK
  <2> QED
    BY <2>1, <2>2 DEF DeliveryInv, OnlyPublic, AcceptedAtInbox, SuccessExplained
<1>8. CASE UNCHANGED vars
  BY <1>8 DEF vars, DeliveryInv, TypeOK, OnlyPublic, AcceptedAtInbox, SuccessExplained
<1> QED
  BY <1>1, <1>2, <1>3, <1>4, <1>5, <1>6, <1>7, <1>8 DEF Next, Accepted, AnswerLost

LEMMA InvHolds == Spec => []DeliveryInv
BY InvInit, InvStep, PTL DEF Spec

-----------------------------------------------------------------------------
(* Every request keeps its form through any chain of redirects, and no     *)
(* chain is longer than CheckRedirect allows (netguard.go:81-94).        *)
THEOREM DeliveryTyped == Spec => []TypeOK
<1>1. DeliveryInv => TypeOK
  BY DEF DeliveryInv
<1> QED
  BY <1>1, InvHolds, PTL

(* Whatever names resolve to and wherever documents and redirects point,   *)
(* every request goes to a public address and a validated URL              *)
(* (netguard.go:81-127, client.go:112-116).                                *)
THEOREM DialsOnlyPublic == Spec => []OnlyPublic
<1>1. DeliveryInv => OnlyPublic
  BY DEF DeliveryInv
<1> QED
  BY <1>1, InvHolds, PTL

(* No reply is taken at an inbox other than the one it was signed for      *)
(* (sign.go:28-39), since the signature covers host and request-target.    *)
THEOREM TakenAtItsInbox == Spec => []AcceptedAtInbox
<1>1. DeliveryInv => AcceptedAtInbox
  BY DEF DeliveryInv
<1> QED
  BY <1>1, InvHolds, PTL

(* Where the actor names a Graft inbox, success without the reply in it    *)
(* takes a redirect that drops the method or leads off the inboxes: the    *)
(* signature keeps another inbox from taking it (client.go:167-188,        *)
(* sign.go:28-39).                                                         *)
THEOREM SuccessMeansTaken == Spec => []SuccessExplained
<1>1. DeliveryInv => SuccessExplained
  BY DEF DeliveryInv
<1> QED
  BY <1>1, InvHolds, PTL
=============================================================================
