------------------------------ MODULE Delivery ------------------------------
(***************************************************************************)
(* One reply on its way to Graft: ReplyToIssue (internal/graft/client.go)  *)
(* fetches the series' actor, signs a POST to its inbox                    *)
(* (internal/ap/sign.go) and sends it through the guarded HTTP client      *)
(* (internal/netguard), while the actor server that Graft fetches the      *)
(* public key from comes up beside it (cmd/bridge/main.go).                *)
(* External: Graft, which checks signatures the way VerifyRequest does,    *)
(* "kept identical" to it; DNS, which may answer anything at any time; and *)
(* Go's http.Client, which follows 301 to 303 with a bodiless GET and 307  *)
(* and 308 with the request as it was, headers included.                   *)
(***************************************************************************)
EXTENDS Naturals

CONSTANTS
  Hosts, Paths,    \* what URLs are made of
  InboxPaths,      \* paths at which a Graft takes replies
  ActorURL,        \* the series' actor
  Unsafe,          \* URLs that Validate refuses
  Addresses,       \* what a name may resolve to
  Public,          \* the addresses ipAllowed lets pass
  MaxRedirects,    \* requests a redirect chain may have
  None

URLs == [host : Hosts, path : Paths]
Inboxes == {u \in URLs : u.path \in InboxPaths}

ASSUME DeliveryAssumption ==
  /\ ActorURL \in URLs \ Unsafe
  /\ InboxPaths \subseteq Paths
  /\ Public \subseteq Addresses
  /\ MaxRedirects \in Nat \ {0}
  /\ None \notin Addresses

VARIABLES
  pc,        \* "idle", "dial" before a request goes out, "sent" after
  phase,     \* "actor" while the actor is fetched, "post" after
  req,       \* the request at hand
  hops,      \* redirects followed so far
  conn,      \* the address it was sent to
  status,    \* "none", "running", or how ReplyToIssue ended
  serving,   \* does the bridge's actor server listen?
  accepted   \* history: replies Graft took, for which inbox and at which URL

vars == <<pc, phase, req, hops, conn, status, serving, accepted>>

-----------------------------------------------------------------------------
(* Signatures *)

SignedHeaders == {"(request-target)", "host", "digest"}
RequiredSignedHeaders == {"(request-target)", "digest"}

Header(r, h) ==
  CASE h = "(request-target)" -> <<r.method, r.url.path>>
    [] h = "host"             -> <<r.url.host>>
    [] h = "digest"           -> <<r.digest>>

Get(u) == [method |-> "GET", url |-> u, body |-> "", digest |-> "",
           sig |-> <<>>, for |-> u]

(* A signature is the list of what it covers: nobody else can make it, and *)
(* it fits no other values.  The Date header, which it covers too, is not  *)
(* modelled; a request outside Graft's window is one that it refuses.      *)
SignRequest(u) ==
  LET r == [Get(u) EXCEPT !.method = "POST", !.body = "reply",
                          !.digest = "reply"]
  IN [r EXCEPT !.sig = [h \in SignedHeaders |-> Header(r, h)]]

(* Mutant of VerifyRequest: only what names the sender's body is checked.  *)
VerifyDigestOnly(r) == r.sig # <<>> /\ r.digest = r.body

VerifyRequest(r) ==
  /\ r.sig # <<>>
  /\ r.digest = r.body
  /\ RequiredSignedHeaders \subseteq DOMAIN r.sig
  /\ \A h \in DOMAIN r.sig : r.sig[h] = Header(r, h)

-----------------------------------------------------------------------------
Init ==
  /\ pc = "idle" /\ phase = "actor" /\ req = Get(ActorURL) /\ hops = 0
  /\ conn = None /\ status = "none" /\ serving = FALSE /\ accepted = {}

Send(p, r) == pc' = "dial" /\ phase' = p /\ req' = r /\ hops' = 0 /\ conn' = None

Return(s) == pc' = "idle" /\ status' = s /\ UNCHANGED <<phase, req, hops, conn>>

(* A reply that failed is tried again by a later pass, one that succeeded  *)
(* is followed by the next.                                                *)
ReplyToIssue ==
  /\ pc = "idle"
  /\ Send("actor", Get(ActorURL))
  /\ status' = "running"
  /\ accepted' = IF status = "ok" THEN {} ELSE accepted
  /\ UNCHANGED serving

(* Mutant of Dial: the name is checked, then dialled as a name.            *)
DialByName ==
  /\ pc = "dial"
  /\ \E answer \in SUBSET Addresses : answer \cap Public # {}
  /\ conn' \in Addresses
  /\ pc' = "sent"
  /\ UNCHANGED <<phase, req, hops, status, serving, accepted>>

(* The first public address of the answer is dialled itself.               *)
Dial ==
  /\ pc = "dial"
  /\ \E answer \in SUBSET Addresses : conn' \in answer \cap Public
  /\ pc' = "sent"
  /\ UNCHANGED <<phase, req, hops, status, serving, accepted>>

(* Mutant of Redirect: chains are followed to their end.                   *)
RedirectUnbounded(u, keep) ==
  /\ pc = "sent"
  /\ u \notin Unsafe
  /\ pc' = "dial"
  /\ hops' = hops + 1
  /\ req' = IF keep THEN [req EXCEPT !.url = u]
            ELSE [req EXCEPT !.url = u, !.method = "GET", !.body = ""]
  /\ conn' = None
  /\ UNCHANGED <<phase, status, serving, accepted>>

(* The server redirects the request; CheckRedirect counts and validates.   *)
Redirect(u, keep) ==
  /\ pc = "sent"
  /\ hops + 1 < MaxRedirects
  /\ u \notin Unsafe
  /\ pc' = "dial"
  /\ hops' = hops + 1
  /\ req' = IF keep THEN [req EXCEPT !.url = u]
            ELSE [req EXCEPT !.url = u, !.method = "GET", !.body = ""]
  /\ conn' = None
  /\ UNCHANGED <<phase, status, serving, accepted>>

(* The actor document names an inbox that Validate lets pass.              *)
ActorRead(inbox) ==
  /\ pc = "sent" /\ phase = "actor"
  /\ inbox \notin Unsafe
  /\ Send("post", SignRequest(inbox))
  /\ UNCHANGED <<status, serving, accepted>>

(* Graft fetches the bridge's public key and takes the reply.              *)
Acceptable ==
  /\ pc = "sent" /\ phase = "post"
  /\ req.method = "POST" /\ req.url \in Inboxes
  /\ serving
  /\ VerifyRequest(req)

Accept(s) ==
  /\ Acceptable
  /\ accepted' = accepted \cup {[for |-> req.for, at |-> req.url]}
  /\ Return(s)
  /\ UNCHANGED serving

Accepted == Accept("ok")
AnswerLost == Accept("error")

(* Anything but a Graft inbox that is posted to may answer below 300, and  *)
(* postSigned asks for no more: a page that a GET was made for, or one     *)
(* that swallows a POST, redirected there or named by the actor.           *)
PageServed ==
  /\ pc = "sent" /\ phase = "post"
  /\ req.method = "GET" \/ req.url \notin Inboxes
  /\ Return("ok")
  /\ UNCHANGED <<serving, accepted>>

(* Mutant of Fails: only a 5xx answer to the post is an error.             *)
FailsQuietly ==
  /\ pc # "idle"
  /\ Return(IF phase = "post" /\ pc = "sent" THEN "ok" ELSE "error")
  /\ UNCHANGED <<serving, accepted>>

(* No public address, a timeout, too many or unsafe redirects, an unsafe   *)
(* inbox, an actor that does not decode, or a status of 300 and more.      *)
Fails ==
  /\ pc # "idle"
  /\ Return("error")
  /\ UNCHANGED <<serving, accepted>>

(* Mutant of Listen: the server is started when the first reply is out.    *)
ListenAfterReply ==
  /\ ~serving /\ status = "ok"
  /\ serving' = TRUE
  /\ UNCHANGED <<pc, phase, req, hops, conn, status, accepted>>

(* The goroutine of main gets to ListenAndServe, maybe during a pass.      *)
Listen ==
  /\ ~serving
  /\ serving' = TRUE
  /\ UNCHANGED <<pc, phase, req, hops, conn, status, accepted>>

Next ==
  \/ ReplyToIssue \/ Dial
  \/ \E u \in URLs : (\E keep \in BOOLEAN : Redirect(u, keep)) \/ ActorRead(u)
  \/ Accepted \/ AnswerLost \/ PageServed \/ Fails
  \/ Listen

Spec == Init /\ [][Next]_vars

(* Passes go on, the server comes up, requests time out, and what is asked *)
(* for again and again is answered again and again: names resolve to       *)
(* public addresses, the actor names a Graft inbox, and Graft takes what   *)
(* it can accept.                                                          *)
Fairness ==
  /\ WF_vars(ReplyToIssue) /\ WF_vars(Listen) /\ WF_vars(Fails)
  /\ \A us \in {{ActorURL}, Inboxes} : SF_vars(req.url \in us /\ hops = 0 /\ Dial)
  /\ SF_vars(\E u \in Inboxes : ActorRead(u))
  /\ SF_vars(Accepted)

FairSpec == Spec /\ Fairness

-----------------------------------------------------------------------------
Digests == {"", "reply"}

(* Types of the request and its history; redirect chains are bounded.      *)
TypeOK ==
  /\ pc \in {"idle", "dial", "sent"} /\ phase \in {"actor", "post"}
  /\ req.method \in {"GET", "POST"} /\ req.url \in URLs /\ req.for \in URLs
  /\ req.body \in Digests /\ req.digest \in Digests
  /\ hops \in 0..(MaxRedirects - 1)
  /\ conn \in Addresses \cup {None}
  /\ status \in {"none", "running", "ok", "error"}
  /\ serving \in BOOLEAN
  /\ accepted \subseteq [for : URLs, at : URLs]

(* Whatever a name resolves to at whichever moment, and wherever actors    *)
(* and redirects point, a request only goes to a public address and to a   *)
(* URL that passed Validate (netguard.go:81-127, client.go:112-116).       *)
OnlyPublic == pc = "sent" => conn \in Public /\ req.url \notin Unsafe

(* A signed reply is taken at the inbox it was signed for or nowhere: one  *)
(* that is redirected with its body and headers does not reach another     *)
(* series or another host (sign.go:30-39).                                 *)
AcceptedAtInbox == \A a \in accepted : a.at = a.for

(* Where the actor names a Graft inbox, ReplyToIssue succeeds without the  *)
(* reply in it only after a redirect that made a GET of the POST or led it *)
(* off the inboxes: at an inbox it was not signed for, a POST that kept    *)
(* its body and headers does not pass for delivered (client.go:167-188,    *)
(* sign.go:30-39).                                                         *)
SuccessExplained ==
  status = "ok" /\ req.for \in Inboxes =>
    \/ [for |-> req.for, at |-> req.for] \in accepted
    \/ hops > 0 /\ (req.method = "GET" \/ req.url \notin Inboxes)

(* A reply that fails because the actor server is not up yet, or for any   *)
(* other passing reason, is taken by Graft in a later pass                 *)
(* (main.go:123-128).                                                      *)
DeliversAgain == []<>(status = "ok" /\ accepted # {})

(* "ReplyToIssue delivers a signed Create{Note} to the series inbox"       *)
(* (client.go:90): when that inbox is Graft's and no error is returned,    *)
(* Graft has the reply.                                                    *)
OkIsAccepted == status = "ok" /\ req.for \in Inboxes => accepted # {}
=============================================================================
