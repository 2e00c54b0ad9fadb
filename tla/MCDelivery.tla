----------------------------- MODULE MCDelivery -----------------------------
(* The URLs of Delivery for TLC: two hosts, each with the inboxes of two   *)
(* series and a page; the actor is a page of the first.                    *)
EXTENDS Delivery

CONSTANTS graft, other, a, b, page

Actor1 == [host |-> graft, path |-> page]
Unsafe1 == {[host |-> other, path |-> page]}
=============================================================================
