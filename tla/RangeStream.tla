---------------------------- MODULE RangeStream ----------------------------
(***************************************************************************)
(* What the proxy promises to a client that asks for a file from an offset *)
(* on (serveFullURI in src/src/hgmweb/proxy.go), without blobs, replicas   *)
(* or images: the bytes of the file from that offset, in order and without *)
(* gaps, and an end that is either complete or noticeably broken.          *)
(***************************************************************************)
EXTENDS Naturals, Sequences

CONSTANTS ContentSize, Froms

VARIABLES
  from,   \* the offset asked for
  sent,   \* what the client got, bytes named by their position
  state   \* "open", "complete" or "broken"

vars == <<from, sent, state>>

Init ==
  /\ from \in Froms
  /\ sent = <<>>
  /\ state = "open"

\* Some more bytes, the next ones of the file.
Deliver ==
  /\ state = "open"
  /\ \E n \in 1 .. ContentSize :
       /\ from + Len(sent) + n <= ContentSize
       /\ sent' = sent \o [i \in 1 .. n |-> from + Len(sent) + i - 1]
  /\ UNCHANGED <<from, state>>

Complete ==
  /\ state = "open"
  /\ from + Len(sent) >= ContentSize
  /\ state' = "complete"
  /\ UNCHANGED <<from, sent>>

Break ==
  /\ state = "open"
  /\ state' = "broken"
  /\ UNCHANGED <<from, sent>>

Next == Deliver \/ Complete \/ Break

Spec == Init /\ [][Next]_vars
=============================================================================
