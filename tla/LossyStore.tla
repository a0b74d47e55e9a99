----------------------------- MODULE LossyStore -----------------------------
(***************************************************************************)
(* What a chunk cache promises to its callers, without chunks, files or    *)
(* checksums (the contract of Get and Add in src/src/libhgms/ssc/ssc.go):  *)
(* a lookup answers with the value stored under the key or with a miss, a  *)
(* stored value is never replaced while it is there, and nothing but an    *)
(* Add that needs the room makes a value disappear, one value per Add.  A  *)
(* kill of the process in the middle of an Add loses at most that Add.     *)
(***************************************************************************)
CONSTANTS Keys, Values, Absent, Nothing, NoReply

VARIABLES
  store,   \* what a lookup of each key would find
  offer,   \* the Add in progress: <<key, value>>, or Nothing
  reply    \* the last answer

vars == <<store, offer, reply>>

Init ==
  /\ store = [k \in Keys |-> Absent]
  /\ offer = Nothing
  /\ reply = NoReply

Lookup(k) ==
  /\ offer = Nothing
  /\ reply' = IF store[k] = Absent
                THEN [kind |-> "miss", key |-> k, val |-> Nothing]
                ELSE [kind |-> "hit", key |-> k, val |-> store[k]]
  /\ UNCHANGED <<store, offer>>

\* An Add may be turned down.
Decline(k) ==
  /\ offer = Nothing
  /\ reply' = [kind |-> "declined", key |-> k, val |-> Nothing]
  /\ UNCHANGED <<store, offer>>

\* An Add of an absent key gives up at most one other value; its own value
\* may become visible now or at the end.
Begin(k, v) ==
  /\ offer = Nothing
  /\ store[k] = Absent
  /\ offer' = <<k, v>>
  /\ \E victims \in {{}} \cup {{w} : w \in Keys \ {k}}, early \in BOOLEAN :
       store' = [w \in Keys |-> IF w \in victims THEN Absent
                                ELSE IF w = k /\ early THEN v ELSE store[w]]
  /\ UNCHANGED reply

Finish ==
  /\ offer # Nothing
  /\ store' = [store EXCEPT ![offer[1]] = offer[2]]
  /\ reply' = [kind |-> "added", key |-> offer[1], val |-> offer[2]]
  /\ offer' = Nothing

Abandon ==
  /\ offer # Nothing
  /\ offer' = Nothing
  /\ UNCHANGED <<store, reply>>

Next ==
  \/ \E k \in Keys : Lookup(k) \/ Decline(k)
  \/ \E k \in Keys, v \in Values : Begin(k, v)
  \/ Finish
  \/ Abandon

Spec == Init /\ [][Next]_vars
=============================================================================
