------------------------------ MODULE Delivery ------------------------------
(***************************************************************************)
(* What the hooks promise about an entry they recorded: it is stored, or   *)
(* waits until it is, or is put aside as undeliverable, or - the promise's *)
(* only hole - is lost while it waits.  What is stored stays stored, what  *)
(* is lost never comes back, and nothing waits for ever.                   *)
(* HookQueue implements it.                                                *)
(***************************************************************************)
CONSTANT Entries
VARIABLE status

Init == status = [e \in Entries |-> "unsent"]

Move(e, from, to) == status[e] = from /\ status' = [status EXCEPT ![e] = to]

Send(e)    == \E to \in {"stored", "waiting", "lost"} : Move(e, "unsent", to)
Deliver(e) == Move(e, "waiting", "stored")
Replay(e)  == \E to \in {"stored", "lost"} : Move(e, "aside", to)

\* A failure may take several waiting entries at once.
Drop(es) ==
    /\ es # {} /\ \A e \in es : status[e] = "waiting"
    /\ \E to \in [es -> {"aside", "lost"}] :
          status' = [e \in Entries |-> IF e \in es THEN to[e] ELSE status[e]]

Next == \/ \E e \in Entries : Send(e) \/ Deliver(e) \/ Replay(e)
        \/ \E es \in SUBSET Entries : Drop(es)

Leave(e) == Deliver(e) \/ \E es \in SUBSET Entries : e \in es /\ Drop(es)

Spec == /\ Init /\ [][Next]_status
        /\ \A e \in Entries : WF_status(Leave(e))
=============================================================================
