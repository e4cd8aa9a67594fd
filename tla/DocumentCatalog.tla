-------------------------- MODULE DocumentCatalog --------------------------
(***************************************************************************)
(* What the document subsystem promises, without tasks, stores or steps: a *)
(* document is registered once its source is stored, is offered to search  *)
(* only while the source is there and the index is exact, is withdrawn     *)
(* before anything of it is erased, and is deleted only when nothing of it *)
(* is left.  A deletion that comes to an end a second time may open the    *)
(* document again, but without its source it is never offered again.       *)
(***************************************************************************)
CONSTANT Docs

VARIABLES
  phase, \* "none", "pending", "searchable" or "deleted"
  source \* the uploaded bytes are stored

Init ==
  /\ phase = [d \in Docs |-> "none"]
  /\ source = [d \in Docs |-> FALSE]

Move(d, from, to) ==
  phase[d] = from /\ phase' = [phase EXCEPT ![d] = to]

Store(d) ==
  /\ phase[d] = "none"
  /\ source' = [source EXCEPT ![d] = TRUE]
  /\ UNCHANGED phase

Discard(d) ==
  /\ phase[d] = "none"
  /\ source' = [source EXCEPT ![d] = FALSE]
  /\ UNCHANGED phase

Register(d) == source[d] /\ Move(d, "none", "pending") /\ UNCHANGED source

Offer(d) == source[d] /\ Move(d, "pending", "searchable") /\ UNCHANGED source

Withdraw(d) == Move(d, "searchable", "pending") /\ UNCHANGED source

Erase(d) ==
  /\ phase[d] = "pending"
  /\ source' = [source EXCEPT ![d] = FALSE]
  /\ UNCHANGED phase

Retire(d) == ~source[d] /\ Move(d, "pending", "deleted") /\ UNCHANGED source

Reopen(d) == Move(d, "deleted", "pending") /\ UNCHANGED source

Next ==
  \E d \in Docs :
    \/ Store(d) \/ Discard(d) \/ Register(d)
    \/ Offer(d) \/ Withdraw(d)
    \/ Erase(d) \/ Retire(d) \/ Reopen(d)

Spec == Init /\ [][Next]_<<phase, source>>
=============================================================================
