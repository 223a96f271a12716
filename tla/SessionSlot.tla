----------------------------- MODULE SessionSlot -----------------------------
(***************************************************************************)
(* What the single upload slot of the receive server promises: a session   *)
(* is reserved, opened and closed in that order and at most once, and at   *)
(* most one session is reserved or open at any time.  Reserving the slot   *)
(* may close the session that held it, never one that is still reserved.   *)
(***************************************************************************)
CONSTANT Sessions

VARIABLE life   \* the stage of each session's life

Init == life = [s \in Sessions |-> "new"]

Reserve(s) ==
  /\ life[s] = "new"
  /\ \A t \in Sessions : life[t] # "reserved"
  /\ life' = [t \in Sessions |-> IF t = s THEN "reserved"
                                 ELSE IF life[t] = "open" THEN "closed" ELSE life[t]]

Refuse(s) ==
  /\ life[s] = "new"
  /\ \E t \in Sessions : life[t] \in {"reserved", "open"}
  /\ life' = [life EXCEPT ![s] = "closed"]

Open(s) ==
  /\ life[s] = "reserved"
  /\ life' = [life EXCEPT ![s] = "open"]

\* A reservation is given up, or an open session ends.
Close(s) ==
  /\ life[s] \in {"reserved", "open"}
  /\ life' = [life EXCEPT ![s] = "closed"]

Next == \E s \in Sessions : Reserve(s) \/ Refuse(s) \/ Open(s) \/ Close(s)

Spec == Init /\ [][Next]_life
=============================================================================
