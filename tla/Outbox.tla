------------------------------- MODULE Outbox -------------------------------
(***************************************************************************)
(* What the event pipeline promises about one issue, whatever jobs, retries *)
(* and crashes it takes: only what was written is announced, no             *)
(* announcement is taken back, and a mention is told while it is owed and   *)
(* never again.                                                             *)
(***************************************************************************)
CONSTANTS Events, Mentions

VARIABLES
  written,    \* events of committed writes
  announced,  \* events handed to notifications, rules and integrations
  owed,       \* mentions recorded and not yet dealt with
  told        \* mentions whose person was notified

vars == <<written, announced, owed, told>>

Init ==
  /\ written = {} /\ announced = {}
  /\ owed = {} /\ told = {}

\* A write commits with its event; it may name people and take back names nobody was
\* told of yet.
Write(e, named, dropped) ==
  /\ e \notin written
  /\ named \cap (owed \cup told) = {}
  /\ written' = written \cup {e}
  /\ owed' = (owed \ dropped) \cup named
  /\ UNCHANGED <<announced, told>>

\* A text goes away, and with it names nobody was told of yet.
Retract(dropped) ==
  /\ owed' = owed \ dropped
  /\ UNCHANGED <<written, announced, told>>

Announce(e) ==
  /\ e \in written
  /\ announced' = announced \cup {e}
  /\ UNCHANGED <<written, owed, told>>

\* Everything owed is settled at once; a person who has left is not told.
Tell(active) ==
  /\ owed # {}
  /\ active \subseteq owed
  /\ told' = told \cup active
  /\ owed' = {}
  /\ UNCHANGED <<written, announced>>

Next ==
  \/ \E e \in Events, named, dropped \in SUBSET Mentions : Write(e, named, dropped)
  \/ \E dropped \in SUBSET Mentions : Retract(dropped)
  \/ \E e \in Events : Announce(e)
  \/ \E active \in SUBSET Mentions : Tell(active)

Spec == Init /\ [][Next]_vars
=============================================================================
