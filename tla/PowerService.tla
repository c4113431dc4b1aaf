----------------------------- MODULE PowerService -----------------------------
(***************************************************************************)
(* What the power commands promise, without sockets, threads and systemd:  *)
(* orders that are never taken back, an answer that is final and true, and *)
(* a machine that does one of its orders.  Of two different orders either  *)
(* may be the one it does.  PowerEvents implements it.                     *)
(***************************************************************************)
CONSTANTS
  Clients,  \* runs of a power command
  Orders    \* what the machine can be told

VARIABLES
  wanted,   \* wanted[c]: what the command asks for, or something unknown
  asked,    \* commands that have said so
  answer,   \* answer[c]: "none" until the command has ended
  orders,   \* what the machine has been told
  power     \* "on", the order it has carried out, or "forced"

vars == <<wanted, asked, answer, orders, power>>

Init ==
  /\ asked = {} /\ answer = [c \in Clients |-> "none"]
  /\ orders = {} /\ power = "on"

Pending == {c \in Clients : answer[c] = "none"}

Ask(c) ==
  /\ c \in Pending /\ asked' = asked \cup {c}
  /\ UNCHANGED <<wanted, answer, orders, power>>

\* The machine takes an order that was asked for.
Accept(c) ==
  /\ c \in asked /\ wanted[c] \in Orders
  /\ orders' = orders \cup {wanted[c]}
  /\ UNCHANGED <<wanted, asked, answer, power>>

\* "ok" is said of an order the machine has.
Agree(c) ==
  /\ c \in Pending /\ c \in asked /\ wanted[c] \in orders
  /\ answer' = [answer EXCEPT ![c] = "ok"]
  /\ UNCHANGED <<wanted, asked, orders, power>>

\* "error" promises nothing: the order may have been taken.
Refuse(c) ==
  /\ c \in Pending /\ c \in asked
  /\ answer' = [answer EXCEPT ![c] = "error"]
  /\ UNCHANGED <<wanted, asked, orders, power>>

\* Commands fail: nobody listens, or who listened is gone.
Fail ==
  /\ \E cs \in SUBSET Pending :
       answer' = [c \in Clients |-> IF c \in cs THEN "failed" ELSE answer[c]]
  /\ UNCHANGED <<wanted, asked, orders, power>>

\* The machine carries out one of its orders ...
Obey ==
  /\ power' \in orders
  /\ UNCHANGED <<wanted, asked, answer, orders>>

\* ... or at once, and takes every command with it.
Force(c) ==
  /\ c \in Pending /\ c \notin asked /\ power' = "forced"
  /\ \E cs \in SUBSET (Pending \ {c}) :
       answer' = [b \in Clients |-> IF b = c THEN "forced"
                                    ELSE IF b \in cs THEN "failed" ELSE answer[b]]
  /\ UNCHANGED <<wanted, asked, orders>>

Step(c) == Ask(c) \/ Accept(c) \/ Agree(c) \/ Refuse(c) \/ Force(c)

\* Once the machine is off nothing is answered or ordered.
Next == power = "on" /\ (Fail \/ Obey \/ \E c \in Clients : Step(c))

Spec == Init /\ [][Next]_vars
=============================================================================
