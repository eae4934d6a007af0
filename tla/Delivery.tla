------------------------------ MODULE Delivery ------------------------------
(***************************************************************************)
(* What the upload queue promises, without saying how: a backup that was   *)
(* accepted is owed until it has been delivered, and only the user can     *)
(* call a debt off.  Backups whose names collide are disputed: the queue   *)
(* answers for none of them any more, but a dispute never touches the      *)
(* others.  How often an upload is tried, by whom, and what crashes in     *)
(* between is not visible here.                                            *)
(***************************************************************************)
CONSTANT Job

VARIABLES
  accepted,   \* backups the queue answers for
  owed,       \* those it still has to deliver
  delivered,  \* those the bucket holds
  forgiven,   \* those the user called off
  disputed    \* backups it took and no longer answers for

vars == <<accepted, owed, delivered, forgiven, disputed>>

Init ==
  /\ accepted = {}
  /\ owed = {}
  /\ delivered = {}
  /\ forgiven = {}
  /\ disputed = {}

Accept(j) ==
  /\ j \notin accepted \cup disputed
  /\ accepted' = accepted \cup {j}
  /\ owed' = owed \cup {j}
  /\ UNCHANGED <<delivered, forgiven, disputed>>

\* A late duplicate may deliver a backup that is no longer owed.
Deliver(j) ==
  /\ j \in accepted
  /\ delivered' = delivered \cup {j}
  /\ UNCHANGED <<accepted, owed, forgiven, disputed>>

\* Only what has been delivered is settled.
Settle(j) ==
  /\ j \in owed /\ j \in delivered
  /\ owed' = owed \ {j}
  /\ UNCHANGED <<accepted, delivered, forgiven, disputed>>

\* The user empties the queue.
Forgive ==
  /\ owed' = {}
  /\ forgiven' = forgiven \cup owed
  /\ UNCHANGED <<accepted, delivered, disputed>>

\* A new backup and those it meets turn out to share a name.
Collide ==
  /\ disputed # disputed' /\ disputed \subseteq disputed'
  /\ disputed' \subseteq Job
  /\ accepted' = accepted \ disputed'
  /\ owed' = owed \ disputed'
  /\ delivered' = delivered \ disputed'
  /\ forgiven' = forgiven \ disputed'

Next ==
  \/ \E j \in Job : Accept(j) \/ Deliver(j) \/ Settle(j)
  \/ Forgive
  \/ Collide

Spec == Init /\ [][Next]_vars
=============================================================================
