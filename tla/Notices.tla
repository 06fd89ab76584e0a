------------------------------- MODULE Notices -------------------------------
(***************************************************************************)
(* What the notification pipeline of api-students promises: an announced   *)
(* event may be mailed to a user until the mail is recorded, and only a    *)
(* mail that was sent is recorded.  Afterwards nobody starts to mail it; a *)
(* sender that the database has cut off while the mail was not recorded    *)
(* may still finish, once.  How the event travels from the outbox to the   *)
(* mailer, and how often a step is tried, is not visible.                  *)
(***************************************************************************)
EXTENDS Integers

CONSTANTS
    Ids,          \* ids of outbox rows
    Users,
    Senders       \* those that send the mails

VARIABLES
    announced,    \* committed outbox rows
    members,      \* users that have an account
    mails,        \* mails sent so far, for every pair <<id, user>>
    recorded,     \* pairs in table notifications
    stray         \* senders cut off while sending, with their pairs

vars == <<announced, members, mails, recorded, stray>>
Pairs == Ids \X Users

Init ==
    /\ announced = {}
    /\ members = Users
    /\ mails = [p \in Pairs |-> 0]
    /\ recorded = {}
    /\ stray = {}

Announce(id) ==
    /\ id \in Ids \ announced
    /\ announced' = announced \cup {id}
    /\ UNCHANGED <<members, mails, recorded, stray>>

\* A mail that may be sent: announced, to a member, and not recorded.
Due(p) == p[1] \in announced /\ p[2] \in members /\ p \notin recorded

Mail(p) ==
    /\ Due(p)
    /\ mails' = [mails EXCEPT ![p] = @ + 1]
    /\ UNCHANGED <<announced, members, recorded, stray>>

\* A sender of a mail that is due is cut off from the database.
CutOff(s, p) ==
    /\ Due(p)
    /\ \A q \in Pairs : <<s, q>> \notin stray
    /\ stray' = stray \cup {<<s, p>>}
    /\ UNCHANGED <<announced, members, mails, recorded>>

\* It finishes, whatever has been recorded in the meantime; or it gives up.
MailAstray(s, p) ==
    /\ <<s, p>> \in stray
    /\ mails' = [mails EXCEPT ![p] = @ + 1]
    /\ stray' = stray \ {<<s, p>>}
    /\ UNCHANGED <<announced, members, recorded>>

GiveUp(s, p) ==
    /\ stray' = stray \ {<<s, p>>}
    /\ UNCHANGED <<announced, members, mails, recorded>>

Record(p) ==
    /\ p \notin recorded
    /\ mails[p] > 0
    /\ p[2] \in members
    /\ recorded' = recorded \cup {p}
    /\ UNCHANGED <<announced, members, mails, stray>>

\* The rows of a user go with the account.
Forget(u) ==
    /\ u \in members
    /\ members' = members \ {u}
    /\ recorded' = {p \in recorded : p[2] # u}
    /\ UNCHANGED <<announced, mails, stray>>

Next ==
    \/ \E id \in Ids : Announce(id)
    \/ \E p \in Pairs : Mail(p) \/ Record(p)
    \/ \E s \in Senders, p \in Pairs : CutOff(s, p) \/ MailAstray(s, p) \/ GiveUp(s, p)
    \/ \E u \in Users : Forget(u)

Spec == Init /\ [][Next]_vars
=============================================================================
