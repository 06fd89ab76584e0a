------------------------------ MODULE Sessions ------------------------------
(***************************************************************************)
(* What login and refresh tokens of api-students promise, without rows of  *)
(* revoked tokens, statements or roles: a session begins with a sign-in,   *)
(* is handed on from one refresh token to the next, and ends; no step      *)
(* makes two sessions of one.                                              *)
(*                                                                         *)
(* Module Accounts models the code statement by statement and is shown to  *)
(* implement this specification.                                           *)
(***************************************************************************)
CONSTANTS
    Users,
    Tokens,
    None          \* owner of a token that was never issued

VARIABLES
    accounts,     \* the users that have an account
    owner,        \* the user every issued token was issued to
    open,         \* tokens that may still be exchanged or signed out
    exchanged,    \* tokens given up for a successor that is not there yet
    admitted      \* users that have been handed an access token

vars == <<accounts, owner, open, exchanged, admitted>>

Init ==
    /\ accounts \in SUBSET Users
    /\ owner \in [Tokens -> accounts \cup {None}]
    /\ open = {t \in Tokens : owner[t] # None}
    /\ exchanged = {}
    /\ admitted = accounts

\* A new token for one of the holders; the answer with both tokens may get lost.
Issue(t, holders) ==
    /\ owner[t] = None
    /\ open' = open \cup {t}
    /\ \E u \in holders \cap accounts :
          /\ owner' = [owner EXCEPT ![t] = u]
          /\ admitted' \in {admitted, admitted \cup {u}}

SignIn(t) == Issue(t, accounts) /\ UNCHANGED <<accounts, exchanged>>

Exchange(t) ==
    /\ t \in open
    /\ open' = open \ {t}
    /\ exchanged' = exchanged \cup {t}
    /\ UNCHANGED <<accounts, owner, admitted>>

\* The successor belongs to the same user, who still has an account.
Renew(t, successor) ==
    /\ t \in exchanged
    /\ exchanged' = exchanged \ {t}
    /\ Issue(successor, {owner[t]})
    /\ UNCHANGED accounts

\* A logout, or an error after the token was revoked: the session is over.
SignOut(t) ==
    /\ t \in open
    /\ open' = open \ {t}
    /\ UNCHANGED <<accounts, owner, exchanged, admitted>>

GiveUp(t) ==
    /\ t \in exchanged
    /\ exchanged' = exchanged \ {t}
    /\ UNCHANGED <<accounts, owner, open, admitted>>

OpenAccount(u) ==
    /\ u \in Users \ accounts
    /\ accounts' = accounts \cup {u}
    /\ UNCHANGED <<owner, open, exchanged, admitted>>

\* All sessions of the user end with the account, and no account that is opened
\* later brings them back.
CloseAccount(u) ==
    /\ u \in accounts
    /\ accounts' = accounts \ {u}
    /\ open' = {t \in open : owner[t] # u}
    /\ UNCHANGED <<owner, exchanged, admitted>>

Next ==
    \/ \E t \in Tokens : SignIn(t)
    \/ \E t \in open : Exchange(t) \/ SignOut(t)
    \/ \E t \in exchanged : GiveUp(t) \/ \E successor \in Tokens : Renew(t, successor)
    \/ (\E u \in Users \ accounts : OpenAccount(u)) \/ (\E u \in accounts : CloseAccount(u))

Spec == Init /\ [][Next]_vars
=============================================================================
