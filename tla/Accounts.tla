------------------------------ MODULE Accounts ------------------------------
(***************************************************************************)
(* Accounts of a team: adding people, setup and reset links, signing in,   *)
(* archiving; the statements of handlers that run side by side.            *)
(*                                                                         *)
(*   account  users of one organization, by e-mail address, as committed;  *)
(*   link     password_reset_tokens, as committed;                         *)
(*   held     the links somebody has, from an e-mail or an answer;         *)
(*   call     what each client has on its way;                             *)
(*   worked   history: the links by which a password was set.              *)
(*                                                                         *)
(* A link starts in one of two ways, an invite (seven days) or a reset     *)
(* (fifteen minutes), and is used in one way; how long it lives does not   *)
(* matter here, only that it expires.  The owner who signed up and the     *)
(* roles are left out, the forms' own checks too.  Routes behind           *)
(* withTenantDb answer after COMMIT and roll back if the client is gone    *)
(* by then; the routes before sign-in use short transactions of their own, *)
(* and hash passwords between a read and a write.  A password is its hash. *)
(***************************************************************************)
EXTENDS Naturals, FiniteSets

CONSTANTS
    Client,         \* browsers, each with one call at a time
    Person,         \* people, by e-mail address
    Password,       \* passwords
    LinkId,         \* setup and reset links
    MaxCalls,       \* bound: calls made
    Missing

ASSUME AccountsAssumption ==
    /\ MaxCalls \in Nat
    /\ Missing \notin Password \cup LinkId \cup Person

VARIABLES account, link, held, call, calls, worked

accountsVars == <<account, link, held, call, calls, worked>>

AccountRow == [status : {"absent", "active", "archived"}, password : Password \cup {Missing}]

LinkRow == [of : Person, used : BOOLEAN, expired : BOOLEAN]

\* late: when the call was made, its link had worked.  good: since then, the
\* account was active with this password once.
Call ==
    [ op       : {"none", "add", "invite", "forgot", "reset", "login"},
      at       : {"idle", "look", "store", "commit", "write", "stamp"},
      who      : Person \cup {Missing},
      password : Password \cup {Missing},
      link     : LinkId \cup {Missing},
      late     : BOOLEAN,
      good     : BOOLEAN ]

AtRest == [op |-> "none", at |-> "idle", who |-> Missing, password |-> Missing,
           link |-> Missing, late |-> FALSE, good |-> FALSE]

AccountsTypeOK ==
    /\ account \in [Person -> AccountRow]
    /\ DOMAIN link \subseteq LinkId
    /\ link \in [DOMAIN link -> LinkRow]
    /\ held \subseteq LinkId /\ worked \subseteq DOMAIN link
    /\ call \in [Client -> Call]
    /\ calls \in 0..MaxCalls

-----------------------------------------------------------------------------
\* An active account with this password.
Admits(row, password) == row.status = "active" /\ row.password = password

Ask(c, request) ==
    /\ call[c] = AtRest /\ calls < MaxCalls
    /\ calls' = calls + 1
    /\ call' = [call EXCEPT ![c] = request]
    /\ UNCHANGED <<account, link, held, worked>>

\* The Team page.  Without a password there will be a link.
AddUser(c, p, password) ==
    Ask(c, [AtRest EXCEPT !.op = "add", !.at = "store", !.who = p, !.password = password])

\* Get sign-in link: the list it is clicked in may be old.
GetLink(c, p) ==
    /\ account[p].status # "absent"
    /\ Ask(c, [AtRest EXCEPT !.op = "invite", !.at = "look", !.who = p])

ForgotPassword(c, p) ==
    Ask(c, [AtRest EXCEPT !.op = "forgot", !.at = "look", !.who = p])

ResetPassword(c, l, password) ==
    /\ l \in held
    /\ Ask(c, [AtRest EXCEPT !.op = "reset", !.at = "look", !.link = l,
                  !.password = password,
                  !.late = (l \in worked)])

Login(c, p, password) ==
    Ask(c, [AtRest EXCEPT !.op = "login", !.at = "look", !.who = p,
               !.password = password, !.good = Admits(account[p], password)])

-----------------------------------------------------------------------------
Go(c, t) ==
    /\ call' = [call EXCEPT ![c] = t]
    /\ UNCHANGED <<account, link, held, calls, worked>>

\* The calls, with the sign-ins that the accounts now admit marked.
Marked(accounts, cs) ==
    [c \in Client |->
        IF cs[c].op = "login" /\ Admits(accounts[cs[c].who], cs[c].password)
        THEN [cs[c] EXCEPT !.good = TRUE]
        ELSE cs[c]]

FreeLinks == LinkId \ (DOMAIN link \cup held \cup {call[c].link : c \in Client})

\* issueInvite: the token is stored in the request's transaction, and the
\* link is mailed before its COMMIT, where e-mail is set up at all.
IssueInvite(c, l, mails) ==
    /\ call' = [call EXCEPT ![c] = [call[c] EXCEPT !.at = "commit", !.link = l]]
    /\ held' = IF mails THEN held \cup {l} ELSE held
    /\ UNCHANGED <<account, link, calls, worked>>

\* POST /users up to COMMIT.  UNIQUE (organization_id, email) counts the
\* archived, and waits for one who is being added.
InsertUser(c) ==
    LET t == call[c]
    IN  /\ t.op = "add" /\ t.at = "store"
        /\ \A o \in Client : ~(call[o].op = "add" /\ call[o].at = "commit" /\ call[o].who = t.who)
        /\ \/ account[t.who].status # "absent" /\ Go(c, AtRest)
           \/ /\ account[t.who].status = "absent"
              /\ IF t.password # Missing
                 THEN Go(c, [t EXCEPT !.at = "commit"])
                 ELSE \E l \in FreeLinks, mails \in BOOLEAN : IssueInvite(c, l, mails)

\* POST /users/:id/invite: an active user without a password, or refused.
CheckInvite(c) ==
    /\ call[c].op = "invite" /\ call[c].at = "look"
    /\ Go(c, IF Admits(account[call[c].who], Missing)
             THEN [call[c] EXCEPT !.at = "store"] ELSE AtRest)

StoreInvite(c) ==
    /\ call[c].op = "invite" /\ call[c].at = "store"
    /\ \E l \in FreeLinks, mails \in BOOLEAN : IssueInvite(c, l, mails)

WithLink(l, p) ==
    [k \in DOMAIN link \cup {l} |->
        IF k = l THEN [of |-> p, used |-> FALSE, expired |-> FALSE] ELSE link[k]]

\* COMMIT, and the answer with the link.
CommitCall(c) ==
    LET t == call[c]
        accounts == IF t.op = "add"
                    THEN [account EXCEPT ![t.who] = [status |-> "active", password |-> t.password]]
                    ELSE account
    IN  /\ t.at = "commit"
        /\ account' = accounts
        /\ IF t.link = Missing
           THEN UNCHANGED <<link, held>>
           ELSE link' = WithLink(t.link, t.who) /\ held' = held \cup {t.link}
        /\ call' = Marked(accounts, [call EXCEPT ![c] = AtRest])
        /\ UNCHANGED <<calls, worked>>

\* The client is gone: ROLLBACK, though the link may be in the mail.
Abandon(c) == call[c].at = "commit" /\ Go(c, AtRest)

\* DELETE /users/:id, one statement.
Archive(p) ==
    /\ account[p].status = "active"
    /\ account' = [account EXCEPT ![p].status = "archived"]
    /\ UNCHANGED <<link, held, call, calls, worked>>

\* POST /auth/forgot-password: the same answer whether there is an account.
FindUser(c) ==
    /\ call[c].op = "forgot" /\ call[c].at = "look"
    /\ Go(c, IF account[call[c].who].status = "active"
             THEN [call[c] EXCEPT !.at = "store"] ELSE AtRest)

\* A transaction of its own, then the e-mail, which may not get through.
StoreReset(c) ==
    /\ call[c].op = "forgot" /\ call[c].at = "store"
    /\ \E l \in FreeLinks, delivered \in BOOLEAN :
          /\ link' = WithLink(l, call[c].who)
          /\ held' = IF delivered THEN held \cup {l} ELSE held
    /\ call' = [call EXCEPT ![c] = AtRest]
    /\ UNCHANGED <<account, calls, worked>>

Usable(l) == l \in DOMAIN link /\ ~link[l].used /\ ~link[l].expired

\* POST /auth/reset-password: the token is read without a lock, ...
CheckToken(c) ==
    /\ call[c].op = "reset" /\ call[c].at = "look"
    /\ Go(c, IF Usable(call[c].link)
             THEN [call[c] EXCEPT !.at = "write", !.who = link[call[c].link].of]
             ELSE AtRest)

\* Mutant of UsedLink: used_at is not written.
KeptLink(l) == link

UsedLink(l) == [link EXCEPT ![l].used = TRUE]

\* ... then bcrypt, both UPDATEs by id, and COMMIT.
ApplyReset(c) ==
    LET t == call[c]
        accounts == [account EXCEPT ![t.who].password = t.password]
    IN  /\ t.at = "write"
        /\ account' = accounts
        /\ link' = UsedLink(t.link)
        /\ call' = Marked(accounts, [call EXCEPT ![c] = AtRest])
        /\ worked' = worked \cup {t.link}
        /\ UNCHANGED <<held, calls>>

Expire(l) ==
    /\ l \in DOMAIN link /\ ~link[l].expired
    /\ link' = [link EXCEPT ![l].expired = TRUE]
    /\ UNCHANGED <<account, held, call, calls, worked>>

\* Mutant of CheckPassword: the row is found by its password alone.
CheckHashOnly(c) ==
    /\ call[c].op = "login" /\ call[c].at = "look"
    /\ Go(c, IF account[call[c].who].password = call[c].password
             THEN [call[c] EXCEPT !.at = "stamp"] ELSE AtRest)

\* POST /auth/login: the row is read, and compared with what was typed.
CheckPassword(c) ==
    /\ call[c].op = "login" /\ call[c].at = "look"
    /\ Go(c, IF Admits(account[call[c].who], call[c].password)
             THEN [call[c] EXCEPT !.at = "stamp"] ELSE AtRest)

\* last_login_at in a second transaction, and the token.
SignIn(c) == call[c].at = "stamp" /\ Go(c, AtRest)

-----------------------------------------------------------------------------
AccountsInit ==
    /\ account = [p \in Person |-> [status |-> "absent", password |-> Missing]]
    /\ link = [l \in {} |-> Missing]
    /\ held = {}
    /\ call = [c \in Client |-> AtRest]
    /\ calls = 0
    /\ worked = {}

Asked(c) ==
    \/ \E p \in Person :
          \/ AddUser(c, p, Missing) \/ GetLink(c, p) \/ ForgotPassword(c, p)
          \/ \E password \in Password : AddUser(c, p, password) \/ Login(c, p, password)
    \/ \E l \in LinkId, password \in Password : ResetPassword(c, l, password)

Handled(c) ==
    \/ InsertUser(c) \/ CheckInvite(c) \/ StoreInvite(c) \/ CommitCall(c) \/ Abandon(c)
    \/ FindUser(c) \/ StoreReset(c)
    \/ CheckToken(c) \/ ApplyReset(c)
    \/ CheckPassword(c) \/ SignIn(c)

AccountsNext ==
    \/ \E c \in Client : Asked(c) \/ Handled(c)
    \/ \E p \in Person : Archive(p)
    \/ \E l \in LinkId : Expire(l)

AccountsSpec == AccountsInit /\ [][AccountsNext]_accountsVars

-----------------------------------------------------------------------------
(***************************************************************************)
(* A link works once: a use that was sent after an earlier one was done    *)
(* never gets to set a password, whatever else goes on (005, "single-use   *)
(* token").  Uses that overlap may all succeed, for nothing is locked      *)
(* while the password is hashed.                                           *)
(***************************************************************************)
LinkWorksOnce ==
    \A c \in Client : call[c].op = "reset" /\ call[c].late => call[c].at # "write"

(***************************************************************************)
(* Whoever is signed in gave a password that the account had, and was      *)
(* active with, at some moment since the click: not one that was replaced  *)
(* before, nor that of somebody archived before, whose links still set     *)
(* passwords.                                                              *)
(***************************************************************************)
SignInsAreCurrent ==
    \A c \in Client : call[c].at = "stamp" => call[c].good
=============================================================================
