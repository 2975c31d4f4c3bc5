------------------------------ MODULE Accounts ------------------------------
(***************************************************************************)
(* Accounts: verifying the address, resetting the password, editing the    *)
(* profile, and the second factor (accounts.services, the JSON views of    *)
(* api_views and the pages of views, which call the same services).        *)
(*                                                                         *)
(* The account's row is written column by column, save by the profile,     *)
(* which writes all columns as it loaded them.  The second factor is a row *)
(* of its own, checked in one statement and written in another.            *)
(***************************************************************************)
EXTENDS Requests, Integers, FiniteSets

CONSTANTS
  User,          \* accounts
  MaxPasswords,  \* bound: passwords an account ever has
  MaxLogins,     \* bound: logins of an account
  MaxLinks,      \* bound: reset links mailed to a customer
  MaxSecrets     \* bound: second factor secrets made for an account

ASSUME AccountsAssumption == {MaxPasswords, MaxLogins, MaxLinks, MaxSecrets} \subseteq Nat

VARIABLES
  accounts,  \* accounts[u]: the columns of User that requests write
  factors,   \* factors[u]: TwoFactorAuth, or NoFactor
  made,      \* made[u]: secrets made so far; each is new
  mailed,    \* mailed[u]: the reset links in the customer's mailbox
  spent,     \* history: spent[u]: the reset links that have set a password
  set,       \* history: set[u]: is the address verified, and the last password set
  told,      \* history: told[u]: the secret the customer was told is on, or 0
  mixed      \* history: rows saved from what was loaded before another save

vars == <<calls, accounts, factors, made, mailed, spent, set, told, mixed>>

Account == [verified : BOOLEAN, password : 0..MaxPasswords, login : 0..MaxLogins]
Factor == [secret : 0..MaxSecrets, enabled : BOOLEAN]
NoFactor == [secret |-> 0, enabled |-> FALSE]

\* A token is the hash of what it was made from: it is valid as long as the
\* account has that password and that time of the last login.
Link == [password : 0..MaxPasswords, login : 0..MaxLogins]
LinkOf(u) == [password |-> accounts[u].password, login |-> accounts[u].login]

\* The two rows of a user, each with its own writers.
Rows == User \X {"account", "factor"}
AccountOf(u) == <<u, "account">>
FactorOf(u) == <<u, "factor">>
UserOf(c) == calls[c].on[1]

Jobs ==
  [do : {"profile"}, on : Rows, row : Account, old : BOOLEAN]
    \cup [do : {"reset"}, on : Rows, row : Link, old : BOOLEAN]
    \cup [do : {"setup", "generate", "enable"}, on : Rows, row : Factor, old : BOOLEAN]

TypeOK ==
  /\ accounts \in [User -> Account]
  /\ factors \in [User -> Factor]
  /\ made \in [User -> 0..MaxSecrets]
  /\ mailed \in [User -> SUBSET Link]
  /\ spent \in [User -> SUBSET Link]
  /\ set \in [User -> [verified : BOOLEAN, password : 0..MaxPasswords]]
  /\ told \in [User -> 0..MaxSecrets]
  /\ mixed \subseteq Rows
  /\ calls \in [Call -> Jobs \cup {Idle}]

Init ==
  /\ accounts = [u \in User |-> [verified |-> FALSE, password |-> 0, login |-> 0]]
  /\ factors = [u \in User |-> NoFactor]
  /\ made = [u \in User |-> 0]
  /\ mailed = [u \in User |-> {}]
  /\ spent = [u \in User |-> {}]
  /\ set = [u \in User |-> [verified |-> FALSE, password |-> 0]]
  /\ told = [u \in User |-> 0]
  /\ mixed = {}
  /\ calls = [c \in Call |-> Idle]

Mixed(c) == mixed' = IF calls[c].old THEN mixed \cup {calls[c].on} ELSE mixed
Repaired(c) ==
  mixed' = IF calls[c].old THEN mixed \cup {calls[c].on} ELSE mixed \ {calls[c].on}

-----------------------------------------------------------------------------
(* The account's row *)

\* The link's token is made from this column: it counts until it has served.
TokenCounts(u) == ~accounts[u].verified

VerifyEmail(u) ==
  /\ TokenCounts(u)
  /\ accounts' = [accounts EXCEPT ![u].verified = TRUE]
  /\ set' = [set EXCEPT ![u].verified = TRUE]
  /\ SavedAtOnce(AccountOf(u))
  /\ UNCHANGED <<factors, made, mailed, spent, told, mixed>>

\* The pages refuse an address that is not verified; with a second factor on
\* they want its code, which only the customer's app can give.
Login(u) ==
  /\ accounts[u].verified
  /\ factors[u].enabled => factors[u].secret = told[u]
  /\ accounts[u].login < MaxLogins
  /\ accounts' = [accounts EXCEPT ![u].login = @ + 1]
  /\ SavedAtOnce(AccountOf(u))
  /\ UNCHANGED <<factors, made, mailed, spent, set, told, mixed>>

\* Google's word is enough: no verified address, no second factor.
GoogleLogin(u) ==
  /\ accounts[u].login < MaxLogins
  /\ accounts' = [accounts EXCEPT ![u].login = @ + 1]
  /\ SavedAtOnce(AccountOf(u))
  /\ UNCHANGED <<factors, made, mailed, spent, set, told, mixed>>

MailResetLink(u) ==
  /\ Cardinality(mailed[u]) < MaxLinks
  /\ mailed' = [mailed EXCEPT ![u] = @ \cup {LinkOf(u)}]
  /\ UNCHANGED <<calls, accounts, factors, made, spent, set, told, mixed>>

\* Mutant: the token is checked against the account only, not its password.
ValidForever(u, link) == link.login = accounts[u].login

Valid(u, link) == link = LinkOf(u)

CheckResetLink(c, u) ==
  /\ \E link \in mailed[u] : Valid(u, link) /\ Begin(c, Job("reset", AccountOf(u), link))
  /\ UNCHANGED <<accounts, factors, made, mailed, spent, set, told, mixed>>

ResetPassword(c) ==
  LET u == UserOf(c) IN
  /\ Does(c, "reset") /\ set[u].password < MaxPasswords
  /\ accounts' = [accounts EXCEPT ![u].password = set[u].password + 1]
  /\ set' = [set EXCEPT ![u].password = @ + 1]
  /\ spent' = [spent EXCEPT ![u] = @ \cup {calls[c].row}]
  /\ Saved(c, calls[c].on, Idle)
  /\ Mixed(c)
  /\ UNCHANGED <<factors, made, mailed, told>>

LoadProfile(c, u) ==
  /\ Begin(c, Job("profile", AccountOf(u), accounts[u]))
  /\ UNCHANGED <<accounts, factors, made, mailed, spent, set, told, mixed>>

\* Mutant: the form also sets whether the address is verified.
WrittenBackUnverified(row) == [row EXCEPT !.verified = FALSE]

\* The names of the request, and every other column as it was loaded.
WrittenBack(row) == row

SaveProfile(c) ==
  LET u == UserOf(c) IN
  /\ Does(c, "profile")
  /\ accounts' = [accounts EXCEPT ![u] = WrittenBack(calls[c].row)]
  /\ Saved(c, calls[c].on, Idle)
  /\ Mixed(c)
  /\ UNCHANGED <<factors, made, mailed, spent, set, told>>

-----------------------------------------------------------------------------
(* The second factor *)

\* Mutant: the page makes a new secret for whoever opens it.
OpenSetupAlways(c, u) ==
  /\ Begin(c, Job("generate", FactorOf(u), factors[u]))
  /\ UNCHANGED <<accounts, factors, made, mailed, spent, set, told, mixed>>

\* The page shows a secret unless the factor is on; the JSON view always does.
OpenSetup(c, u) ==
  /\ ~factors[u].enabled
  /\ Begin(c, Job("generate", FactorOf(u), factors[u]))
  /\ UNCHANGED <<accounts, factors, made, mailed, spent, set, told, mixed>>

AskNewSecret(c, u) ==
  /\ Begin(c, Job("setup", FactorOf(u), factors[u]))
  /\ UNCHANGED <<accounts, factors, made, mailed, spent, set, told, mixed>>

\* A new secret turns the factor off until it is confirmed; the customer who
\* asked for one by the JSON view knows so.
GenerateSecret(c) ==
  LET u == UserOf(c) IN
  /\ Does(c, "generate") \/ Does(c, "setup")
  /\ made[u] < MaxSecrets
  /\ made' = [made EXCEPT ![u] = @ + 1]
  /\ factors' = [factors EXCEPT ![u] = [secret |-> made'[u], enabled |-> FALSE]]
  /\ told' = IF Does(c, "setup") THEN [told EXCEPT ![u] = 0] ELSE told
  /\ Saved(c, calls[c].on, Idle)
  /\ Mixed(c)
  /\ UNCHANGED <<accounts, mailed, spent, set>>

\* The code is the stored secret's: the page with a factor that is on turns
\* the customer away, the JSON view lets it be confirmed again.
CheckCode(c, u) ==
  /\ factors[u] # NoFactor
  /\ Begin(c, Job("enable", FactorOf(u), factors[u]))
  /\ UNCHANGED <<accounts, factors, made, mailed, spent, set, told, mixed>>

\* A wrong code on the page: a new secret is made, on the page's first look.
RefuseCode(c) ==
  /\ Does(c, "enable") /\ ~calls[c].row.enabled
  /\ Goes(c, [calls[c] EXCEPT !.do = "generate"])
  /\ UNCHANGED <<accounts, factors, made, mailed, spent, set, told, mixed>>

\* Only the flag is written, on whatever secret is stored by now.
EnableFactor(c) ==
  LET u == UserOf(c) IN
  /\ Does(c, "enable") /\ factors[u] # NoFactor
  /\ factors' = [factors EXCEPT ![u].enabled = TRUE]
  /\ told' = [told EXCEPT ![u] = calls[c].row.secret]
  /\ Saved(c, calls[c].on, Idle)
  /\ Repaired(c)
  /\ UNCHANGED <<accounts, made, mailed, spent, set>>

DisableFactor(u) ==
  /\ factors[u] # NoFactor
  /\ factors' = [factors EXCEPT ![u] = NoFactor]
  /\ told' = [told EXCEPT ![u] = 0]
  /\ mixed' = mixed \ {FactorOf(u)}
  /\ SavedAtOnce(FactorOf(u))
  /\ UNCHANGED <<accounts, made, mailed, spent, set>>

LoseCall(c) ==
  /\ calls[c] # Idle
  /\ End(c)
  /\ UNCHANGED <<accounts, factors, made, mailed, spent, set, told, mixed>>

-----------------------------------------------------------------------------
Next ==
  \/ \E u \in User :
       VerifyEmail(u) \/ Login(u) \/ GoogleLogin(u) \/ MailResetLink(u) \/ DisableFactor(u)
  \/ \E c \in Call, u \in User :
       \/ CheckResetLink(c, u) \/ LoadProfile(c, u)
       \/ OpenSetup(c, u) \/ AskNewSecret(c, u) \/ CheckCode(c, u)
  \/ \E c \in Call :
       \/ ResetPassword(c) \/ SaveProfile(c) \/ GenerateSecret(c) \/ RefuseCode(c)
       \/ EnableFactor(c) \/ LoseCall(c)

Spec == Init /\ [][Next]_vars

-----------------------------------------------------------------------------
(* What holds, as long as no request saved what it loaded too early *)

\* A verified address stays verified and the password is the one set last:
\* editing the profile takes neither back.
AccountKept ==
  \A u \in User : AccountOf(u) \in mixed \/
    set[u] = [verified |-> accounts[u].verified, password |-> accounts[u].password]

\* A reset link that has set a password cannot set another.
LinkWorksOnce == \A u \in User : AccountOf(u) \in mixed \/ \A link \in spent[u] : ~Valid(u, link)

\* The second factor is on exactly if the customer was told so, and with the
\* secret that the customer's app has: nobody is asked for a code that no app
\* gives, and nobody relies on a factor that is off.
FactorAsTold ==
  \A u \in User : FactorOf(u) \in mixed \/
    IF told[u] = 0 THEN ~factors[u].enabled
    ELSE factors[u] = [secret |-> told[u], enabled |-> TRUE]

=============================================================================
