--------------------------- MODULE AccountsProofs ----------------------------
(***************************************************************************)
(* What an account, its reset links and its second factor guarantee, for   *)
(* any number of accounts, requests, passwords, links and secrets; and     *)
(* beside it, the defaults among addresses and payment methods (proved in  *)
(* DefaultsProofs and taken over here) and the list of sessions.           *)
(***************************************************************************)
EXTENDS Profile, Sequences, TLAPS

\* What a request is to do with a user's row. As long as nobody saved the row
\* since, what it loaded is the row; a reset has one of the mailed links, and a
\* page that is to show a new secret found the factor off.
JobFits(c) ==
  LET job == calls[c]  u == calls[c].on[1] IN
  /\ job \in Jobs
  /\ job.do \in {"profile", "reset"} => job.on = AccountOf(u)
  /\ job.do \in {"generate", "setup", "enable"} => job.on = FactorOf(u)
  /\ job.do = "profile" /\ ~job.old => job.row = accounts[u]
  /\ job.do = "reset" /\ ~job.old => job.row = LinkOf(u)
  /\ job.do \in {"generate", "setup", "enable"} /\ ~job.old => job.row = factors[u]
  /\ job.do = "generate" => ~job.row.enabled
  /\ job.do = "reset" => job.row \in mailed[u]

\* What a link was made of is past once it has set a password.
LinksSpent(u) ==
  /\ spent[u] \subseteq mailed[u]
  /\ AccountOf(u) \in mixed \/ \A link \in spent[u] : link.password < accounts[u].password

Kept(u) ==
  \/ AccountOf(u) \in mixed
  \/ set[u].verified = accounts[u].verified /\ set[u].password = accounts[u].password

FactorTold(u) ==
  FactorOf(u) \in mixed \/
    IF told[u] = 0 THEN ~factors[u].enabled
    ELSE factors[u].secret = told[u] /\ factors[u].enabled

\* A factor that is on has a secret.
HasSecret(u) == factors[u].enabled => factors[u].secret # 0

UserFits(u) == Kept(u) /\ LinksSpent(u) /\ FactorTold(u) /\ HasSecret(u)

AccountsInv ==
  /\ TypeOK
  /\ \A c \in Call : calls[c] # Idle => JobFits(c)
  /\ \A u \in User : UserFits(u)

ProfileJobs == [do : {"profile"}, on : Rows, row : Account, old : BOOLEAN]
ResetJobs == [do : {"reset"}, on : Rows, row : Link, old : BOOLEAN]
FactorJobs == [do : {"setup", "generate", "enable"}, on : Rows, row : Factor, old : BOOLEAN]

LEMMA JobsAre ==
  /\ Jobs = ProfileJobs \cup ResetJobs \cup FactorJobs
  /\ \A job \in Jobs : job.on \in Rows /\ job.old \in BOOLEAN
  /\ \A job \in ProfileJobs : job.do = "profile" /\ job.row \in Account
  /\ \A job \in ResetJobs : job.do = "reset" /\ job.row \in Link
  /\ \A job \in FactorJobs : job.do \in {"setup", "generate", "enable"} /\ job.row \in Factor
<1>1. Jobs = ProfileJobs \cup ResetJobs \cup FactorJobs
  BY DEF Jobs, ProfileJobs, ResetJobs, FactorJobs
<1>2. /\ \A job \in ProfileJobs :
           job.do = "profile" /\ job.row \in Account /\ job.on \in Rows /\ job.old \in BOOLEAN
      /\ \A job \in ResetJobs :
           job.do = "reset" /\ job.row \in Link /\ job.on \in Rows /\ job.old \in BOOLEAN
      /\ \A job \in FactorJobs :
           /\ job.do \in {"setup", "generate", "enable"}
           /\ job.row \in Factor /\ job.on \in Rows /\ job.old \in BOOLEAN
  BY DEF ProfileJobs, ResetJobs, FactorJobs
<1>3. QED  BY <1>1, <1>2

LEMMA RowsAre ==
  ASSUME NEW u \in User
  PROVE  /\ AccountOf(u) \in Rows /\ FactorOf(u) \in Rows
         /\ AccountOf(u)[1] = u /\ FactorOf(u)[1] = u
         /\ \A v \in User : /\ AccountOf(u) # FactorOf(v)
                            /\ AccountOf(u) = AccountOf(v) => u = v
                            /\ FactorOf(u) = FactorOf(v) => u = v
  BY DEF Rows, AccountOf, FactorOf

LEMMA UserOfRow ==
  ASSUME NEW row \in Rows
  PROVE  row[1] \in User
  BY DEF Rows

LEMMA OldRecord ==
  ASSUME NEW Do, NEW On, NEW R, NEW job \in [do : Do, on : On, row : R, old : BOOLEAN]
  PROVE  LET j == [job EXCEPT !.old = TRUE] IN
         /\ j \in [do : Do, on : On, row : R, old : BOOLEAN]
         /\ j.old /\ j.do = job.do /\ j.on = job.on /\ j.row = job.row
  OBVIOUS

LEMMA OldJob ==
  ASSUME NEW job \in Jobs
  PROVE  LET j == [job EXCEPT !.old = TRUE] IN
         j \in Jobs /\ j.old /\ j.do = job.do /\ j.on = job.on /\ j.row = job.row
<1> DEFINE j == [job EXCEPT !.old = TRUE]
<1>1. CASE job \in ProfileJobs
  <2>1. j \in ProfileJobs /\ j.old /\ j.do = job.do /\ j.on = job.on /\ j.row = job.row
    BY <1>1, OldRecord DEF ProfileJobs
  <2>2. QED  BY <2>1, JobsAre
<1>2. CASE job \in ResetJobs
  <2>1. j \in ResetJobs /\ j.old /\ j.do = job.do /\ j.on = job.on /\ j.row = job.row
    BY <1>2, OldRecord DEF ResetJobs
  <2>2. QED  BY <2>1, JobsAre
<1>3. CASE job \in FactorJobs
  <2>1. j \in FactorJobs /\ j.old /\ j.do = job.do /\ j.on = job.on /\ j.row = job.row
    BY <1>3, OldRecord DEF FactorJobs
  <2>2. QED  BY <2>1, JobsAre
<1>4. QED  BY <1>1, <1>2, <1>3, JobsAre

\* What call c is to do, and with whose row.
LEMMA JobOf ==
  ASSUME AccountsInv, NEW c \in Call, calls[c] # Idle
  PROVE  /\ calls[c] \in Jobs /\ JobFits(c) /\ UserOf(c) \in User /\ UserOf(c) = calls[c].on[1]
         /\ calls[c].on \in Rows /\ calls[c].old \in BOOLEAN
         /\ calls[c].do = "profile" => calls[c].row \in Account
         /\ calls[c].do = "reset" => calls[c].row \in Link
         /\ calls[c].do \in {"setup", "generate", "enable"} => calls[c].row \in Factor
         /\ calls[c].do \in {"profile", "reset", "setup", "generate", "enable"}
<1>1. calls[c] \in Jobs /\ JobFits(c)
  BY DEF AccountsInv, TypeOK
<1>2. calls[c].on \in Rows
  BY <1>1, JobsAre
<1>3. QED  BY <1>1, <1>2, JobsAre, UserOfRow DEF UserOf

\* What the calls of C hold after a save of a row of user u that they did not
\* make: the same, and old if it was of that row.
LEMMA OthersSaved ==
  ASSUME AccountsInv, NEW C \in SUBSET Call, NEW u \in User, NEW row \in Rows,
         row = AccountOf(u) \/ row = FactorOf(u),
         \A d \in C :
           calls'[d] = IF calls[d] # Idle /\ calls[d].on = row THEN [calls[d] EXCEPT !.old = TRUE]
                       ELSE calls[d],
         \A v \in User : AccountOf(v) # row => accounts'[v] = accounts[v],
         \A v \in User : FactorOf(v) # row => factors'[v] = factors[v],
         UNCHANGED mailed
  PROVE  \A d \in C : calls'[d] \in Jobs \cup {Idle} /\ (calls'[d] # Idle => JobFits(d)')
<1> SUFFICES ASSUME NEW d \in C
             PROVE  calls'[d] \in Jobs \cup {Idle} /\ (calls'[d] # Idle => JobFits(d)')
  OBVIOUS
<1>1. CASE calls[d] = Idle
  BY <1>1
<1>2. CASE calls[d] # Idle /\ calls[d].on = row
  <2>1. calls'[d] = [calls[d] EXCEPT !.old = TRUE] /\ calls[d] \in Jobs /\ JobFits(d)
    BY <1>2, JobOf
  <2>2. /\ calls'[d] \in Jobs /\ calls'[d].old
        /\ calls'[d].do = calls[d].do /\ calls'[d].on = calls[d].on /\ calls'[d].row = calls[d].row
    BY <2>1, OldJob
  <2>3. QED  BY <2>1, <2>2 DEF JobFits
<1>3. CASE calls[d] # Idle /\ calls[d].on # row
  <2>1. calls'[d] = calls[d] /\ calls[d] \in Jobs /\ JobFits(d) /\ calls[d].on[1] \in User
    BY <1>3, JobOf
  <2>2. QED  BY <1>3, <2>1 DEF JobFits, LinkOf
<1>4. QED  BY <1>1, <1>2, <1>3


LEMMA Records ==
  /\ \A f \in Factor : /\ f.secret \in 0..MaxSecrets /\ f.enabled \in BOOLEAN
                       /\ f = [secret |-> f.secret, enabled |-> f.enabled]
  /\ NoFactor \in Factor /\ NoFactor.secret = 0 /\ NoFactor.enabled = FALSE
  /\ \A f \in Factor : f # NoFactor => f.secret # 0 \/ f.enabled
  /\ \A s \in [verified : BOOLEAN, password : 0..MaxPasswords] :
       /\ s.verified \in BOOLEAN /\ s.password \in 0..MaxPasswords
       /\ s = [verified |-> s.verified, password |-> s.password]
  /\ \A a \in Account :
       a.verified \in BOOLEAN /\ a.password \in 0..MaxPasswords /\ a.login \in 0..MaxLogins
  /\ \A link \in Link : link.password \in 0..MaxPasswords /\ link.login \in 0..MaxLogins
<1>1. \A f \in Factor : /\ f.secret \in 0..MaxSecrets /\ f.enabled \in BOOLEAN
                        /\ f = [secret |-> f.secret, enabled |-> f.enabled]
  BY DEF Factor
<1>2. NoFactor \in Factor /\ NoFactor.secret = 0 /\ NoFactor.enabled = FALSE
  BY AccountsAssumption DEF Factor, NoFactor
<1>3. ASSUME NEW f \in Factor, f.secret = 0, ~f.enabled PROVE f = NoFactor
  <2>1. f = [secret |-> f.secret, enabled |-> f.enabled] /\ f.enabled = FALSE
    BY <1>1, <1>3
  <2>2. QED  BY <1>3, <2>1 DEF NoFactor
<1>4. \A s \in [verified : BOOLEAN, password : 0..MaxPasswords] :
        /\ s.verified \in BOOLEAN /\ s.password \in 0..MaxPasswords
        /\ s = [verified |-> s.verified, password |-> s.password]
  OBVIOUS
<1>5. /\ \A a \in Account :
           a.verified \in BOOLEAN /\ a.password \in 0..MaxPasswords /\ a.login \in 0..MaxLogins
      /\ \A link \in Link : link.password \in 0..MaxPasswords /\ link.login \in 0..MaxLogins
  BY DEF Account, Link
<1>6. QED  BY <1>1, <1>2, <1>3, <1>4, <1>5

\* What is said of a user that a step leaves alone.
LEMMA UserStays ==
  ASSUME NEW u \in User, UserFits(u),
         accounts'[u] = accounts[u], factors'[u] = factors[u], mailed'[u] = mailed[u],
         spent'[u] = spent[u], set'[u] = set[u], told'[u] = told[u],
         AccountOf(u) \in mixed => AccountOf(u) \in mixed',
         FactorOf(u) \in mixed => FactorOf(u) \in mixed'
  PROVE  UserFits(u)'
  BY DEF UserFits, Kept, LinksSpent, FactorTold, HasSecret

\* A step of call c that saves nothing.
LEMMA CallGoes ==
  ASSUME AccountsInv, NEW c \in Call, NEW next \in Jobs \cup {Idle}, calls' = [calls EXCEPT ![c] = next],
         UNCHANGED <<accounts, factors, made, mailed, spent, set, told, mixed>>,
         next # Idle => JobFits(c)'
  PROVE  AccountsInv'
<1>1. /\ calls' \in [Call -> Jobs \cup {Idle}] /\ calls'[c] = next
      /\ \A d \in Call \ {c} : calls'[d] = calls[d]
  BY DEF AccountsInv, TypeOK
<1>2. \A d \in Call : calls'[d] # Idle => JobFits(d)'
  BY <1>1 DEF AccountsInv, JobFits, LinkOf
<1>3. TypeOK'
  BY <1>1 DEF AccountsInv, TypeOK
<1>4. \A u \in User : UserFits(u)'
  BY UserStays DEF AccountsInv
<1>5. QED  BY <1>2, <1>3, <1>4 DEF AccountsInv

\* A save of the account's row, with nothing running left out.
LEMMA VerifyStep ==
  ASSUME AccountsInv, NEW u \in User, VerifyEmail(u)
  PROVE  AccountsInv'
<1>1. PICK a \in Account, s \in [verified : BOOLEAN, password : 0..MaxPasswords] :
        a = accounts[u] /\ s = set[u]
  BY DEF AccountsInv, TypeOK
<1>2. PICK a2 \in Account, s2 \in [verified : BOOLEAN, password : 0..MaxPasswords] :
        /\ accounts' = [accounts EXCEPT ![u] = a2] /\ set' = [set EXCEPT ![u] = s2]
        /\ a2.verified = TRUE /\ a2.password = a.password
        /\ s2.verified = TRUE /\ s2.password = s.password
  <2> DEFINE a2 == [a EXCEPT !.verified = TRUE]
             s2 == [s EXCEPT !.verified = TRUE]
  <2>1. a2 \in Account /\ a2.verified = TRUE /\ a2.password = a.password
    BY DEF Account
  <2>2. /\ s2 \in [verified : BOOLEAN, password : 0..MaxPasswords]
        /\ s2.verified = TRUE /\ s2.password = s.password
    OBVIOUS
  <2>3. accounts' = [accounts EXCEPT ![u] = a2] /\ set' = [set EXCEPT ![u] = s2]
    BY <1>1 DEF VerifyEmail
  <2> HIDE DEF a2, s2
  <2>4. QED  BY <2>1, <2>2, <2>3
<1>3. /\ UNCHANGED <<factors, made, mailed, spent, told, mixed>>
      /\ \A v \in User \ {u} : accounts'[v] = accounts[v] /\ set'[v] = set[v]
      /\ accounts'[u] = a2 /\ set'[u] = s2
      /\ accounts' \in [User -> Account]
      /\ set' \in [User -> [verified : BOOLEAN, password : 0..MaxPasswords]]
  <2>1. /\ accounts \in [User -> Account]
        /\ set \in [User -> [verified : BOOLEAN, password : 0..MaxPasswords]]
    BY DEF AccountsInv, TypeOK
  <2>2. UNCHANGED <<factors, made, mailed, spent, told, mixed>>
    BY DEF VerifyEmail
  <2>3. QED  BY <1>2, <2>1, <2>2
<1>4. /\ calls' = [d \in Call |-> calls'[d]]
      /\ \A d \in Call : calls'[d] \in Jobs \cup {Idle} /\ (calls'[d] # Idle => JobFits(d)')
  <2>1. /\ calls' = [d \in Call |-> calls'[d]]
        /\ \A d \in Call :
             calls'[d] = IF calls[d] # Idle /\ calls[d].on = AccountOf(u)
                         THEN [calls[d] EXCEPT !.old = TRUE] ELSE calls[d]
    BY DEF VerifyEmail, SavedAtOnce
  <2>2. /\ AccountOf(u) \in Rows
        /\ \A v \in User : AccountOf(v) # AccountOf(u) => accounts'[v] = accounts[v]
        /\ \A v \in User : FactorOf(v) # AccountOf(u) => factors'[v] = factors[v]
        /\ UNCHANGED mailed /\ Call \in SUBSET Call
    BY <1>3, RowsAre
  <2>3. QED  BY <2>1, <2>2, OthersSaved
<1>5. UserFits(u)'
  BY <1>1, <1>2, <1>3 DEF AccountsInv, UserFits, Kept, LinksSpent, FactorTold, HasSecret
<1>6. \A v \in User \ {u} : UserFits(v)'
  BY <1>3, UserStays DEF AccountsInv
<1>7. TypeOK'
  BY <1>3, <1>4 DEF AccountsInv, TypeOK
<1>8. QED  BY <1>4, <1>5, <1>6, <1>7 DEF AccountsInv

LEMMA LoginStep ==
  ASSUME AccountsInv, NEW u \in User, Login(u) \/ GoogleLogin(u)
  PROVE  AccountsInv'
<1>1. PICK a \in Account : a = accounts[u] /\ a.login < MaxLogins
  BY DEF AccountsInv, TypeOK, Login, GoogleLogin
<1>2. PICK a2 \in Account :
        /\ accounts' = [accounts EXCEPT ![u] = a2]
        /\ a2.verified = a.verified /\ a2.password = a.password
  <2> DEFINE a2 == [a EXCEPT !.login = a.login + 1]
  <2>1. a2 \in Account /\ a2.verified = a.verified /\ a2.password = a.password
    BY <1>1, AccountsAssumption DEF Account
  <2>2. accounts' = [accounts EXCEPT ![u] = a2]
    BY <1>1 DEF Login, GoogleLogin
  <2> HIDE DEF a2
  <2>3. QED  BY <2>1, <2>2
<1>3. /\ UNCHANGED <<factors, made, mailed, spent, set, told, mixed>>
      /\ \A v \in User \ {u} : accounts'[v] = accounts[v]
      /\ accounts'[u] = a2
      /\ accounts' \in [User -> Account]
  BY <1>2 DEF Login, GoogleLogin, AccountsInv, TypeOK
<1>4. /\ calls' = [d \in Call |-> calls'[d]]
      /\ \A d \in Call : calls'[d] \in Jobs \cup {Idle} /\ (calls'[d] # Idle => JobFits(d)')
  <2>1. /\ calls' = [d \in Call |-> calls'[d]]
        /\ \A d \in Call :
             calls'[d] = IF calls[d] # Idle /\ calls[d].on = AccountOf(u)
                         THEN [calls[d] EXCEPT !.old = TRUE] ELSE calls[d]
    BY DEF Login, GoogleLogin, SavedAtOnce
  <2>2. /\ AccountOf(u) \in Rows
        /\ \A v \in User : AccountOf(v) # AccountOf(u) => accounts'[v] = accounts[v]
        /\ \A v \in User : FactorOf(v) # AccountOf(u) => factors'[v] = factors[v]
        /\ UNCHANGED mailed /\ Call \in SUBSET Call
    BY <1>3, RowsAre
  <2>3. QED  BY <2>1, <2>2, OthersSaved
<1>5. UserFits(u)'
  BY <1>1, <1>2, <1>3 DEF AccountsInv, UserFits, Kept, LinksSpent, FactorTold, HasSecret
<1>6. \A v \in User \ {u} : UserFits(v)'
  BY <1>3, UserStays DEF AccountsInv
<1>7. TypeOK'
  BY <1>3, <1>4 DEF AccountsInv, TypeOK
<1>8. QED  BY <1>4, <1>5, <1>6, <1>7 DEF AccountsInv


\* The calls after call c ended with a save of a row of user u.
LEMMA EndsSaved ==
  ASSUME AccountsInv, NEW c \in Call, NEW u \in User, NEW row \in Rows,
         row = AccountOf(u) \/ row = FactorOf(u), Saved(c, row, Idle),
         \A v \in User : AccountOf(v) # row => accounts'[v] = accounts[v],
         \A v \in User : FactorOf(v) # row => factors'[v] = factors[v],
         UNCHANGED mailed
  PROVE  /\ calls' \in [Call -> Jobs \cup {Idle}]
         /\ \A d \in Call : calls'[d] # Idle => JobFits(d)'
<1>1. /\ calls' = [d \in Call |-> calls'[d]] /\ calls'[c] = Idle
      /\ \A d \in Call \ {c} :
           calls'[d] = IF calls[d] # Idle /\ calls[d].on = row THEN [calls[d] EXCEPT !.old = TRUE]
                       ELSE calls[d]
  BY DEF Saved
<1>2. \A d \in Call \ {c} : calls'[d] \in Jobs \cup {Idle} /\ (calls'[d] # Idle => JobFits(d)')
  <2>1. (Call \ {c}) \in SUBSET Call
    OBVIOUS
  <2>2. QED  BY <1>1, <2>1, OthersSaved
<1>3. QED  BY <1>1, <1>2

\* The same after a request that loads and saves at once.
LEMMA AtOnceSaved ==
  ASSUME AccountsInv, NEW u \in User, NEW row \in Rows,
         row = AccountOf(u) \/ row = FactorOf(u), SavedAtOnce(row),
         \A v \in User : AccountOf(v) # row => accounts'[v] = accounts[v],
         \A v \in User : FactorOf(v) # row => factors'[v] = factors[v],
         UNCHANGED mailed
  PROVE  /\ calls' \in [Call -> Jobs \cup {Idle}]
         /\ \A d \in Call : calls'[d] # Idle => JobFits(d)'
<1>1. /\ calls' = [d \in Call |-> calls'[d]] /\ Call \in SUBSET Call
      /\ \A d \in Call :
           calls'[d] = IF calls[d] # Idle /\ calls[d].on = row THEN [calls[d] EXCEPT !.old = TRUE]
                       ELSE calls[d]
  BY DEF SavedAtOnce
<1>2. \A d \in Call : calls'[d] \in Jobs \cup {Idle} /\ (calls'[d] # Idle => JobFits(d)')
  BY <1>1, OthersSaved
<1>3. QED  BY <1>1, <1>2

LEMMA MailStep ==
  ASSUME AccountsInv, NEW u \in User, MailResetLink(u)
  PROVE  AccountsInv'
<1>1. PICK link \in Link : link = LinkOf(u)
  BY Records DEF AccountsInv, TypeOK, LinkOf, Link
<1>2. /\ mailed' = [mailed EXCEPT ![u] = mailed[u] \cup {link}]
      /\ UNCHANGED <<calls, accounts, factors, made, spent, set, told, mixed>>
      /\ mailed \in [User -> SUBSET Link]
  BY <1>1 DEF MailResetLink, AccountsInv, TypeOK
<1>3. mailed' \in [User -> SUBSET Link] /\ \A v \in User : mailed[v] \subseteq mailed'[v]
  BY <1>2
<1>4. TypeOK'
  BY <1>2, <1>3 DEF AccountsInv, TypeOK
<1>5. ASSUME NEW c \in Call, calls[c] # Idle PROVE JobFits(c)'
  BY <1>2, <1>3, <1>5, JobOf DEF JobFits, LinkOf, UserOf
<1>6. ASSUME NEW v \in User PROVE UserFits(v)'
  BY <1>2, <1>3 DEF AccountsInv, UserFits, Kept, LinksSpent, FactorTold, HasSecret
<1>7. QED  BY <1>2, <1>4, <1>5, <1>6 DEF AccountsInv

LEMMA BeginsStep ==
  ASSUME AccountsInv, NEW c \in Call, NEW u \in User,
         CheckResetLink(c, u) \/ LoadProfile(c, u) \/ OpenSetup(c, u) \/ AskNewSecret(c, u)
           \/ CheckCode(c, u)
  PROVE  AccountsInv'
<1>0. /\ accounts \in [User -> Account] /\ factors \in [User -> Factor]
      /\ mailed \in [User -> SUBSET Link] /\ calls \in [Call -> Jobs \cup {Idle}]
      /\ AccountOf(u) \in Rows /\ FactorOf(u) \in Rows
      /\ AccountOf(u)[1] = u /\ FactorOf(u)[1] = u
  BY RowsAre DEF AccountsInv, TypeOK
<1>1. CASE CheckResetLink(c, u)
  <2>1. PICK link \in mailed[u] :
          link = LinkOf(u) /\ Begin(c, Job("reset", AccountOf(u), link))
    BY <1>1 DEF CheckResetLink, Valid
  <2> DEFINE job == [do |-> "reset", on |-> AccountOf(u), row |-> link, old |-> FALSE]
  <2>2. job \in Jobs
    <3>1. job \in ResetJobs
      BY <1>0 DEF ResetJobs
    <3>2. QED  BY <3>1, JobsAre
  <2>3. /\ job.do = "reset" /\ job.on = AccountOf(u) /\ job.row = link
        /\ calls' = [calls EXCEPT ![c] = job]
    BY <2>1 DEF Begin, Job
  <2>4. UNCHANGED <<accounts, factors, made, mailed, spent, set, told, mixed>>
    BY <1>1 DEF CheckResetLink
  <2> HIDE DEF job
  <2>5. JobFits(c)'
    BY <1>0, <2>1, <2>2, <2>3, <2>4 DEF JobFits, LinkOf
  <2>6. QED  BY <2>2, <2>3, <2>4, <2>5, CallGoes
<1>2. CASE LoadProfile(c, u)
  <2> DEFINE job == [do |-> "profile", on |-> AccountOf(u), row |-> accounts[u], old |-> FALSE]
  <2>1. job \in Jobs
    <3>1. job \in ProfileJobs
      BY <1>0 DEF ProfileJobs
    <3>2. QED  BY <3>1, JobsAre
  <2>2. /\ job.do = "profile" /\ job.on = AccountOf(u) /\ job.row = accounts[u]
        /\ calls' = [calls EXCEPT ![c] = job]
        /\ UNCHANGED <<accounts, factors, made, mailed, spent, set, told, mixed>>
    BY <1>2 DEF LoadProfile, Begin, Job
  <2> HIDE DEF job
  <2>3. JobFits(c)'
    BY <1>0, <2>1, <2>2 DEF JobFits
  <2>4. QED  BY <2>1, <2>2, <2>3, CallGoes
<1>3. ASSUME NEW do \in {"generate", "setup", "enable"},
             do = "generate" => ~factors[u].enabled,
             Begin(c, Job(do, FactorOf(u), factors[u])),
             UNCHANGED <<accounts, factors, made, mailed, spent, set, told, mixed>>
      PROVE  AccountsInv'
  <2> DEFINE job == [do |-> do, on |-> FactorOf(u), row |-> factors[u], old |-> FALSE]
  <2>1. job \in Jobs
    <3>1. job \in FactorJobs
      BY <1>0 DEF FactorJobs
    <3>2. QED  BY <3>1, JobsAre
  <2>2. /\ job.do = do /\ job.on = FactorOf(u) /\ job.row = factors[u]
        /\ calls' = [calls EXCEPT ![c] = job]
    BY <1>3 DEF Begin, Job
  <2> HIDE DEF job
  <2>3. JobFits(c)'
    BY <1>0, <1>3, <2>1, <2>2 DEF JobFits
  <2>4. QED  BY <1>3, <2>1, <2>2, <2>3, CallGoes
<1>4. QED  BY <1>1, <1>2, <1>3 DEF OpenSetup, AskNewSecret, CheckCode

LEMMA ResetStep ==
  ASSUME AccountsInv, NEW c \in Call, ResetPassword(c)
  PROVE  AccountsInv'
<1>1. PICK u \in User, link \in Link, old \in BOOLEAN, a \in Account,
           s \in [verified : BOOLEAN, password : 0..MaxPasswords] :
        /\ u = UserOf(c) /\ link = calls[c].row /\ old = calls[c].old
        /\ a = accounts[u] /\ s = set[u] /\ s.password < MaxPasswords
  BY JobOf DEF ResetPassword, Does, AccountsInv, TypeOK
<1>2. /\ calls[c].on = AccountOf(u) /\ link \in mailed[u] /\ (~old => link = LinkOf(u))
  BY <1>1, JobOf DEF ResetPassword, Does, JobFits
<1>3. PICK a2 \in Account, s2 \in [verified : BOOLEAN, password : 0..MaxPasswords] :
        /\ accounts' = [accounts EXCEPT ![u] = a2] /\ set' = [set EXCEPT ![u] = s2]
        /\ a2.verified = a.verified /\ a2.password = s.password + 1
        /\ s2.verified = s.verified /\ s2.password = s.password + 1
  <2> DEFINE a2 == [a EXCEPT !.password = s.password + 1]
             s2 == [s EXCEPT !.password = s.password + 1]
  <2>0. s.password + 1 \in 0..MaxPasswords
    BY <1>1, AccountsAssumption
  <2>1. a2 \in Account /\ a2.verified = a.verified /\ a2.password = s.password + 1
    BY <2>0 DEF Account
  <2>2. /\ s2 \in [verified : BOOLEAN, password : 0..MaxPasswords]
        /\ s2.verified = s.verified /\ s2.password = s.password + 1
    BY <2>0
  <2>3. accounts' = [accounts EXCEPT ![u] = a2] /\ set' = [set EXCEPT ![u] = s2]
    BY <1>1 DEF ResetPassword
  <2> HIDE DEF a2, s2
  <2>4. QED  BY <2>1, <2>2, <2>3
<1>4. /\ UNCHANGED <<factors, made, mailed, told>>
      /\ spent' = [spent EXCEPT ![u] = spent[u] \cup {link}]
      /\ mixed' = IF old THEN mixed \cup {AccountOf(u)} ELSE mixed
      /\ Saved(c, AccountOf(u), Idle)
  BY <1>1, <1>2 DEF ResetPassword, Mixed, AccountsInv, TypeOK
<1>5. /\ \A v \in User \ {u} : /\ accounts'[v] = accounts[v] /\ set'[v] = set[v]
                               /\ spent'[v] = spent[v]
      /\ accounts'[u] = a2 /\ set'[u] = s2 /\ spent'[u] = spent[u] \cup {link}
      /\ accounts' \in [User -> Account] /\ spent' \in [User -> SUBSET Link]
      /\ set' \in [User -> [verified : BOOLEAN, password : 0..MaxPasswords]]
      /\ mixed' \subseteq Rows /\ mixed \subseteq mixed'
  <2>1. /\ accounts \in [User -> Account] /\ spent \in [User -> SUBSET Link]
        /\ set \in [User -> [verified : BOOLEAN, password : 0..MaxPasswords]]
        /\ mixed \subseteq Rows /\ AccountOf(u) \in Rows
    BY RowsAre DEF AccountsInv, TypeOK
  <2>2. QED  BY <1>3, <1>4, <2>1
<1>6. /\ calls' \in [Call -> Jobs \cup {Idle}]
      /\ \A d \in Call : calls'[d] # Idle => JobFits(d)'
  <2>1. /\ AccountOf(u) \in Rows
        /\ \A v \in User : AccountOf(v) # AccountOf(u) => accounts'[v] = accounts[v]
        /\ \A v \in User : FactorOf(v) # AccountOf(u) => factors'[v] = factors[v]
    BY <1>4, <1>5, RowsAre
  <2>2. QED  BY <1>4, <2>1, EndsSaved
<1>7. UserFits(u)'
  <2>1. UserFits(u)
    BY DEF AccountsInv
  <2>2. Kept(u)' /\ FactorTold(u)' /\ HasSecret(u)'
    BY <1>1, <1>3, <1>4, <1>5, <2>1 DEF UserFits, Kept, FactorTold, HasSecret
  <2>3. LinksSpent(u)'
    <3>1. spent'[u] \subseteq mailed'[u]
      BY <1>2, <1>4, <1>5, <2>1 DEF UserFits, LinksSpent
    <3>2. ASSUME AccountOf(u) \notin mixed', NEW l \in spent'[u]
          PROVE  l.password < accounts'[u].password
      <4>1. ~old /\ AccountOf(u) \notin mixed
        BY <1>4, <3>2
      <4>2. /\ s.password = a.password /\ link.password = a.password
            /\ \A k \in spent[u] : k.password < a.password
        BY <1>1, <1>2, <2>1, <4>1 DEF UserFits, Kept, LinksSpent, LinkOf
      <4>3. l \in Link /\ l.password \in Nat /\ a.password \in Nat
        BY <1>5, <3>2, Records
      <4>4. QED  BY <1>3, <1>5, <3>2, <4>2, <4>3
    <3>3. QED  BY <3>1, <3>2 DEF LinksSpent
  <2>4. QED  BY <2>2, <2>3 DEF UserFits
<1>8. \A v \in User \ {u} : UserFits(v)'
  BY <1>4, <1>5, UserStays DEF AccountsInv
<1>9. TypeOK'
  BY <1>4, <1>5, <1>6 DEF AccountsInv, TypeOK
<1>10. QED  BY <1>6, <1>7, <1>8, <1>9 DEF AccountsInv


LEMMA ProfileStep ==
  ASSUME AccountsInv, NEW c \in Call, SaveProfile(c)
  PROVE  AccountsInv'
<1>1. PICK u \in User, row \in Account, old \in BOOLEAN :
        u = UserOf(c) /\ row = calls[c].row /\ old = calls[c].old
  BY JobOf DEF SaveProfile, Does
<1>2. calls[c].on = AccountOf(u) /\ (~old => row = accounts[u])
  BY <1>1, JobOf DEF SaveProfile, Does, JobFits
<1>3. /\ accounts' = [accounts EXCEPT ![u] = row]
      /\ UNCHANGED <<factors, made, mailed, spent, set, told>>
      /\ mixed' = IF old THEN mixed \cup {AccountOf(u)} ELSE mixed
      /\ Saved(c, AccountOf(u), Idle)
  BY <1>1, <1>2 DEF SaveProfile, WrittenBack, Mixed
<1>4. /\ \A v \in User \ {u} : accounts'[v] = accounts[v]
      /\ accounts'[u] = row /\ accounts' \in [User -> Account]
      /\ mixed' \subseteq Rows /\ mixed \subseteq mixed'
  <2>1. accounts \in [User -> Account] /\ mixed \subseteq Rows /\ AccountOf(u) \in Rows
    BY RowsAre DEF AccountsInv, TypeOK
  <2>2. QED  BY <1>3, <2>1
<1>5. /\ calls' \in [Call -> Jobs \cup {Idle}]
      /\ \A d \in Call : calls'[d] # Idle => JobFits(d)'
  <2>1. /\ AccountOf(u) \in Rows
        /\ \A v \in User : AccountOf(v) # AccountOf(u) => accounts'[v] = accounts[v]
        /\ \A v \in User : FactorOf(v) # AccountOf(u) => factors'[v] = factors[v]
    BY <1>3, <1>4, RowsAre
  <2>2. QED  BY <1>3, <2>1, EndsSaved
<1>6. UserFits(u)'
  <2>1. CASE old
    <3>1. UserFits(u)
      BY DEF AccountsInv
    <3>2. AccountOf(u) \in mixed'
      BY <1>3, <2>1
    <3>3. FactorTold(u)' /\ HasSecret(u)'
      BY <1>3, <1>4, <3>1 DEF UserFits, FactorTold, HasSecret
    <3>4. Kept(u)'
      BY <3>2 DEF Kept
    <3>5. spent[u] \subseteq mailed[u] /\ spent' = spent /\ mailed' = mailed
      BY <1>3, <3>1 DEF UserFits, LinksSpent
    <3>6. LinksSpent(u)'
      BY <3>2, <3>5 DEF LinksSpent
    <3>7. QED  BY <3>3, <3>4, <3>6 DEF UserFits
  <2>2. CASE ~old
    BY <1>2, <1>3, <1>4, <2>2, UserStays DEF AccountsInv
  <2>3. QED  BY <2>1, <2>2
<1>7. \A v \in User \ {u} : UserFits(v)'
  BY <1>3, <1>4, UserStays DEF AccountsInv
<1>8. TypeOK'
  BY <1>3, <1>4, <1>5 DEF AccountsInv, TypeOK
<1>9. QED  BY <1>5, <1>6, <1>7, <1>8 DEF AccountsInv

\* A save of user u's factor by call c, or by a request that loads and saves at
\* once: if what is said of the user holds after it, all of it does.
LEMMA FactorSaved ==
  ASSUME AccountsInv, NEW u \in User, NEW f \in Factor, factors' = [factors EXCEPT ![u] = f],
         NEW n \in 0..MaxSecrets, told' = [told EXCEPT ![u] = n],
         made' \in [User -> 0..MaxSecrets], UNCHANGED <<accounts, mailed, spent, set>>,
         mixed' \subseteq Rows, \A row \in Rows \ {FactorOf(u)} : row \in mixed => row \in mixed',
         \/ \E c \in Call : Saved(c, FactorOf(u), Idle)
         \/ SavedAtOnce(FactorOf(u)),
         f.enabled => f.secret # 0,
         FactorOf(u) \in mixed' \/ IF n = 0 THEN ~f.enabled ELSE f.secret = n /\ f.enabled
  PROVE  AccountsInv'
<1>1. /\ factors' \in [User -> Factor] /\ factors'[u] = f
      /\ told' \in [User -> 0..MaxSecrets] /\ told'[u] = n
      /\ \A v \in User \ {u} : factors'[v] = factors[v] /\ told'[v] = told[v]
  BY DEF AccountsInv, TypeOK
<1>2. /\ FactorOf(u) \in Rows
      /\ \A v \in User : AccountOf(v) # FactorOf(u) => accounts'[v] = accounts[v]
      /\ \A v \in User : FactorOf(v) # FactorOf(u) => factors'[v] = factors[v]
  BY <1>1, RowsAre
<1>3. /\ calls' \in [Call -> Jobs \cup {Idle}]
      /\ \A d \in Call : calls'[d] # Idle => JobFits(d)'
  <2>1. CASE \E c \in Call : Saved(c, FactorOf(u), Idle)
    BY <1>2, <2>1, EndsSaved
  <2>2. CASE SavedAtOnce(FactorOf(u))
    BY <1>2, <2>2, AtOnceSaved
  <2>3. QED  BY <2>1, <2>2
<1>4. UserFits(u)'
  <2>1. UserFits(u) /\ AccountOf(u) # FactorOf(u) /\ AccountOf(u) \in Rows
    BY RowsAre DEF AccountsInv
  <2>2. AccountOf(u) \in mixed => AccountOf(u) \in mixed'
    BY <2>1
  <2>3. QED  BY <1>1, <2>1, <2>2 DEF UserFits, Kept, LinksSpent, FactorTold, HasSecret
<1>5. ASSUME NEW v \in User \ {u} PROVE UserFits(v)'
  <2>1. /\ AccountOf(v) \in mixed => AccountOf(v) \in mixed'
        /\ FactorOf(v) \in mixed => FactorOf(v) \in mixed'
    BY RowsAre
  <2>2. QED  BY <1>1, <2>1, UserStays DEF AccountsInv
<1>6. TypeOK'
  BY <1>1, <1>3 DEF AccountsInv, TypeOK
<1>7. QED  BY <1>3, <1>4, <1>5, <1>6 DEF AccountsInv

LEMMA GenerateStep ==
  ASSUME AccountsInv, NEW c \in Call, GenerateSecret(c)
  PROVE  AccountsInv'
<1>1. PICK u \in User, old \in BOOLEAN :
        u = UserOf(c) /\ old = calls[c].old /\ calls[c].on = FactorOf(u)
  BY JobOf DEF GenerateSecret, Does, JobFits
<1>2. PICK n \in 0..MaxSecrets : n = made[u] + 1 /\ n # 0
  BY <1>1, AccountsAssumption DEF GenerateSecret, AccountsInv, TypeOK
<1>3. PICK f \in Factor :
        factors' = [factors EXCEPT ![u] = f] /\ ~f.enabled
  <2> DEFINE f == [secret |-> n, enabled |-> FALSE]
  <2>1. f \in Factor /\ ~f.enabled
    BY DEF Factor
  <2>2. made'[u] = n
    BY <1>1, <1>2 DEF GenerateSecret, AccountsInv, TypeOK
  <2>3. factors' = [factors EXCEPT ![u] = f]
    BY <1>1, <2>2 DEF GenerateSecret
  <2> HIDE DEF f
  <2>4. QED  BY <2>1, <2>3
<1>4. /\ made' \in [User -> 0..MaxSecrets] /\ UNCHANGED <<accounts, mailed, spent, set>>
      /\ mixed' = IF old THEN mixed \cup {FactorOf(u)} ELSE mixed
      /\ Saved(c, FactorOf(u), Idle)
  BY <1>1, <1>2 DEF GenerateSecret, Mixed, AccountsInv, TypeOK
<1>5. mixed' \subseteq Rows /\ \A row \in Rows \ {FactorOf(u)} : row \in mixed => row \in mixed'
  BY <1>4, RowsAre DEF AccountsInv, TypeOK
<1>6. PICK k \in 0..MaxSecrets :
        /\ told' = [told EXCEPT ![u] = k]
        /\ FactorOf(u) \in mixed' \/ k = 0
  <2>1. CASE Does(c, "setup")
    <3>1. told' = [told EXCEPT ![u] = 0]
      BY <1>1, <2>1 DEF GenerateSecret
    <3>2. 0 \in 0..MaxSecrets
      BY AccountsAssumption
    <3>3. QED  BY <3>1, <3>2
  <2>2. CASE ~Does(c, "setup")
    <3>1. told' = told /\ told \in [User -> 0..MaxSecrets] /\ calls[c] # Idle /\ calls[c].do = "generate"
      BY <2>2 DEF GenerateSecret, AccountsInv, TypeOK, Does
    <3>2. told' = [told EXCEPT ![u] = told[u]] /\ told[u] \in 0..MaxSecrets
      BY <3>1
    <3>3. ASSUME FactorOf(u) \notin mixed' PROVE told[u] = 0
      <4>1. ~old /\ FactorOf(u) \notin mixed
        BY <1>4, <3>3
      <4>2. JobFits(c) /\ FactorOf(u)[1] = u
        BY <3>1, JobOf, RowsAre
      <4>3. ~factors[u].enabled
        BY <1>1, <3>1, <4>1, <4>2 DEF JobFits
      <4>4. FactorTold(u)
        BY DEF AccountsInv, UserFits
      <4>5. QED  BY <4>1, <4>3, <4>4 DEF FactorTold
    <3>4. QED  BY <3>2, <3>3
  <2>3. QED  BY <2>1, <2>2
<1>7. QED  BY <1>3, <1>4, <1>5, <1>6, FactorSaved

LEMMA EnableStep ==
  ASSUME AccountsInv, NEW c \in Call, EnableFactor(c)
  PROVE  AccountsInv'
<1>1. PICK u \in User, old \in BOOLEAN, row \in Factor, f \in Factor :
        /\ u = UserOf(c) /\ old = calls[c].old /\ calls[c].on = FactorOf(u)
        /\ row = calls[c].row /\ f = factors[u] /\ (~old => row = f)
  BY JobOf, RowsAre DEF EnableFactor, Does, JobFits, AccountsInv, TypeOK
<1>2. f.secret # 0
  BY <1>1, Records DEF EnableFactor, AccountsInv, UserFits, HasSecret
<1>3. PICK new \in Factor :
        factors' = [factors EXCEPT ![u] = new] /\ new.secret = f.secret /\ new.enabled = TRUE
  <2> DEFINE new == [f EXCEPT !.enabled = TRUE]
  <2>1. new \in Factor /\ new.secret = f.secret /\ new.enabled = TRUE
    BY DEF Factor
  <2>2. factors' = [factors EXCEPT ![u] = new]
    BY <1>1 DEF EnableFactor
  <2> HIDE DEF new
  <2>3. QED  BY <2>1, <2>2
<1>4. /\ told' = [told EXCEPT ![u] = row.secret] /\ row.secret \in 0..MaxSecrets
      /\ UNCHANGED <<accounts, made, mailed, spent, set>>
      /\ mixed' = IF old THEN mixed \cup {FactorOf(u)} ELSE mixed \ {FactorOf(u)}
      /\ Saved(c, FactorOf(u), Idle)
  BY <1>1, Records DEF EnableFactor, Repaired
<1>5. /\ mixed' \subseteq Rows /\ \A r \in Rows \ {FactorOf(u)} : r \in mixed => r \in mixed'
      /\ made' \in [User -> 0..MaxSecrets]
  BY <1>4, RowsAre DEF AccountsInv, TypeOK
<1>6. FactorOf(u) \in mixed' \/ row.secret = f.secret
  BY <1>1, <1>4
<1>7. QED  BY <1>2, <1>3, <1>4, <1>5, <1>6, FactorSaved

LEMMA DisableStep ==
  ASSUME AccountsInv, NEW u \in User, DisableFactor(u)
  PROVE  AccountsInv'
<1>1. /\ factors' = [factors EXCEPT ![u] = NoFactor] /\ NoFactor \in Factor /\ ~NoFactor.enabled
      /\ told' = [told EXCEPT ![u] = 0] /\ 0 \in 0..MaxSecrets
      /\ UNCHANGED <<accounts, made, mailed, spent, set>> /\ mixed' = mixed \ {FactorOf(u)}
      /\ SavedAtOnce(FactorOf(u))
  BY Records, AccountsAssumption DEF DisableFactor
<1>2. /\ mixed' \subseteq Rows /\ \A r \in Rows \ {FactorOf(u)} : r \in mixed => r \in mixed'
      /\ made' \in [User -> 0..MaxSecrets]
  BY <1>1, RowsAre DEF AccountsInv, TypeOK
<1>3. QED  BY <1>1, <1>2, FactorSaved

LEMMA RefuseStep ==
  ASSUME AccountsInv, NEW c \in Call, RefuseCode(c) \/ LoseCall(c)
  PROVE  AccountsInv'
<1>1. CASE RefuseCode(c)
  <2>1. /\ calls[c] # Idle /\ calls[c].do = "enable" /\ ~calls[c].row.enabled
        /\ calls[c] \in FactorJobs /\ JobFits(c)
    BY <1>1, JobOf, JobsAre DEF RefuseCode, Does
  <2>2. PICK job \in FactorJobs :
          /\ calls' = [calls EXCEPT ![c] = job] /\ job.do = "generate"
          /\ job.on = calls[c].on /\ job.row = calls[c].row /\ job.old = calls[c].old
    <3>1. PICK was \in FactorJobs : was = calls[c]
      BY <2>1
    <3> DEFINE job == [was EXCEPT !.do = "generate"]
    <3>2. /\ job \in FactorJobs /\ job.do = "generate"
          /\ job.on = was.on /\ job.row = was.row /\ job.old = was.old
      BY DEF FactorJobs
    <3>3. calls' = [calls EXCEPT ![c] = job]
      BY <1>1, <3>1 DEF RefuseCode, Goes
    <3> HIDE DEF job
    <3>4. QED  BY <3>1, <3>2, <3>3
  <2>3. UNCHANGED <<accounts, factors, made, mailed, spent, set, told, mixed>>
    BY <1>1 DEF RefuseCode
  <2>4. job \in Jobs
    BY JobsAre
  <2>5. calls'[c] = job
    BY <2>2 DEF AccountsInv, TypeOK
  <2>6. JobFits(c)'
    BY <2>1, <2>2, <2>3, <2>4, <2>5 DEF JobFits
  <2>7. QED  BY <2>2, <2>3, <2>4, <2>6, CallGoes
<1>2. CASE LoseCall(c)
  BY <1>2, CallGoes DEF LoseCall, End, Goes, AccountsInv, TypeOK
<1>3. QED  BY <1>1, <1>2

LEMMA AccountsStep ==
  ASSUME AccountsInv, [Next]_vars
  PROVE  AccountsInv'
<1>1. CASE UNCHANGED vars
  <2>1. ASSUME NEW c \in Call, calls[c] # Idle PROVE JobFits(c)'
    BY <1>1, <2>1 DEF AccountsInv, JobFits, LinkOf, vars
  <2>2. \A u \in User : UserFits(u)'
    BY <1>1, UserStays DEF AccountsInv, vars
  <2>3. QED  BY <1>1, <2>1, <2>2 DEF AccountsInv, TypeOK, vars
<1>2. CASE Next
  BY <1>2, VerifyStep, LoginStep, MailStep, BeginsStep, ResetStep, ProfileStep, GenerateStep,
     EnableStep, DisableStep, RefuseStep
  DEF Next
<1>3. QED  BY <1>1, <1>2

LEMMA AccountsStart == Init => AccountsInv
<1> SUFFICES ASSUME Init PROVE AccountsInv
  OBVIOUS
<1>1. TypeOK
  BY AccountsAssumption, Records DEF Init, TypeOK, Account
<1>2. QED
  BY <1>1, Records
  DEF Init, AccountsInv, UserFits, Kept, LinksSpent, FactorTold, HasSecret

\* Every reachable state of the accounts has its type.
THEOREM TypeCorrect == Spec => []TypeOK
<1>1. AccountsInv => TypeOK
  BY DEF AccountsInv
<1>2. QED  BY <1>1, AccountsStart, AccountsStep, PTL DEF Spec

\* A verified address stays verified and the password is the one set last,
\* unless a request saved what it had loaded before another save.
THEOREM NothingTakenBack == Spec => []AccountKept
<1>1. AccountsInv => AccountKept
  <2> SUFFICES ASSUME AccountsInv, NEW u \in User, AccountOf(u) \notin mixed
               PROVE  set[u] = [verified |-> accounts[u].verified, password |-> accounts[u].password]
    BY DEF AccountKept
  <2>1. set[u].verified = accounts[u].verified /\ set[u].password = accounts[u].password
    BY DEF AccountsInv, UserFits, Kept
  <2>2. set[u] = [verified |-> set[u].verified, password |-> set[u].password]
    BY Records DEF AccountsInv, TypeOK
  <2>3. QED  BY <2>1, <2>2
<1>2. QED  BY <1>1, AccountsStart, AccountsStep, PTL DEF Spec

\* A reset link that has set a password sets no other.
THEOREM ResetLinkOnce == Spec => []LinkWorksOnce
<1>1. AccountsInv => LinkWorksOnce
  <2> SUFFICES ASSUME AccountsInv, NEW u \in User, AccountOf(u) \notin mixed,
                      NEW link \in spent[u], link = LinkOf(u)
               PROVE  FALSE
    BY DEF LinkWorksOnce, Valid
  <2>1. link.password < accounts[u].password /\ accounts[u].password \in Nat
    BY Records DEF AccountsInv, UserFits, LinksSpent, TypeOK
  <2>2. link.password = accounts[u].password
    BY DEF LinkOf
  <2>3. QED  BY <2>1, <2>2
<1>2. QED  BY <1>1, AccountsStart, AccountsStep, PTL DEF Spec

\* The second factor is on exactly if the customer was told so, with the secret
\* the customer's app has.
THEOREM FactorTrue == Spec => []FactorAsTold
<1>1. AccountsInv => FactorAsTold
  <2> SUFFICES ASSUME AccountsInv, NEW u \in User, FactorOf(u) \notin mixed
               PROVE  IF told[u] = 0 THEN ~factors[u].enabled
                      ELSE factors[u] = [secret |-> told[u], enabled |-> TRUE]
    BY DEF FactorAsTold
  <2>1. FactorTold(u) /\ factors[u] \in Factor
    BY DEF AccountsInv, UserFits, TypeOK
  <2>2. factors[u] = [secret |-> factors[u].secret, enabled |-> factors[u].enabled]
    BY <2>1, Records
  <2>3. factors[u].enabled => factors[u].enabled = TRUE
    BY <2>1, Records
  <2>4. QED  BY <2>1, <2>2, <2>3 DEF FactorTold
<1>2. QED  BY <1>1, AccountsStart, AccountsStep, PTL DEF Spec

-----------------------------------------------------------------------------
(* One default, beside the other parts of a customer's profile *)

Addresses == INSTANCE DefaultsProofs
Methods == INSTANCE DefaultsProofs WITH Flag <- {IsDefault}

LEMMA AddressesAreDefaults ==
  /\ Addresses!Numbered
  /\ D!Init => Addresses!Init
  /\ D!Next => Addresses!Next
  /\ D!OneDefault = Addresses!OneDefault
<1>1. Addresses!Numbered
  BY ProfileAssumption DEF D!Numbered, D!Job, D!Row, D!IsFiniteSet,
         Addresses!Numbered, Addresses!Job, Addresses!Row, Addresses!IsFiniteSet
<1>2. D!Init => Addresses!Init
  BY DEF D!Init, D!Absent,
         Addresses!Init, Addresses!Absent
<1>3. D!Next => Addresses!Next
  BY DEF D!vars, D!Absent, D!With, D!Does, D!Running, D!Seen, D!There, D!Locked, D!Begin,
         D!Goes, D!Writing, D!Commit, D!StartCreate, D!LoadToUpdate, D!LoadToChoose,
         D!LoadToDelete, D!FindToClear, D!ToClear, D!ClearFlag, D!CreateRow, D!UpdateRow,
         D!ChooseRow, D!DeleteRow, D!FindReplacement, D!Promoted, D!PromoteReplacement,
         D!RollBack, D!Next, D!Min, D!Max,
         Addresses!vars, Addresses!Absent, Addresses!With, Addresses!Does,
         Addresses!Running, Addresses!Seen, Addresses!There, Addresses!Locked,
         Addresses!Begin, Addresses!Goes, Addresses!Writing, Addresses!Commit,
         Addresses!StartCreate, Addresses!LoadToUpdate, Addresses!LoadToChoose,
         Addresses!LoadToDelete, Addresses!FindToClear, Addresses!ToClear,
         Addresses!ClearFlag, Addresses!CreateRow, Addresses!UpdateRow,
         Addresses!ChooseRow, Addresses!DeleteRow, Addresses!FindReplacement,
         Addresses!Promoted, Addresses!PromoteReplacement, Addresses!RollBack,
         Addresses!Next, Addresses!Min, Addresses!Max
<1>4. D!OneDefault = Addresses!OneDefault
  BY DEF D!OneDefault, D!DefaultsFor, D!Cardinality,
         Addresses!OneDefault, Addresses!DefaultsFor, Addresses!Cardinality
<1>5. QED  BY <1>1, <1>2, <1>3, <1>4

LEMMA MethodsAreDefaults ==
  /\ Methods!Numbered
  /\ D!Init => Methods!Init
  /\ M!MethodsNext => Methods!Next
  /\ M!OneDefault = Methods!OneDefault
<1>1. Methods!Numbered
  BY ProfileAssumption DEF M!Numbered, M!Job, M!Row, M!IsFiniteSet,
         Methods!Numbered, Methods!Job, Methods!Row, Methods!IsFiniteSet
<1>2. D!Init => Methods!Init
  BY DEF D!Init, D!Absent,
         Methods!Init, Methods!Absent
<1>3. M!MethodsNext => Methods!Next
  <2>1. M!MethodsNext => M!Next
    BY DEF M!MethodsNext, M!Next, M!AttachPaymentMethod, M!SetDefault, M!Destroy,
         M!SavePaymentMethod, M!SetDefaultPaymentMethod, M!DeletePaymentMethod
  <2>2. M!Next => Methods!Next
    BY DEF M!vars, M!Absent, M!With, M!Does, M!Running, M!Seen, M!There, M!Locked, M!Begin,
         M!Goes, M!Writing, M!Commit, M!StartCreate, M!LoadToUpdate, M!LoadToChoose,
         M!LoadToDelete, M!FindToClear, M!ToClear, M!ClearFlag, M!CreateRow, M!UpdateRow,
         M!ChooseRow, M!DeleteRow, M!FindReplacement, M!Promoted, M!PromoteReplacement,
         M!RollBack, M!Next, M!Min, M!Max,
           Methods!vars, Methods!Absent, Methods!With, Methods!Does, Methods!Running,
         Methods!Seen, Methods!There, Methods!Locked, Methods!Begin, Methods!Goes,
         Methods!Writing, Methods!Commit, Methods!StartCreate, Methods!LoadToUpdate,
         Methods!LoadToChoose, Methods!LoadToDelete, Methods!FindToClear, Methods!ToClear,
         Methods!ClearFlag, Methods!CreateRow, Methods!UpdateRow, Methods!ChooseRow,
         Methods!DeleteRow, Methods!FindReplacement, Methods!Promoted,
         Methods!PromoteReplacement, Methods!RollBack, Methods!Next, Methods!Min,
         Methods!Max
  <2>3. QED  BY <2>1, <2>2
<1>4. M!OneDefault = Methods!OneDefault
  BY DEF M!OneDefault, M!DefaultsFor, M!Cardinality,
         Methods!OneDefault, Methods!DefaultsFor, Methods!Cardinality
<1>5. QED  BY <1>1, <1>2, <1>3, <1>4

\* Where neither addresses nor methods move, what held at first goes on.
ProfileDefaultsInv ==
  /\ area \in {"accounts", "defaults", "methods", "sessions"}
  /\ area = "defaults" => Addresses!DefaultsInv
  /\ area = "methods" => Methods!DefaultsInv
  /\ area \in {"accounts", "sessions"} => D!OneDefault

LEMMA ProfileDefaultsStart == ProfileInit => ProfileDefaultsInv
<1> SUFFICES ASSUME ProfileInit PROVE ProfileDefaultsInv
  OBVIOUS
<1>1. Addresses!Init /\ Methods!Init
  BY AddressesAreDefaults, MethodsAreDefaults DEF ProfileInit
<1>2. Addresses!DefaultsInv
  BY <1>1, AddressesAreDefaults, Addresses!DefaultsStart
<1>3. Methods!DefaultsInv
  BY <1>1, MethodsAreDefaults, Methods!DefaultsStart
<1>4. D!OneDefault
  BY <1>2, AddressesAreDefaults, Addresses!DefaultsMean
<1>5. QED  BY <1>2, <1>3, <1>4 DEF ProfileInit, ProfileDefaultsInv

LEMMA ProfileDefaultsStep ==
  ASSUME ProfileDefaultsInv, [ProfileNext]_profileVars
  PROVE  ProfileDefaultsInv'
<1>1. area' = area
  BY DEF ProfileNext, profileVars
<1>2. ASSUME area = "defaults" PROVE Addresses!DefaultsInv'
  <2>1. Addresses!DefaultsInv
    BY <1>2 DEF ProfileDefaultsInv
  <2>2. D!Next \/ UNCHANGED <<calls, defaultsVars>>
    BY <1>2 DEF ProfileNext, profileVars
  <2>3. [Addresses!Next]_(Addresses!vars)
    BY <2>2, AddressesAreDefaults DEF defaultsVars, Addresses!vars
  <2>4. QED  BY <2>1, <2>3, Addresses!DefaultsStep
<1>3. ASSUME area = "methods" PROVE Methods!DefaultsInv'
  <2>1. Methods!DefaultsInv
    BY <1>3 DEF ProfileDefaultsInv
  <2>2. M!MethodsNext \/ UNCHANGED <<calls, defaultsVars>>
    BY <1>3 DEF ProfileNext, profileVars
  <2>3. [Methods!Next]_(Methods!vars)
    BY <2>2, MethodsAreDefaults DEF defaultsVars, Methods!vars
  <2>4. QED  BY <2>1, <2>3, Methods!DefaultsStep
<1>4. ASSUME area \in {"accounts", "sessions"} PROVE D!OneDefault'
  <2>1. D!OneDefault /\ UNCHANGED defaultsVars
    BY <1>4 DEF ProfileDefaultsInv, ProfileNext, profileVars
  <2>2. QED  BY <2>1 DEF defaultsVars, D!OneDefault, D!DefaultsFor
<1>5. QED  BY <1>1, <1>2, <1>3, <1>4 DEF ProfileDefaultsInv

LEMMA ProfileDefaultsMean ==
  ASSUME ProfileDefaultsInv
  PROVE  OneDefault
<1>1. area = "methods" => M!OneDefault
  BY MethodsAreDefaults, Methods!DefaultsMean DEF ProfileDefaultsInv
<1>2. area = "defaults" => D!OneDefault
  BY AddressesAreDefaults, Addresses!DefaultsMean DEF ProfileDefaultsInv
<1>3. QED  BY <1>1, <1>2 DEF ProfileDefaultsInv, OneDefault

\* Exactly one address is the default for each purpose, and exactly one saved
\* method is the default, while there are any: unless the user took the flag
\* off or requests overlapped since it was last set (accounts.services and
\* payments.services).
THEOREM OneDefaultEach == ProfileSpec => []OneDefault
<1>1. ProfileInit => ProfileDefaultsInv
  BY ProfileDefaultsStart
<1>2. ProfileDefaultsInv /\ [ProfileNext]_profileVars => ProfileDefaultsInv'
  BY ProfileDefaultsStep
<1>3. ProfileDefaultsInv => OneDefault
  BY ProfileDefaultsMean
<1>4. QED  BY <1>1, <1>2, <1>3, PTL DEF ProfileSpec

-----------------------------------------------------------------------------
(* What the list of sessions says *)

\* A session with key k is on user u's list, or off it for a reason.
Shown(u, k) == k \in hidden \/ S!RowsOf(u, k) # {}

\* Browser b has the key k for user u, or is about to.
HoldsKey(b, k, u) ==
  /\ k # S!NoKey
  /\ \/ session[b].key = k /\ session[b].user = u
     \/ \E c \in Call : /\ calls[c] # Idle /\ calls[c].do \in {"record", "respond"}
                        /\ calls[c].on = b /\ calls[c].row.key = k /\ calls[c].row.user = u

SessionJobStands(job) ==
  LET now == session[job.on] IN
  /\ job.do \in {"login", "record", "respond"} => job.row.user \in Member
  /\ job.do = "login" => job.row.key = S!NoKey
  /\ job.do \in {"record", "respond"} =>
       \/ now = S!Anonymous
       \/ now.user = job.row.user /\ now.key = job.row.key
  /\ job.do = "respond" /\ job.row.key # S!NoKey => Shown(job.row.user, job.row.key)
  /\ job.do \in {"logout", "flush"} => job.row = now /\ now.user # S!Nobody
  /\ job.do = "flush" =>
       /\ job.row.key \in hidden
       /\ \A i \in DOMAIN listed : listed[i].key = job.row.key => ~listed[i].active

SessionsTyped ==
  /\ session \in [Browser -> S!Session] /\ factor \subseteq Member
  /\ listed \in Seq(S!Row)
  /\ keys \in 0..MaxKeys
  /\ over \subseteq 1..keys
  /\ calls \in [Call -> S!SessionJobs \cup {Idle}]

Turns ==
  \A c \in Call, d \in Call :
    calls[c] # Idle /\ calls[d] # Idle /\ calls[c].on = calls[d].on => c = d

\* No two browsers have one key, and its rows are its user's.
KeysHeld ==
  /\ \A a \in Browser, b \in Browser, k \in 0..MaxKeys :
       \A u, v : HoldsKey(a, k, u) /\ HoldsKey(b, k, v) => a = b
  /\ \A b \in Browser, k \in 0..MaxKeys : \A u : HoldsKey(b, k, u) =>
       /\ k <= keys /\ k \notin over
       /\ \A i \in DOMAIN listed : listed[i].key = k => listed[i].user = u

RowsListed ==
  \A i \in DOMAIN listed : listed[i].key <= keys /\ (listed[i].key \in over => ~listed[i].active)

SignedInShown ==
  \A b \in Browser : session[b].user # S!Nobody =>
    session[b].key # S!NoKey /\ Shown(session[b].user, session[b].key)

SessionsInv ==
  /\ SessionsTyped /\ Turns /\ KeysHeld /\ RowsListed /\ SignedInShown
  /\ \A c \in Call : calls[c] # Idle => SessionJobStands(calls[c])

LEMMA SessionTypes ==
  ASSUME SessionsTyped
  PROVE  /\ \A b \in Browser : /\ session[b].key \in 0..MaxKeys
                               /\ session[b].user \in Member \cup {S!Nobody}
                               /\ session[b].pending \in Member \cup {S!Nobody}
         /\ \A i \in DOMAIN listed : /\ listed[i].key \in 0..MaxKeys /\ listed[i].user \in Member
                                     /\ listed[i].active \in BOOLEAN
         /\ \A c \in Call : calls[c] # Idle =>
              /\ calls[c] \in S!SessionJobs /\ calls[c].on \in Browser
              /\ calls[c].row \in S!Session /\ calls[c].row.key \in 0..MaxKeys
              /\ calls[c].row.user \in Member \cup {S!Nobody}
         /\ S!Anonymous \in S!Session /\ S!Anonymous.user = S!Nobody /\ S!Anonymous.key = S!NoKey
         /\ S!NoKey = 0 /\ 0 \in 0..MaxKeys /\ S!Nobody \notin Member /\ MaxKeys \in Nat
<1>1. \A b \in Browser : session[b] \in S!Session
  BY DEF SessionsTyped
<1>2. \A i \in DOMAIN listed : listed[i] \in S!Row
  BY DEF SessionsTyped
<1>3. \A c \in Call : calls[c] # Idle => calls[c] \in S!SessionJobs
  BY DEF SessionsTyped
<1>4. QED
  BY <1>1, <1>2, <1>3, ProfileAssumption DEF S!Session, S!Row, S!SessionJobs, S!Anonymous, S!NoKey, S!Nobody

\* Rows that are only taken off the list, for a reason that is noted.
LEMMA RowsTakenOff ==
  ASSUME SessionsTyped, NEW ids \in SUBSET (DOMAIN listed), S!Deactivate(ids)
  PROVE  /\ listed' \in Seq(S!Row) /\ DOMAIN listed' = DOMAIN listed
         /\ \A i \in DOMAIN listed :
              /\ listed'[i].key = listed[i].key /\ listed'[i].user = listed[i].user
              /\ listed'[i].active <=> listed[i].active /\ i \notin ids
<1>1. listed' = [i \in DOMAIN listed |->
                   IF i \in ids THEN [listed[i] EXCEPT !.active = FALSE] ELSE listed[i]]
  BY DEF S!Deactivate
<1>2. \A i \in DOMAIN listed :
        /\ listed[i] \in S!Row
        /\ [listed[i] EXCEPT !.active = FALSE] \in S!Row
        /\ [listed[i] EXCEPT !.active = FALSE].key = listed[i].key
        /\ [listed[i] EXCEPT !.active = FALSE].user = listed[i].user
        /\ ~[listed[i] EXCEPT !.active = FALSE].active
  <2>1. ASSUME NEW row \in S!Row
        PROVE  LET off == [row EXCEPT !.active = FALSE] IN
               off \in S!Row /\ off.key = row.key /\ off.user = row.user /\ ~off.active
    BY DEF S!Row
  <2>2. \A i \in DOMAIN listed : listed[i] \in S!Row
    BY DEF SessionsTyped
  <2>3. QED  BY <2>1, <2>2
<1>3. \A i \in DOMAIN listed : listed'[i] \in S!Row
  BY <1>1, <1>2
<1>4. listed' \in Seq(S!Row)
  <2>1. Len(listed) \in Nat /\ DOMAIN listed = 1..Len(listed)
    BY DEF SessionsTyped
  <2>2. listed' \in [1..Len(listed) -> S!Row]
    BY <1>1, <1>3, <2>1
  <2>3. QED  BY <2>1, <2>2
<1>5. QED  BY <1>1, <1>2, <1>4

LEMMA RowAdded ==
  ASSUME SessionsTyped, NEW u \in Member, NEW k \in 0..MaxKeys, S!AddRow(u, k)
  PROVE  /\ listed' \in Seq(S!Row) /\ DOMAIN listed \subseteq DOMAIN listed'
         /\ \A i \in DOMAIN listed : listed'[i] = listed[i]
         /\ \A i \in DOMAIN listed' \ DOMAIN listed :
              listed'[i].user = u /\ listed'[i].key = k /\ listed'[i].active
         /\ \E i \in DOMAIN listed' :
              listed'[i].user = u /\ listed'[i].key = k /\ listed'[i].active
<1>1. PICK row \in S!Row : row = [user |-> u, key |-> k, active |-> TRUE]
  BY DEF S!Row
<1>2. listed' = Append(listed, row)
  BY <1>1 DEF S!AddRow
<1>3. Len(listed) \in Nat /\ listed \in Seq(S!Row)
  BY DEF SessionsTyped
<1>4. /\ listed' \in Seq(S!Row) /\ DOMAIN listed = 1..Len(listed) /\ DOMAIN listed' = 1..Len(listed) + 1
      /\ \A i \in 1..Len(listed) : listed'[i] = listed[i]
      /\ listed'[Len(listed) + 1] = row
  BY <1>2, <1>3
<1>5. QED  BY <1>1, <1>3, <1>4

\* What is on the list stays there, or is off it for a reason.
LEMMA ShownAdded ==
  ASSUME SessionsTyped, NEW u \in Member, NEW k \in 0..MaxKeys, S!AddRow(u, k), hidden' = hidden
  PROVE  Shown(u, k)' /\ \A v, j : Shown(v, j) => Shown(v, j)'
BY RowAdded DEF Shown, S!RowsOf

LEMMA ShownTakenOff ==
  ASSUME SessionsTyped, NEW ids \in SUBSET (DOMAIN listed), S!Deactivate(ids),
         hidden \subseteq hidden', \A i \in ids : listed[i].key # S!NoKey => listed[i].key \in hidden'
  PROVE  \A v, j : j # S!NoKey /\ Shown(v, j) => Shown(v, j)'
BY RowsTakenOff DEF Shown, S!RowsOf

-----------------------------------------------------------------------------
(* Steps of one browser, seen from the others *)

BrowserStands(b) ==
  session[b].user # S!Nobody => session[b].key # S!NoKey /\ Shown(session[b].user, session[b].key)

\* Nothing happens to browser b, to its keys or to their rows.
Quiet(b) ==
  /\ session'[b] = session[b]
  /\ \A k, u : HoldsKey(b, k, u) => (Shown(u, k) => Shown(u, k)') /\ (k \in hidden => k \in hidden')
  /\ \A i \in DOMAIN listed' :
       \/ /\ i \in DOMAIN listed /\ listed'[i].key = listed[i].key
          /\ listed'[i].active => listed[i].active
       \/ \A u : ~HoldsKey(b, listed'[i].key, u)

LEMMA QuietJob ==
  ASSUME SessionsInv, NEW d \in Call, NEW job, calls[d] = job, job # Idle, Quiet(job.on)
  PROVE  SessionJobStands(job)'
<1>1. SessionJobStands(job) /\ job.on \in Browser /\ session'[job.on] = session[job.on]
  BY SessionTypes DEF SessionsInv, Quiet
<1>2. job.do = "respond" /\ job.row.key # S!NoKey => Shown(job.row.user, job.row.key)'
  <2>1. ASSUME job.do = "respond", job.row.key # S!NoKey PROVE HoldsKey(job.on, job.row.key, job.row.user)
    BY <2>1 DEF HoldsKey
  <2>2. QED  BY <1>1, <2>1 DEF Quiet, SessionJobStands
<1>3. ASSUME job.do = "flush"
      PROVE  /\ job.row.key \in hidden'
             /\ \A i \in DOMAIN listed' : listed'[i].key = job.row.key => ~listed'[i].active
  <2>1. /\ job.row = session[job.on] /\ session[job.on].key # S!NoKey
        /\ job.row.key \in hidden
        /\ \A i \in DOMAIN listed : listed[i].key = job.row.key => ~listed[i].active
    BY <1>1, <1>3 DEF SessionJobStands, SessionsInv, SignedInShown
  <2>2. PICK k, u : k = job.row.key /\ u = job.row.user
    OBVIOUS
  <2>3. HoldsKey(job.on, k, u)
    BY <2>1, <2>2 DEF HoldsKey
  <2>4. QED  BY <2>1, <2>2, <2>3 DEF Quiet
<1>4. PICK now : now = session[job.on]
  OBVIOUS
<1>5. session'[job.on] = now
  BY <1>1, <1>4
<1>6. QED  BY <1>1, <1>2, <1>3, <1>4, <1>5 DEF SessionJobStands

LEMMA QuietBrowser ==
  ASSUME SessionsInv, NEW b \in Browser, Quiet(b)
  PROVE  BrowserStands(b)'
<1>1. PICK now : now = session[b] /\ session'[b] = now
  BY DEF Quiet
<1>2. ASSUME now.user # S!Nobody PROVE now.key # S!NoKey /\ Shown(now.user, now.key)'
  <2>1. now.key # S!NoKey /\ Shown(now.user, now.key)
    BY <1>1, <1>2 DEF SessionsInv, SignedInShown
  <2>2. PICK k, u : k = now.key /\ u = now.user
    OBVIOUS
  <2>3. HoldsKey(b, k, u)
    BY <1>1, <2>1, <2>2 DEF HoldsKey
  <2>4. Shown(u, k)'
    BY <2>1, <2>2, <2>3 DEF Quiet
  <2>5. QED  BY <2>1, <2>2, <2>4
<1>3. QED  BY <1>1, <1>2 DEF BrowserStands

LEMMA SessionsKept ==
  ASSUME SessionsInv, SessionsTyped', Turns', KeysHeld', RowsListed', NEW busy,
         \A b \in Browser \ busy : Quiet(b),
         \A d \in Call : calls'[d] # Idle /\ calls'[d].on \notin busy => calls'[d] = calls[d],
         \A b \in Browser \cap busy : BrowserStands(b)',
         \A d \in Call : (calls[d] # Idle /\ calls[d].on \in busy => SessionJobStands(calls[d]))'
  PROVE  SessionsInv'
<1>1. \A b \in Browser : BrowserStands(b)'
  BY QuietBrowser
<1>2. SignedInShown'
  BY <1>1 DEF SignedInShown, BrowserStands
<1>3. ASSUME NEW d \in Call, calls'[d] # Idle PROVE SessionJobStands(calls[d])'
  <2>1. CASE calls'[d].on \in busy
    BY <1>3, <2>1
  <2>2. CASE calls'[d].on \notin busy
    <3>1. PICK job : job = calls[d] /\ calls'[d] = job
      BY <1>3, <2>2
    <3>2. job.on \in Browser \ busy
      BY <1>3, <2>2, <3>1, SessionTypes DEF SessionsInv
    <3>3. SessionJobStands(job)'
      BY <1>3, <3>1, <3>2, QuietJob
    <3>4. QED  BY <3>1, <3>3
  <2>3. QED  BY <2>1, <2>2
<1>4. QED  BY <1>2, <1>3 DEF SessionsInv

\* A key is taken by the browser that makes it, and is given up for good.
LEMMA KeysStep ==
  ASSUME SessionsInv, NEW mine, keys' \in 0..MaxKeys, keys <= keys',
         \A b \in Browser, k \in 0..MaxKeys : \A u : HoldsKey(b, k, u)' =>
           \/ HoldsKey(b, k, u)
           \/ k = keys + 1 /\ keys' = k /\ b = mine,
         \A k \in over' \ over : \A b \in Browser : \A u : ~HoldsKey(b, k, u)',
         \A i \in DOMAIN listed' :
           \/ i \in DOMAIN listed /\ listed'[i].key = listed[i].key /\ listed'[i].user = listed[i].user
           \/ \A b \in Browser : \A k, u : HoldsKey(b, k, u)' /\ k = listed'[i].key => u = listed'[i].user
  PROVE  KeysHeld'
<1>1. /\ keys \in Nat /\ over \subseteq 1..keys
      /\ \A i \in DOMAIN listed : listed[i].key <= keys
      /\ \A b \in Browser, k \in 0..MaxKeys : \A u : HoldsKey(b, k, u) => k <= keys
  BY SessionTypes DEF SessionsInv, SessionsTyped, RowsListed, KeysHeld
<1>2. ASSUME NEW a \in Browser, NEW b \in Browser, NEW k \in 0..MaxKeys, NEW u, NEW v,
             HoldsKey(a, k, u)', HoldsKey(b, k, v)'
      PROVE  a = b
  BY <1>1, <1>2 DEF SessionsInv, KeysHeld
<1>3. ASSUME NEW b \in Browser, NEW k \in 0..MaxKeys, NEW u, HoldsKey(b, k, u)'
      PROVE  k <= keys' /\ k \notin over'
  BY <1>1, <1>3 DEF SessionsInv, SessionsTyped, KeysHeld
<1>4. ASSUME NEW b \in Browser, NEW k \in 0..MaxKeys, NEW u, HoldsKey(b, k, u)',
             NEW i \in DOMAIN listed', listed'[i].key = k
      PROVE  listed'[i].user = u
  <2>1. CASE i \in DOMAIN listed /\ listed'[i].key = listed[i].key /\ listed'[i].user = listed[i].user
    BY <1>1, <1>4, <2>1 DEF SessionsInv, SessionsTyped, KeysHeld
  <2>2. CASE \A a \in Browser : \A j, v : HoldsKey(a, j, v)' /\ j = listed'[i].key => v = listed'[i].user
    BY <1>4, <2>2
  <2>3. QED  BY <1>4, <2>1, <2>2
<1>5. QED  BY <1>2, <1>3, <1>4 DEF KeysHeld

\* A call that goes on, or ends, is its browser's only one.
LEMMA CallGoesOn ==
  ASSUME SessionsInv, NEW c \in Call, calls[c] # Idle, NEW next \in S!SessionJobs \cup {Idle},
         S!Goes(c, next), next # Idle => next.on = calls[c].on,
         \A b \in Browser \ {calls[c].on} : session'[b] = session[b]
  PROVE  /\ calls' \in [Call -> S!SessionJobs \cup {Idle}] /\ Turns'
         /\ calls'[c] = next /\ \A d \in Call \ {c} : calls'[d] = calls[d]
         /\ \A d \in Call \ {c} : calls[d] # Idle => calls[d].on # calls[c].on
         /\ \A b \in Browser : \A k, u : HoldsKey(b, k, u)' =>
              IF b = calls[c].on
              THEN /\ k # S!NoKey
                   /\ \/ session'[b].key = k /\ session'[b].user = u
                      \/ next # Idle /\ next.do \in {"record", "respond"}
                         /\ next.row.key = k /\ next.row.user = u
              ELSE HoldsKey(b, k, u)
<1>1. calls' = [calls EXCEPT ![c] = next] /\ calls \in [Call -> S!SessionJobs \cup {Idle}]
  BY DEF S!Goes, SessionsInv, SessionsTyped
<1>2. calls'[c] = next /\ \A d \in Call \ {c} : calls'[d] = calls[d]
  BY <1>1
<1>3. \A d \in Call \ {c} : calls[d] # Idle => calls[d].on # calls[c].on
  BY DEF SessionsInv, Turns
<1>4. Turns'
  BY <1>2, <1>3 DEF SessionsInv, Turns
<1>5. ASSUME NEW b \in Browser, NEW k, NEW u, HoldsKey(b, k, u)', b # calls[c].on
      PROVE  HoldsKey(b, k, u)
  BY <1>2, <1>5 DEF HoldsKey
<1>6. ASSUME NEW b \in Browser, NEW k, NEW u, HoldsKey(b, k, u)', b = calls[c].on
      PROVE  /\ k # S!NoKey
             /\ \/ session'[b].key = k /\ session'[b].user = u
                \/ next # Idle /\ next.do \in {"record", "respond"}
                   /\ next.row.key = k /\ next.row.user = u
  BY <1>2, <1>3, <1>6 DEF HoldsKey
<1>7. QED  BY <1>1, <1>2, <1>3, <1>4, <1>5, <1>6

LEMMA CallBegins ==
  ASSUME SessionsInv, NEW c \in Call, NEW job \in S!SessionJobs, NEW b \in Browser,
         S!Begin(c, job), S!Rests(b), job.on = b, job.do \in {"login", "logout"},
         job.do = "login" => job.row.user \in Member /\ job.row.key = S!NoKey,
         job.do = "logout" => job.row = session[b] /\ session[b].user # S!Nobody,
         UNCHANGED <<session, factor, listed, keys, hidden, over>>
  PROVE  SessionsInv'
<1>1. /\ calls[c] = Idle /\ calls' = [calls EXCEPT ![c] = job]
      /\ \A d \in Call : calls[d] # Idle => calls[d].on # b
  BY DEF S!Begin, S!Rests
<1>2. calls'[c] = job /\ \A d \in Call \ {c} : calls'[d] = calls[d]
  BY <1>1 DEF SessionsInv, SessionsTyped
<1>3. SessionsTyped'
  BY <1>1 DEF SessionsInv, SessionsTyped
<1>4. Turns'
  BY <1>1, <1>2 DEF SessionsInv, Turns
<1>5. \A a \in Browser : \A k, u : HoldsKey(a, k, u)' => HoldsKey(a, k, u)
  BY <1>2 DEF HoldsKey
<1>6. KeysHeld' /\ RowsListed'
  BY <1>5 DEF SessionsInv, KeysHeld, RowsListed
<1>7. \A a \in Browser : Quiet(a)
  BY DEF Quiet, Shown, S!RowsOf
<1>8. ASSUME NEW d \in Call, calls'[d] # Idle, calls'[d].on \in {b}
      PROVE  SessionJobStands(calls[d])'
  <2>1. d = c
    BY <1>1, <1>2, <1>8
  <2>2. QED  BY <1>2, <2>1 DEF SessionJobStands
<1>9. BrowserStands(b)'
  BY <1>7, QuietBrowser
<1>10. \A d \in Call : calls'[d] # Idle /\ calls'[d].on \notin {b} => calls'[d] = calls[d]
  BY <1>2
<1>11. \A d \in Call : (calls[d] # Idle /\ calls[d].on \in {b} => SessionJobStands(calls[d]))'
  BY <1>8
<1>12. QED  BY <1>3, <1>4, <1>6, <1>7, <1>9, <1>10, <1>11, SessionsKept

LEMMA LoginJob ==
  ASSUME SessionsInv, NEW c \in Call, NEW b \in Browser, NEW u \in Member,
         NEW pending \in Member \cup {S!Nobody}, S!BeginLogin(c, b, u, pending),
         UNCHANGED <<session, factor, listed, keys, hidden, over>>
  PROVE  SessionsInv'
<1>1. PICK job : job = S!Job("login", b, [user |-> u, key |-> S!NoKey, pending |-> pending])
  OBVIOUS
<1>2. /\ job \in S!SessionJobs /\ job.on = b /\ job.do = "login"
      /\ job.row.user \in Member /\ job.row.key = S!NoKey
  BY <1>1, SessionTypes DEF S!Job, S!SessionJobs, S!Session, SessionsInv
<1>3. S!Begin(c, job) /\ S!Rests(b)
  BY <1>1 DEF S!BeginLogin
<1>4. QED  BY <1>2, <1>3, CallBegins

LEMMA BeginsSession ==
  ASSUME SessionsInv, NEW c \in Call, NEW b \in Browser,
         \/ S!CheckCode(c, b) \/ S!StartLogout(c, b)
         \/ \E u \in Member : S!CheckPassword(c, b, u) \/ S!GoogleLogin(c, b, u)
  PROVE  SessionsInv'
<1>1. session[b].pending \in Member \cup {S!Nobody} /\ session[b] \in S!Session
      /\ S!Nobody \in Member \cup {S!Nobody}
  BY SessionTypes DEF SessionsInv, SessionsTyped
<1>2. CASE S!CheckCode(c, b)
  <2>1. session[b].pending \in Member /\ S!BeginLogin(c, b, session[b].pending, S!Nobody)
        /\ UNCHANGED <<session, factor, listed, keys, hidden, over>>
    BY <1>2 DEF S!CheckCode, SessionsInv, SessionsTyped
  <2>2. QED  BY <1>1, <2>1, LoginJob
<1>3. ASSUME NEW u \in Member, S!CheckPassword(c, b, u) \/ S!GoogleLogin(c, b, u) PROVE SessionsInv'
  <2>1. S!BeginLogin(c, b, u, session[b].pending)
        /\ UNCHANGED <<session, factor, listed, keys, hidden, over>>
    BY <1>3 DEF S!CheckPassword, S!GoogleLogin
  <2>2. QED  BY <1>1, <2>1, LoginJob
<1>4. CASE S!StartLogout(c, b)
  <2>1. /\ session[b].user # S!Nobody /\ S!Rests(b)
        /\ S!Begin(c, S!Job("logout", b, session[b]))
        /\ UNCHANGED <<session, factor, listed, keys, hidden, over>>
    BY <1>4 DEF S!StartLogout
  <2>2. PICK job : job = S!Job("logout", b, session[b])
    OBVIOUS
  <2>3. job \in S!SessionJobs /\ job.on = b /\ job.do = "logout" /\ job.row = session[b]
    BY <1>1, <2>2 DEF S!Job, S!SessionJobs
  <2>4. QED  BY <2>1, <2>2, <2>3, CallBegins
<1>5. QED  BY <1>2, <1>3, <1>4

\* Browser b has the key, or it is made in this step.
Owns(b, key, user) ==
  key = S!NoKey \/ HoldsKey(b, key, user) \/ (key = keys + 1 /\ keys' = key)

\* A step of a call that leaves the rows alone.
LEMMA RowsAloneStep ==
  ASSUME SessionsInv, NEW c \in Call, NEW job, job = calls[c], job # Idle,
         NEW next \in S!SessionJobs \cup {Idle},
         S!Goes(c, next), next # Idle => next.on = job.on,
         NEW now \in S!Session, session' = [session EXCEPT ![job.on] = now],
         keys' \in 0..MaxKeys, keys <= keys', hidden \subseteq hidden',
         factor' = factor, listed' = listed, over' = over,
         Owns(job.on, now.key, now.user),
         next # Idle /\ next.do \in {"record", "respond"} => Owns(job.on, next.row.key, next.row.user),
         BrowserStands(job.on)',
         next # Idle => SessionJobStands(next)'
  PROVE  SessionsInv'
<1>0. /\ session \in [Browser -> S!Session] /\ job.on \in Browser
      /\ session'[job.on] = now /\ \A b \in Browser \ {job.on} : session'[b] = session[b]
  BY SessionTypes DEF SessionsInv, SessionsTyped
<1>1. /\ calls' \in [Call -> S!SessionJobs \cup {Idle}] /\ Turns'
      /\ calls'[c] = next /\ \A d \in Call \ {c} : calls'[d] = calls[d]
      /\ \A d \in Call \ {c} : calls[d] # Idle => calls[d].on # job.on
      /\ \A b \in Browser : \A k, u : HoldsKey(b, k, u)' =>
           IF b = job.on
           THEN /\ k # S!NoKey
                /\ \/ now.key = k /\ now.user = u
                   \/ next # Idle /\ next.do \in {"record", "respond"}
                      /\ next.row.key = k /\ next.row.user = u
           ELSE HoldsKey(b, k, u)
  BY <1>0, CallGoesOn
<1>3. keys \in Nat /\ over \subseteq 1..keys /\ MaxKeys \in Nat
  BY SessionTypes DEF SessionsInv, SessionsTyped
<1>4. SessionsTyped'
  BY <1>0, <1>1, <1>3 DEF SessionsInv, SessionsTyped
<1>5. KeysHeld'
  <2>1. \A b \in Browser, k \in 0..MaxKeys : \A u : HoldsKey(b, k, u)' =>
          \/ HoldsKey(b, k, u)
          \/ k = keys + 1 /\ keys' = k /\ b = job.on
    BY <1>1 DEF Owns
  <2>2. QED  BY <2>1, KeysStep
<1>6. RowsListed'
  <2>1. \A i \in DOMAIN listed : listed[i].key \in Nat
    BY <1>3, SessionTypes DEF SessionsInv
  <2>2. QED  BY <1>3, <2>1 DEF SessionsInv, RowsListed
<1>7. \A b \in Browser \ {job.on} : Quiet(b)
  BY <1>0 DEF Quiet, Shown, S!RowsOf
<1>8. \A d \in Call : calls'[d] # Idle /\ calls'[d].on \notin {job.on} => calls'[d] = calls[d]
  BY <1>1
<1>9. ASSUME NEW d \in Call, calls'[d] # Idle, calls'[d].on \in {job.on}
      PROVE  SessionJobStands(calls[d])'
  <2>1. d = c
    BY <1>1, <1>9
  <2>2. QED  BY <1>1, <1>9, <2>1
<1>10. \A d \in Call : (calls[d] # Idle /\ calls[d].on \in {job.on} => SessionJobStands(calls[d]))'
  BY <1>9
<1>11. \A b \in Browser \cap {job.on} : BrowserStands(b)'
  OBVIOUS
<1>12. QED  BY <1>4, <1>1, <1>5, <1>6, <1>7, <1>8, <1>10, <1>11, SessionsKept

LEMMA SessionJob ==
  ASSUME SessionsInv, NEW c \in Call, calls[c] # Idle
  PROVE  \E job \in S!SessionJobs :
           /\ job = calls[c] /\ job # Idle /\ job.on \in Browser /\ SessionJobStands(job)
           /\ job.row \in S!Session /\ job.row.key \in 0..MaxKeys
           /\ session[job.on] \in S!Session
           /\ \A d \in Call \ {c} : calls[d] # Idle => calls[d].on # job.on
  <1>1. calls[c] \in S!SessionJobs /\ calls[c].on \in Browser /\ calls[c].row \in S!Session
        /\ calls[c].row.key \in 0..MaxKeys /\ SessionJobStands(calls[c])
    BY SessionTypes DEF SessionsInv
  <1>2. QED  BY <1>1 DEF SessionsInv, SessionsTyped, Turns

LEMMA LoseStep ==
  ASSUME SessionsInv, NEW c \in Call, S!LoseCall(c)
  PROVE  SessionsInv'
<1>1. /\ calls[c] # Idle /\ S!Goes(c, Idle) /\ UNCHANGED <<session, factor, listed, keys, hidden, over>>
  BY DEF S!LoseCall, S!End
<1>2. PICK job \in S!SessionJobs : job = calls[c] /\ job # Idle /\ job.on \in Browser
  BY <1>1, SessionJob
<1>3. PICK now \in S!Session : now = session[job.on]
  BY <1>2 DEF SessionsInv, SessionsTyped
<1>4. session' = [session EXCEPT ![job.on] = now] /\ session \in [Browser -> S!Session]
  BY <1>1, <1>2, <1>3 DEF SessionsInv, SessionsTyped
<1>5. Owns(job.on, now.key, now.user)
  BY <1>3 DEF HoldsKey, Owns
<1>6. BrowserStands(job.on)'
  BY <1>1, <1>2 DEF SessionsInv, SignedInShown, BrowserStands, Shown, S!RowsOf
<1>7. keys \in 0..MaxKeys /\ MaxKeys \in Nat
  BY SessionTypes DEF SessionsInv, SessionsTyped
<1>8. /\ keys' \in 0..MaxKeys /\ keys <= keys' /\ hidden \subseteq hidden'
      /\ factor' = factor /\ listed' = listed /\ over' = over
  BY <1>1, <1>7
<1>9. S!Goes(c, Idle) /\ Idle \in S!SessionJobs \cup {Idle}
  BY <1>1
<1>10. QED  BY <1>2, <1>4, <1>5, <1>6, <1>8, <1>9, RowsAloneStep

LEMMA SignInStep ==
  ASSUME SessionsInv, NEW c \in Call, S!SignIn(c)
  PROVE  SessionsInv'
<1>1. calls[c] # Idle /\ UNCHANGED <<factor, listed, hidden, over>>
  BY DEF S!SignIn, S!Does
<1>2. PICK job \in S!SessionJobs :
        /\ job = calls[c] /\ job # Idle /\ job.on \in Browser /\ SessionJobStands(job)
        /\ job.row \in S!Session /\ session[job.on] \in S!Session
  BY <1>1, SessionJob
<1>3. job.do = "login" /\ job.row.user \in Member
  BY <1>2 DEF S!SignIn, S!Does, SessionJobStands
<1>4. /\ keys \in 0..MaxKeys /\ MaxKeys \in Nat /\ session \in [Browser -> S!Session]
      /\ S!Anonymous \in S!Session /\ S!Anonymous.user = S!Nobody /\ S!Anonymous.key = S!NoKey
      /\ S!NoKey = 0 /\ S!Nobody \notin Member
  BY SessionTypes DEF SessionsInv, SessionsTyped
<1>5. ASSUME session[job.on].user = job.row.user,
             S!Goes(c, [job EXCEPT !.do = "record", !.row.key = session[job.on].key]),
             UNCHANGED <<session, keys>>
      PROVE  SessionsInv'
  <2>1. PICK now \in S!Session : now = session[job.on]
    BY <1>2
  <2>2. PICK next : next = [job EXCEPT !.do = "record", !.row.key = now.key]
    OBVIOUS
  <2>3. /\ next \in S!SessionJobs /\ next.do = "record" /\ next.on = job.on
        /\ next.row.key = now.key /\ next.row.user = job.row.user
    BY <2>2 DEF S!SessionJobs, S!Session
  <2>4. S!Goes(c, next) /\ next \in S!SessionJobs \cup {Idle}
    BY <1>5, <2>1, <2>2, <2>3
  <2>5. Owns(job.on, now.key, now.user) /\ Owns(job.on, next.row.key, next.row.user)
    BY <1>5, <2>1, <2>3 DEF HoldsKey, Owns
  <2>6. BrowserStands(job.on)'
    BY <1>1, <1>2, <1>5 DEF SessionsInv, SignedInShown, BrowserStands, Shown, S!RowsOf
  <2>7. SessionJobStands(next)'
    BY <1>3, <1>5, <2>1, <2>3 DEF SessionJobStands
  <2>8. /\ keys' \in 0..MaxKeys /\ keys <= keys' /\ hidden \subseteq hidden'
        /\ factor' = factor /\ listed' = listed /\ over' = over
        /\ session' = [session EXCEPT ![job.on] = now]
    BY <1>1, <1>4, <1>5, <2>1
  <2>9. QED  BY <1>2, <2>3, <2>4, <2>5, <2>6, <2>7, <2>8, RowsAloneStep
<1>6. ASSUME NEW row \in S!Session, row.user = job.row.user,
             session' = [session EXCEPT ![job.on] = S!Anonymous],
             S!Goes(c, [job EXCEPT !.do = "record", !.row = row]),
             keys' \in 0..MaxKeys, keys <= keys',
             row.key = S!NoKey \/ (row.key = keys + 1 /\ keys' = row.key)
      PROVE  SessionsInv'
  <2>2. PICK next : next = [job EXCEPT !.do = "record", !.row = row]
    OBVIOUS
  <2>3. next \in S!SessionJobs /\ next.do = "record" /\ next.on = job.on /\ next.row = row
    BY <2>2 DEF S!SessionJobs
  <2>4. S!Goes(c, next) /\ next \in S!SessionJobs \cup {Idle}
    BY <1>6, <2>2, <2>3
  <2>5. session'[job.on] = S!Anonymous
    BY <1>2, <1>4, <1>6
  <2>6. BrowserStands(job.on)'
    BY <1>4, <2>5 DEF BrowserStands
  <2>7. SessionJobStands(next)'
    BY <1>3, <1>6, <2>3, <2>5 DEF SessionJobStands, S!Anonymous
  <2>8. PICK now \in S!Session : now = S!Anonymous
    BY <1>4
  <2>9. Owns(job.on, now.key, now.user) /\ Owns(job.on, next.row.key, next.row.user)
    BY <1>4, <1>6, <2>3, <2>8 DEF Owns
  <2>10. /\ keys' \in 0..MaxKeys /\ keys <= keys' /\ hidden \subseteq hidden'
         /\ factor' = factor /\ listed' = listed /\ over' = over
         /\ session' = [session EXCEPT ![job.on] = now]
    BY <1>1, <1>6, <2>8
  <2>11. QED  BY <1>2, <2>3, <2>4, <2>6, <2>7, <2>9, <2>10, RowsAloneStep
<1>7. CASE session[job.on].user = S!Nobody
  <2>1. /\ keys < MaxKeys /\ keys' = keys + 1
        /\ session' = [session EXCEPT ![job.on] = S!Anonymous]
        /\ S!Goes(c, [job EXCEPT !.do = "record", !.row.key = keys'])
    BY <1>2, <1>3, <1>4, <1>7 DEF S!SignIn
  <2>2. PICK key \in 0..MaxKeys : key = keys' /\ key = keys + 1 /\ keys <= keys'
    BY <1>4, <2>1
  <2>3. PICK row \in S!Session :
          row = [job.row EXCEPT !.key = key] /\ row.key = key /\ row.user = job.row.user
    <3>1. ASSUME NEW old \in S!Session
          PROVE  LET new == [old EXCEPT !.key = key] IN
                 new \in S!Session /\ new.key = key /\ new.user = old.user
      BY DEF S!Session
    <3>2. QED  BY <1>2, <3>1
  <2>4. S!Goes(c, [job EXCEPT !.do = "record", !.row = row])
    BY <2>1, <2>2, <2>3
  <2>5. QED  BY <1>6, <2>1, <2>2, <2>3, <2>4
<1>8. CASE session[job.on].user \notin {job.row.user, S!Nobody}
  <2>1. /\ keys' = keys
        /\ session' = [session EXCEPT ![job.on] = S!Anonymous]
        /\ S!Goes(c, [job EXCEPT !.do = "record", !.row.pending = S!Nobody])
    BY <1>2, <1>8 DEF S!SignIn
  <2>2. PICK row \in S!Session :
          row = [job.row EXCEPT !.pending = S!Nobody] /\ row.key = job.row.key /\ row.user = job.row.user
    <3>1. ASSUME NEW old \in S!Session
          PROVE  LET new == [old EXCEPT !.pending = S!Nobody] IN
                 new \in S!Session /\ new.key = old.key /\ new.user = old.user
      BY DEF S!Session
    <3>2. QED  BY <1>2, <3>1
  <2>3. S!Goes(c, [job EXCEPT !.do = "record", !.row = row])
    BY <2>1, <2>2
  <2>4. job.row.key = S!NoKey
    BY <1>2, <1>3 DEF SessionJobStands
  <2>5. keys' \in 0..MaxKeys /\ keys <= keys'
    BY <1>4, <2>1
  <2>6. QED  BY <1>6, <2>1, <2>2, <2>3, <2>4, <2>5
<1>9. CASE session[job.on].user = job.row.user
  <2>1. /\ UNCHANGED <<session, keys>>
        /\ S!Goes(c, [job EXCEPT !.do = "record", !.row.key = session[job.on].key])
    BY <1>2, <1>3, <1>4, <1>9 DEF S!SignIn
  <2>2. QED  BY <1>5, <1>9, <2>1
<1>10. QED  BY <1>7, <1>8, <1>9

LEMMA RespondStep ==
  ASSUME SessionsInv, NEW c \in Call, S!Respond(c)
  PROVE  SessionsInv'
<1>1. calls[c] # Idle /\ S!Goes(c, Idle) /\ factor' = factor /\ listed' = listed /\ over' = over
  BY DEF S!Respond, S!Does, S!End
<1>2. PICK job \in S!SessionJobs :
        /\ job = calls[c] /\ job # Idle /\ job.on \in Browser /\ SessionJobStands(job)
        /\ job.row \in S!Session
  BY <1>1, SessionJob
<1>3. PICK old \in S!Session : old = job.row
  BY <1>2
<1>4. /\ job.do = "respond" /\ old.user \in Member
      /\ keys \in 0..MaxKeys /\ MaxKeys \in Nat /\ session \in [Browser -> S!Session]
      /\ S!NoKey = 0
  BY <1>2, <1>3, SessionTypes DEF S!Respond, S!Does, SessionJobStands, SessionsInv, SessionsTyped
<1>5. /\ old.key = S!NoKey => keys < MaxKeys
      /\ keys' = IF old.key = S!NoKey THEN keys + 1 ELSE keys
      /\ hidden' = IF old.key = S!NoKey THEN hidden \cup {keys'} ELSE hidden
      /\ session' = [session EXCEPT ![job.on] =
           [key |-> IF old.key = S!NoKey THEN keys' ELSE old.key, user |-> old.user, pending |-> old.pending]]
  BY <1>2, <1>3 DEF S!Respond
<1>6. PICK now \in S!Session :
        /\ session' = [session EXCEPT ![job.on] = now] /\ now.user = old.user
        /\ now.key = IF old.key = S!NoKey THEN keys' ELSE old.key
  <2>1. PICK key \in 0..MaxKeys : key = IF old.key = S!NoKey THEN keys' ELSE old.key
    BY <1>4, <1>5 DEF S!Session
  <2>2. PICK now : now = [key |-> key, user |-> old.user, pending |-> old.pending]
    OBVIOUS
  <2>3. now \in S!Session
    BY <2>2 DEF S!Session
  <2>4. QED  BY <1>5, <2>1, <2>2, <2>3
<1>7. keys' \in 0..MaxKeys /\ keys <= keys' /\ hidden \subseteq hidden'
  BY <1>4, <1>5
<1>8. Owns(job.on, now.key, now.user)
  BY <1>2, <1>3, <1>4, <1>5, <1>6 DEF Owns, HoldsKey
<1>9. BrowserStands(job.on)'
  <2>1. session'[job.on] = now
    BY <1>2, <1>4, <1>6
  <2>2. now.key # S!NoKey
    BY <1>4, <1>5, <1>6
  <2>3. now.key \in hidden' \/ S!RowsOf(now.user, now.key)' # {}
    <3>1. CASE old.key = S!NoKey
      BY <1>5, <1>6, <3>1
    <3>2. CASE old.key # S!NoKey
      <4>1. Shown(old.user, old.key)
        BY <1>2, <1>3, <1>4, <3>2 DEF SessionJobStands
      <4>2. QED  BY <1>1, <1>5, <1>6, <3>2, <4>1 DEF Shown, S!RowsOf
    <3>3. QED  BY <3>1, <3>2
  <2>4. QED  BY <2>1, <2>2, <2>3 DEF BrowserStands, Shown, S!RowsOf
<1>10. Idle \in S!SessionJobs \cup {Idle}
  OBVIOUS
<1>11. QED  BY <1>1, <1>2, <1>6, <1>7, <1>8, <1>9, <1>10, RowsAloneStep

\* A login's row has the session's key, which is its browser's alone.
LEMMA RecordStep ==
  ASSUME SessionsInv, NEW c \in Call, S!RecordLogin(c)
  PROVE  SessionsInv'
<1>1. calls[c] # Idle /\ UNCHANGED <<session, factor, keys, hidden, over>>
  BY DEF S!RecordLogin, S!Does
<1>2. PICK job \in S!SessionJobs :
        /\ job = calls[c] /\ job # Idle /\ job.on \in Browser /\ SessionJobStands(job)
        /\ job.row.key \in 0..MaxKeys
        /\ \A d \in Call \ {c} : calls[d] # Idle => calls[d].on # job.on
  BY <1>1, SessionJob
<1>3. PICK u, k : u = job.row.user /\ k = job.row.key
  OBVIOUS
<1>4. job.do = "record" /\ u \in Member /\ k \in 0..MaxKeys /\ S!AddRow(u, k)
  BY <1>2, <1>3 DEF S!RecordLogin, S!Does, S!KeyRecorded, SessionJobStands
<1>5. PICK next : next = [job EXCEPT !.do = "respond"]
  OBVIOUS
<1>6. next \in S!SessionJobs \cup {Idle} /\ next.do = "respond" /\ next.on = job.on /\ next.row = job.row
  BY <1>5 DEF S!SessionJobs
<1>7. S!Goes(c, next)
  BY <1>2, <1>5 DEF S!RecordLogin
<1>8. /\ calls' \in [Call -> S!SessionJobs \cup {Idle}] /\ Turns'
      /\ calls'[c] = next /\ \A d \in Call \ {c} : calls'[d] = calls[d]
      /\ \A b \in Browser : \A j, v : HoldsKey(b, j, v)' =>
           IF b = job.on
           THEN /\ j # S!NoKey
                /\ \/ session'[b].key = j /\ session'[b].user = v
                   \/ next # Idle /\ next.do \in {"record", "respond"}
                      /\ next.row.key = j /\ next.row.user = v
           ELSE HoldsKey(b, j, v)
  BY <1>1, <1>2, <1>6, <1>7, CallGoesOn
<1>9. SessionsTyped
  BY DEF SessionsInv
<1>10. /\ listed' \in Seq(S!Row) /\ DOMAIN listed \subseteq DOMAIN listed'
       /\ \A i \in DOMAIN listed : listed'[i] = listed[i]
       /\ \A i \in DOMAIN listed' \ DOMAIN listed :
            listed'[i].user = u /\ listed'[i].key = k /\ listed'[i].active
  BY <1>4, <1>9, RowAdded
<1>11. Shown(u, k)' /\ \A v, j : Shown(v, j) => Shown(v, j)'
  BY <1>1, <1>4, <1>9, ShownAdded
<1>12. k # S!NoKey => HoldsKey(job.on, k, u)
  BY <1>2, <1>3, <1>4 DEF HoldsKey
<1>13. \A b \in Browser : \A j, v : HoldsKey(b, j, v)' => HoldsKey(b, j, v)
  BY <1>1, <1>2, <1>3, <1>6, <1>8, <1>12 DEF HoldsKey
<1>14. \A b \in Browser \ {job.on} : \A v : ~HoldsKey(b, k, v)
  <2>1. CASE k = S!NoKey
    BY <2>1 DEF HoldsKey
  <2>2. CASE k # S!NoKey
    BY <1>2, <1>4, <1>12, <2>2 DEF SessionsInv, KeysHeld
  <2>3. QED  BY <2>1, <2>2
<1>15. \A j, v : HoldsKey(job.on, j, v) /\ j = k => v = u
  <2>1. session[job.on] = S!Anonymous \/ session[job.on].user = u
    BY <1>2, <1>3, <1>4 DEF SessionJobStands
  <2>2. S!Anonymous.key = S!NoKey
    BY SessionTypes, <1>9
  <2>3. QED  BY <1>2, <1>3, <2>1, <2>2 DEF HoldsKey
<1>16. SessionsTyped'
  BY <1>1, <1>8, <1>9, <1>10 DEF SessionsTyped
<1>17. KeysHeld'
  <2>1. \A i \in DOMAIN listed' :
          \/ i \in DOMAIN listed /\ listed'[i].key = listed[i].key /\ listed'[i].user = listed[i].user
          \/ \A b \in Browser : \A j, v : HoldsKey(b, j, v)' /\ j = listed'[i].key => v = listed'[i].user
    BY <1>10, <1>13, <1>14, <1>15
  <2>2. keys' \in 0..MaxKeys /\ keys <= keys' /\ over' = over
    BY <1>1, <1>9, SessionTypes DEF SessionsTyped
  <2>3. \A b \in Browser, j \in 0..MaxKeys : \A v : HoldsKey(b, j, v)' =>
          \/ HoldsKey(b, j, v)
          \/ j = keys + 1 /\ keys' = j /\ b = job.on
    BY <1>13
  <2>4. \A j \in over' \ over : \A b \in Browser : \A v : ~HoldsKey(b, j, v)'
    BY <2>2
  <2>5. QED  BY <2>1, <2>2, <2>3, <2>4, KeysStep
<1>18. RowsListed'
  <2>1. k <= keys /\ k \notin over
    <3>1. CASE k = S!NoKey
      BY <1>9, <3>1, SessionTypes DEF SessionsTyped
    <3>2. CASE k # S!NoKey
      BY <1>2, <1>4, <1>12, <3>2 DEF SessionsInv, KeysHeld
    <3>3. QED  BY <3>1, <3>2
  <2>2. QED  BY <1>1, <1>10, <2>1 DEF SessionsInv, RowsListed
<1>19. \A b \in Browser \ {job.on} : Quiet(b)
  <2>1. \A b \in Browser \ {job.on} : \A i \in DOMAIN listed' :
          \/ /\ i \in DOMAIN listed /\ listed'[i].key = listed[i].key
             /\ listed'[i].active => listed[i].active
          \/ \A v : ~HoldsKey(b, listed'[i].key, v)
    BY <1>10, <1>14
  <2>2. QED  BY <1>1, <1>11, <2>1 DEF Quiet
<1>20. BrowserStands(job.on)'
  <2>1. PICK now : now = session[job.on] /\ session'[job.on] = now
    BY <1>1
  <2>2. ASSUME now.user # S!Nobody PROVE now.key # S!NoKey /\ Shown(now.user, now.key)'
    BY <1>2, <1>11, <2>1, <2>2 DEF SessionsInv, SignedInShown
  <2>3. QED  BY <2>1, <2>2 DEF BrowserStands
<1>21. SessionJobStands(next)'
  <2>1. Shown(next.row.user, next.row.key)'
    BY <1>3, <1>6, <1>11
  <2>2. QED  BY <1>1, <1>2, <1>3, <1>4, <1>6, <2>1 DEF SessionJobStands
<1>22. \A d \in Call : (calls[d] # Idle /\ calls[d].on \in {job.on} => SessionJobStands(calls[d]))'
  <2>1. ASSUME NEW d \in Call, calls'[d] # Idle, calls'[d].on = job.on PROVE SessionJobStands(calls[d])'
    <3>1. d = c
      BY <1>2, <1>8, <2>1
    <3>2. QED  BY <1>8, <1>21, <3>1
  <2>2. QED  BY <2>1
<1>23. \A d \in Call : calls'[d] # Idle /\ calls'[d].on \notin {job.on} => calls'[d] = calls[d]
  BY <1>6, <1>8
<1>24. \A b \in Browser \cap {job.on} : BrowserStands(b)'
  BY <1>20
<1>25. QED  BY <1>8, <1>16, <1>17, <1>18, <1>19, <1>22, <1>23, <1>24, SessionsKept

\* A logout takes all rows of its session off the list, ...
LEMMA TakeOffStep ==
  ASSUME SessionsInv, NEW c \in Call, S!TakeOffList(c)
  PROVE  SessionsInv'
<1>1. calls[c] # Idle /\ UNCHANGED <<session, factor, keys, over>>
  BY DEF S!TakeOffList, S!Does
<1>2. PICK job \in S!SessionJobs :
        /\ job = calls[c] /\ job # Idle /\ job.on \in Browser /\ SessionJobStands(job)
        /\ job.row.key \in 0..MaxKeys
        /\ \A d \in Call \ {c} : calls[d] # Idle => calls[d].on # job.on
  BY <1>1, SessionJob
<1>3. PICK u, k : u = job.row.user /\ k = job.row.key
  OBVIOUS
<1>4. job.do = "logout" /\ job.row = session[job.on] /\ u # S!Nobody /\ k # S!NoKey
  BY <1>2, <1>3 DEF S!TakeOffList, S!Does, SessionJobStands, SessionsInv, SignedInShown
<1>5. PICK ids \in SUBSET (DOMAIN listed) :
        ids = {i \in DOMAIN listed : listed[i].user = u /\ listed[i].key = k /\ listed[i].active}
  OBVIOUS
<1>6. S!Deactivate(ids) /\ hidden' = hidden \cup {k}
  BY <1>2, <1>3, <1>5 DEF S!TakeOffList, S!ToLogOut, S!RowsOf
<1>7. PICK next : next = [job EXCEPT !.do = "flush"]
  OBVIOUS
<1>8. next \in S!SessionJobs \cup {Idle} /\ next.do = "flush" /\ next.on = job.on /\ next.row = job.row
  BY <1>7 DEF S!SessionJobs
<1>9. S!Goes(c, next)
  BY <1>2, <1>7 DEF S!TakeOffList
<1>10. /\ calls' \in [Call -> S!SessionJobs \cup {Idle}] /\ Turns'
       /\ calls'[c] = next /\ \A d \in Call \ {c} : calls'[d] = calls[d]
       /\ \A b \in Browser : \A j, v : HoldsKey(b, j, v)' =>
            IF b = job.on
            THEN /\ j # S!NoKey
                 /\ \/ session'[b].key = j /\ session'[b].user = v
                    \/ next # Idle /\ next.do \in {"record", "respond"}
                       /\ next.row.key = j /\ next.row.user = v
            ELSE HoldsKey(b, j, v)
  BY <1>1, <1>2, <1>8, <1>9, CallGoesOn
<1>11. SessionsTyped
  BY DEF SessionsInv
<1>12. /\ listed' \in Seq(S!Row) /\ DOMAIN listed' = DOMAIN listed
       /\ \A i \in DOMAIN listed :
            /\ listed'[i].key = listed[i].key /\ listed'[i].user = listed[i].user
            /\ listed'[i].active <=> listed[i].active /\ i \notin ids
  BY <1>6, <1>11, RowsTakenOff
<1>13. \A v, j : j # S!NoKey /\ Shown(v, j) => Shown(v, j)'
  <2>1. hidden \subseteq hidden' /\ \A i \in ids : listed[i].key # S!NoKey => listed[i].key \in hidden'
    BY <1>5, <1>6
  <2>2. QED  BY <1>6, <1>11, <2>1, ShownTakenOff
<1>14. HoldsKey(job.on, k, u)
  BY <1>3, <1>4 DEF HoldsKey
<1>15. \A b \in Browser : \A j, v : HoldsKey(b, j, v)' => HoldsKey(b, j, v)
  BY <1>1, <1>8, <1>10 DEF HoldsKey
<1>16. SessionsTyped'
  BY <1>1, <1>10, <1>11, <1>12 DEF SessionsTyped
<1>17. KeysHeld'
  <2>1. keys' \in 0..MaxKeys /\ keys <= keys' /\ over' = over
    BY <1>1, <1>11, SessionTypes DEF SessionsTyped
  <2>2. \A b \in Browser, j \in 0..MaxKeys : \A v : HoldsKey(b, j, v)' =>
          \/ HoldsKey(b, j, v)
          \/ j = keys + 1 /\ keys' = j /\ b = job.on
    BY <1>15
  <2>3. \A j \in over' \ over : \A b \in Browser : \A v : ~HoldsKey(b, j, v)'
    BY <2>1
  <2>4. \A i \in DOMAIN listed' :
          \/ i \in DOMAIN listed /\ listed'[i].key = listed[i].key /\ listed'[i].user = listed[i].user
          \/ \A b \in Browser : \A j, v : HoldsKey(b, j, v)' /\ j = listed'[i].key => v = listed'[i].user
    BY <1>12
  <2>5. QED  BY <2>1, <2>2, <2>3, <2>4, KeysStep
<1>18. RowsListed'
  BY <1>1, <1>12 DEF SessionsInv, RowsListed
<1>19. \A b \in Browser : Quiet(b)
  <2>1. \A b \in Browser : \A j, v : HoldsKey(b, j, v) => (Shown(v, j) => Shown(v, j)')
    BY <1>13 DEF HoldsKey
  <2>2. QED  BY <1>1, <1>6, <1>12, <2>1 DEF Quiet
<1>20. BrowserStands(job.on)'
  BY <1>2, <1>19, QuietBrowser
<1>21. SessionJobStands(next)'
  <2>1. \A i \in DOMAIN listed : listed[i].key = k => listed[i].user = u
    BY <1>2, <1>3, <1>14 DEF SessionsInv, KeysHeld
  <2>2. \A i \in DOMAIN listed' : listed'[i].key = k => ~listed'[i].active
    BY <1>5, <1>12, <2>1
  <2>3. QED  BY <1>1, <1>2, <1>3, <1>4, <1>6, <1>8, <2>2 DEF SessionJobStands
<1>22. \A d \in Call : (calls[d] # Idle /\ calls[d].on \in {job.on} => SessionJobStands(calls[d]))'
  <2>1. ASSUME NEW d \in Call, calls'[d] # Idle, calls'[d].on = job.on PROVE SessionJobStands(calls[d])'
    <3>1. d = c
      BY <1>2, <1>10, <2>1
    <3>2. QED  BY <1>10, <1>21, <3>1
  <2>2. QED  BY <2>1
<1>23. \A d \in Call : calls'[d] # Idle /\ calls'[d].on \notin {job.on} => calls'[d] = calls[d]
  BY <1>8, <1>10
<1>24. /\ \A b \in Browser \cap {job.on} : BrowserStands(b)'
       /\ \A b \in Browser \ {job.on} : Quiet(b)
  BY <1>19, <1>20
<1>25. QED  BY <1>10, <1>16, <1>17, <1>18, <1>22, <1>23, <1>24, SessionsKept

\* ... and then gives up the session, which no other browser has.
LEMMA FlushStep ==
  ASSUME SessionsInv, NEW c \in Call, S!Flush(c)
  PROVE  SessionsInv'
<1>1. calls[c] # Idle /\ S!Goes(c, Idle) /\ UNCHANGED <<factor, listed, keys>>
  BY DEF S!Flush, S!Does, S!End
<1>2. PICK job \in S!SessionJobs :
        /\ job = calls[c] /\ job # Idle /\ job.on \in Browser /\ SessionJobStands(job)
        /\ job.row.key \in 0..MaxKeys
        /\ \A d \in Call \ {c} : calls[d] # Idle => calls[d].on # job.on
  BY <1>1, SessionJob
<1>3. PICK u, k : u = job.row.user /\ k = job.row.key
  OBVIOUS
<1>4. /\ job.do = "flush" /\ job.row = session[job.on] /\ u # S!Nobody /\ k # S!NoKey
      /\ \A i \in DOMAIN listed : listed[i].key = k => ~listed[i].active
  BY <1>2, <1>3 DEF S!Flush, S!Does, SessionJobStands, SessionsInv, SignedInShown
<1>5. /\ session' = [session EXCEPT ![job.on] = S!Anonymous]
      /\ over' = over \cup {k} /\ hidden' = hidden \ {k}
  BY <1>2, <1>3 DEF S!Flush
<1>6. SessionsTyped /\ S!Anonymous \in S!Session /\ S!Anonymous.user = S!Nobody /\ S!Anonymous.key = S!NoKey
  BY SessionTypes DEF SessionsInv
<1>7. /\ session'[job.on] = S!Anonymous /\ session' \in [Browser -> S!Session]
      /\ \A b \in Browser \ {job.on} : session'[b] = session[b]
  BY <1>2, <1>5, <1>6 DEF SessionsTyped
<1>8. /\ calls' \in [Call -> S!SessionJobs \cup {Idle}] /\ Turns'
      /\ calls'[c] = Idle /\ \A d \in Call \ {c} : calls'[d] = calls[d]
      /\ \A b \in Browser : \A j, v : HoldsKey(b, j, v)' =>
           IF b = job.on
           THEN j # S!NoKey /\ session'[b].key = j /\ session'[b].user = v
           ELSE HoldsKey(b, j, v)
  <2>1. Idle \in S!SessionJobs \cup {Idle}
    OBVIOUS
  <2>2. QED  BY <1>1, <1>2, <1>7, <2>1, CallGoesOn
<1>9. HoldsKey(job.on, k, u) /\ k \in 0..MaxKeys
  BY <1>2, <1>3, <1>4 DEF HoldsKey
<1>10. /\ k <= keys /\ k \in 1..keys
       /\ \A b \in Browser \ {job.on} : \A v : ~HoldsKey(b, k, v)
  <2>1. k <= keys /\ \A b \in Browser \ {job.on} : \A v : ~HoldsKey(b, k, v)
    BY <1>2, <1>9 DEF SessionsInv, KeysHeld
  <2>2. QED  BY <1>4, <1>6, <1>9, <2>1, SessionTypes DEF SessionsTyped
<1>11. \A b \in Browser : \A j, v : HoldsKey(b, j, v)' => b # job.on /\ HoldsKey(b, j, v)
  BY <1>6, <1>7, <1>8
<1>12. SessionsTyped'
  BY <1>1, <1>5, <1>6, <1>7, <1>8, <1>10 DEF SessionsTyped
<1>13. KeysHeld'
  <2>1. keys' \in 0..MaxKeys /\ keys <= keys'
    BY <1>1, <1>6, SessionTypes DEF SessionsTyped
  <2>2. \A b \in Browser, j \in 0..MaxKeys : \A v : HoldsKey(b, j, v)' =>
          \/ HoldsKey(b, j, v)
          \/ j = keys + 1 /\ keys' = j /\ b = job.on
    BY <1>11
  <2>3. \A j \in over' \ over : \A b \in Browser : \A v : ~HoldsKey(b, j, v)'
    BY <1>5, <1>10, <1>11
  <2>4. \A i \in DOMAIN listed' :
          \/ i \in DOMAIN listed /\ listed'[i].key = listed[i].key /\ listed'[i].user = listed[i].user
          \/ \A b \in Browser : \A j, v : HoldsKey(b, j, v)' /\ j = listed'[i].key => v = listed'[i].user
    BY <1>1
  <2>5. QED  BY <2>1, <2>2, <2>3, <2>4, KeysStep
<1>14. RowsListed'
  BY <1>1, <1>4, <1>5 DEF SessionsInv, RowsListed
<1>15. \A b \in Browser \ {job.on} : Quiet(b)
  <2>1. \A j, v : j # k => (Shown(v, j) => Shown(v, j)') /\ (j \in hidden => j \in hidden')
    BY <1>1, <1>5 DEF Shown, S!RowsOf
  <2>2. \A i \in DOMAIN listed' :
          /\ i \in DOMAIN listed /\ listed'[i].key = listed[i].key
          /\ listed'[i].active => listed[i].active
    BY <1>1
  <2>3. QED  BY <1>7, <1>10, <2>1, <2>2 DEF Quiet
<1>16. \A b \in Browser \cap {job.on} : BrowserStands(b)'
  BY <1>6, <1>7 DEF BrowserStands
<1>17. \A d \in Call : (calls[d] # Idle /\ calls[d].on \in {job.on} => SessionJobStands(calls[d]))'
  BY <1>2, <1>8
<1>18. \A d \in Call : calls'[d] # Idle /\ calls'[d].on \notin {job.on} => calls'[d] = calls[d]
  BY <1>8
<1>19. QED  BY <1>8, <1>12, <1>13, <1>14, <1>15, <1>16, <1>17, <1>18, SessionsKept

LEMMA AskStep ==
  ASSUME SessionsInv, NEW b \in Browser, NEW u \in Member, S!AskForCode(b, u)
  PROVE  SessionsInv'
<1>1. /\ \A d \in Call : calls[d] # Idle => calls[d].on # b
      /\ UNCHANGED <<calls, factor, listed, hidden, over>>
  BY DEF S!AskForCode, S!Rests
<1>2. SessionsTyped /\ S!NoKey = 0 /\ MaxKeys \in Nat /\ S!Nobody \notin Member
  BY SessionTypes DEF SessionsInv
<1>3. PICK old \in S!Session : old = session[b]
  BY <1>2 DEF SessionsTyped
<1>4. PICK now \in S!Session :
        /\ session' = [session EXCEPT ![b] = now]
        /\ keys' \in 0..MaxKeys /\ keys <= keys'
        /\ \/ now.key = old.key /\ now.user = old.user
           \/ now.key = keys + 1 /\ keys' = now.key /\ now.user = S!Nobody
  <2>1. CASE old.key # S!NoKey
    <3>1. session' = [session EXCEPT ![b].pending = u] /\ keys' = keys
      BY <1>3, <2>1 DEF S!AskForCode
    <3>2. PICK now : now = [old EXCEPT !.pending = u]
      OBVIOUS
    <3>3. now \in S!Session /\ now.key = old.key /\ now.user = old.user
      BY <3>2 DEF S!Session
    <3>4. session' = [session EXCEPT ![b] = now]
      BY <1>3, <3>1, <3>2
    <3>5. keys' \in 0..MaxKeys /\ keys <= keys'
      BY <1>2, <3>1 DEF SessionsTyped
    <3>6. QED  BY <3>3, <3>4, <3>5
  <2>2. CASE old.key = S!NoKey
    <3>1. /\ keys < MaxKeys /\ keys' = keys + 1
          /\ session' = [session EXCEPT ![b] = [key |-> keys', user |-> S!Nobody, pending |-> u]]
      BY <1>3, <2>2 DEF S!AskForCode
    <3>2. PICK now : now = [key |-> keys', user |-> S!Nobody, pending |-> u]
      OBVIOUS
    <3>3. keys' \in 0..MaxKeys /\ keys <= keys'
      BY <1>2, <3>1 DEF SessionsTyped
    <3>4. now \in S!Session /\ now.key = keys' /\ now.user = S!Nobody
      BY <3>2, <3>3 DEF S!Session
    <3>5. QED  BY <3>1, <3>2, <3>3, <3>4
  <2>3. QED  BY <2>1, <2>2
<1>5. /\ session'[b] = now /\ session' \in [Browser -> S!Session]
      /\ \A a \in Browser \ {b} : session'[a] = session[a]
  BY <1>2, <1>4 DEF SessionsTyped
<1>6. \A a \in Browser : \A k, v : HoldsKey(a, k, v)' =>
        \/ HoldsKey(a, k, v)
        \/ k = keys + 1 /\ keys' = k /\ a = b
  BY <1>1, <1>3, <1>4, <1>5 DEF HoldsKey
<1>7. keys \in Nat /\ over \subseteq 1..keys
  BY <1>2 DEF SessionsTyped
<1>8. SessionsTyped'
  BY <1>1, <1>2, <1>4, <1>5, <1>7 DEF SessionsTyped
<1>9. KeysHeld'
  <2>1. \A k \in over' \ over : \A a \in Browser : \A v : ~HoldsKey(a, k, v)'
    BY <1>1
  <2>2. \A i \in DOMAIN listed' :
          \/ i \in DOMAIN listed /\ listed'[i].key = listed[i].key /\ listed'[i].user = listed[i].user
          \/ \A a \in Browser : \A j, v : HoldsKey(a, j, v)' /\ j = listed'[i].key => v = listed'[i].user
    BY <1>1
  <2>3. keys' \in 0..MaxKeys /\ keys <= keys'
    BY <1>4
  <2>4. QED  BY <1>6, <2>1, <2>2, <2>3, KeysStep
<1>10. RowsListed'
  <2>1. \A i \in DOMAIN listed : listed[i].key \in Nat
    BY <1>2, SessionTypes
  <2>2. QED  BY <1>1, <1>4, <1>7, <2>1 DEF SessionsInv, RowsListed
<1>11. Turns'
  BY <1>1 DEF SessionsInv, Turns
<1>12. \A a \in Browser \ {b} : Quiet(a)
  BY <1>1, <1>5 DEF Quiet, Shown, S!RowsOf
<1>13. \A a \in Browser \cap {b} : BrowserStands(a)'
  BY <1>1, <1>3, <1>4, <1>5 DEF SessionsInv, SignedInShown, BrowserStands, Shown, S!RowsOf
<1>14. \A d \in Call : (calls[d] # Idle /\ calls[d].on \in {b} => SessionJobStands(calls[d]))'
  BY <1>1
<1>15. \A d \in Call : calls'[d] # Idle /\ calls'[d].on \notin {b} => calls'[d] = calls[d]
  BY <1>1
<1>16. QED  BY <1>8, <1>9, <1>10, <1>11, <1>12, <1>13, <1>14, <1>15, SessionsKept

-----------------------------------------------------------------------------
(* Steps of no browser *)

LEMMA RowsOnlyStep ==
  ASSUME SessionsInv, UNCHANGED <<calls, session, keys, over>>, factor' \subseteq Member,
         SessionsTyped => listed' \in Seq(S!Row), RowsListed', \A b \in Browser : Quiet(b),
         \A i \in DOMAIN listed' :
           \/ i \in DOMAIN listed /\ listed'[i].key = listed[i].key /\ listed'[i].user = listed[i].user
           \/ listed'[i].key = S!NoKey
  PROVE  SessionsInv'
<1>1. SessionsTyped'
  BY DEF SessionsInv, SessionsTyped
<1>2. Turns'
  BY DEF SessionsInv, Turns
<1>3. \A b \in Browser : \A k, u : HoldsKey(b, k, u)' => HoldsKey(b, k, u)
  BY DEF HoldsKey
<1>4. KeysHeld'
  <2>1. \A b \in Browser : \A k, u : HoldsKey(b, k, u) => k # S!NoKey
    BY DEF HoldsKey
  <2>2. QED  BY <1>3, <2>1 DEF SessionsInv, KeysHeld
<1>5. PICK none : none = {}
  OBVIOUS
<1>6. /\ \A b \in Browser \ none : Quiet(b)
      /\ \A d \in Call : calls'[d] # Idle /\ calls'[d].on \notin none => calls'[d] = calls[d]
      /\ \A b \in Browser \cap none : BrowserStands(b)'
      /\ \A d \in Call : (calls[d] # Idle /\ calls[d].on \in none => SessionJobStands(calls[d]))'
  BY <1>5
<1>7. QED  BY <1>1, <1>2, <1>4, <1>6, SessionsKept

LEMMA ApiLoginStep ==
  ASSUME SessionsInv, NEW u \in Member, S!ApiLogin(u) \/ S!ApiCodeLogin(u) \/ S!ApiGoogleLogin(u)
  PROVE  SessionsInv'
<1>1. SessionsTyped /\ S!NoKey \in 0..MaxKeys /\ S!NoKey = 0 /\ factor \subseteq Member
  BY SessionTypes DEF SessionsInv, SessionsTyped
<1>2. PICK k \in 0..MaxKeys : k = S!NoKey
  BY <1>1
<1>3. S!AddRow(u, k) /\ UNCHANGED <<calls, session, factor, keys, hidden, over>>
  BY <1>2 DEF S!ApiLogin, S!ApiCodeLogin, S!ApiGoogleLogin
<1>4. /\ listed' \in Seq(S!Row) /\ DOMAIN listed \subseteq DOMAIN listed'
      /\ \A i \in DOMAIN listed : listed'[i] = listed[i]
      /\ \A i \in DOMAIN listed' \ DOMAIN listed :
           listed'[i].user = u /\ listed'[i].key = k /\ listed'[i].active
  BY <1>1, <1>3, RowAdded
<1>5. \A v, j : Shown(v, j) => Shown(v, j)'
  BY <1>1, <1>3, ShownAdded
<1>6. RowsListed'
  <2>1. keys \in Nat /\ 0 \notin over
    BY <1>1, SessionTypes DEF SessionsTyped
  <2>2. QED  BY <1>1, <1>2, <1>3, <1>4, <2>1 DEF SessionsInv, RowsListed
<1>7. \A b \in Browser : Quiet(b)
  <2>1. \A b \in Browser : \A v : ~HoldsKey(b, k, v)
    BY <1>2 DEF HoldsKey
  <2>2. QED  BY <1>3, <1>4, <1>5, <2>1 DEF Quiet
<1>8. QED  BY <1>1, <1>2, <1>3, <1>4, <1>6, <1>7, RowsOnlyStep

LEMMA OffListStep ==
  ASSUME SessionsInv, NEW ids \in SUBSET (DOMAIN listed), S!Deactivate(ids),
         hidden' = hidden \cup ({listed[i].key : i \in ids} \ {S!NoKey}),
         UNCHANGED <<calls, session, factor, keys, over>>
  PROVE  SessionsInv'
<1>1. SessionsTyped /\ factor \subseteq Member
  BY DEF SessionsInv, SessionsTyped
<1>2. /\ listed' \in Seq(S!Row) /\ DOMAIN listed' = DOMAIN listed
      /\ \A i \in DOMAIN listed :
           /\ listed'[i].key = listed[i].key /\ listed'[i].user = listed[i].user
           /\ listed'[i].active <=> listed[i].active /\ i \notin ids
  BY <1>1, RowsTakenOff
<1>3. hidden \subseteq hidden' /\ \A i \in ids : listed[i].key # S!NoKey => listed[i].key \in hidden'
  OBVIOUS
<1>4. \A v, j : j # S!NoKey /\ Shown(v, j) => Shown(v, j)'
  BY <1>1, <1>3, ShownTakenOff
<1>5. RowsListed'
  BY <1>2 DEF SessionsInv, RowsListed
<1>6. \A b \in Browser : Quiet(b)
  <2>1. \A b \in Browser : \A j, v : HoldsKey(b, j, v) => (Shown(v, j) => Shown(v, j)')
    BY <1>4 DEF HoldsKey
  <2>2. QED  BY <1>2, <1>3, <2>1 DEF Quiet
<1>7. QED  BY <1>1, <1>2, <1>5, <1>6, RowsOnlyStep

LEMMA SessionsStep ==
  ASSUME SessionsInv, S!Next \/ UNCHANGED <<calls, sessionVars>>
  PROVE  SessionsInv'
<1>1. SessionsTyped /\ factor \subseteq Member /\ DOMAIN listed \subseteq Nat
  BY DEF SessionsInv, SessionsTyped
<1>2. ASSUME UNCHANGED <<calls, session, listed, keys, hidden, over>>, factor' \subseteq Member
      PROVE  SessionsInv'
  <2>1. \A b \in Browser : Quiet(b)
    BY <1>2 DEF Quiet, Shown, S!RowsOf
  <2>2. RowsListed' /\ listed \in Seq(S!Row)
    BY <1>1, <1>2 DEF SessionsInv, RowsListed, SessionsTyped
  <2>3. QED  BY <1>2, <2>1, <2>2, RowsOnlyStep
<1>3. ASSUME NEW u \in Member, S!TurnFactor(u) PROVE SessionsInv'
  BY <1>1, <1>2, <1>3 DEF S!TurnFactor
<1>4. ASSUME NEW u \in Member, S!ApiLogout(u) PROVE SessionsInv'
  <2>1. PICK ids \in SUBSET (DOMAIN listed) :
          ids = {i \in DOMAIN listed : listed[i].user = u /\ listed[i].active}
    OBVIOUS
  <2>2. /\ S!Deactivate(ids) /\ hidden' = hidden \cup ({listed[i].key : i \in ids} \ {S!NoKey})
        /\ UNCHANGED <<calls, session, factor, keys, over>>
    BY <1>4, <2>1 DEF S!ApiLogout
  <2>3. QED  BY <2>2, OffListStep
<1>5. ASSUME NEW i \in DOMAIN listed, S!RevokeSession(i) PROVE SessionsInv'
  <2>1. PICK ids \in SUBSET (DOMAIN listed) : ids = {i}
    OBVIOUS
  <2>2. {listed[j].key : j \in ids} = {listed[i].key}
    BY <2>1
  <2>3. /\ S!Deactivate(ids) /\ hidden' = hidden \cup ({listed[j].key : j \in ids} \ {S!NoKey})
        /\ UNCHANGED <<calls, session, factor, keys, over>>
    BY <1>5, <2>1, <2>2 DEF S!RevokeSession
  <2>4. QED  BY <2>3, OffListStep
<1>6. ASSUME NEW last \in DOMAIN listed, S!CleanUpSessions(last) PROVE SessionsInv'
  <2>1. 1..last \subseteq DOMAIN listed
    BY <1>1 DEF SessionsTyped
  <2>2. PICK ids \in SUBSET (DOMAIN listed) : ids = {i \in 1..last : listed[i].active}
    BY <2>1
  <2>3. /\ S!Deactivate(ids) /\ hidden' = hidden \cup ({listed[i].key : i \in ids} \ {S!NoKey})
        /\ UNCHANGED <<calls, session, factor, keys, over>>
    BY <1>6, <2>2 DEF S!CleanUpSessions
  <2>4. QED  BY <2>3, OffListStep
<1>7. CASE UNCHANGED <<calls, sessionVars>>
  BY <1>1, <1>2, <1>7 DEF sessionVars
<1>8. ASSUME NEW c \in Call,
             \/ S!SignIn(c) \/ S!RecordLogin(c) \/ S!Respond(c)
             \/ S!TakeOffList(c) \/ S!Flush(c) \/ S!LoseCall(c)
      PROVE  SessionsInv'
  BY <1>8, SignInStep, RecordStep, RespondStep, TakeOffStep, FlushStep, LoseStep
<1>9. ASSUME NEW c \in Call, NEW b \in Browser,
             \/ S!CheckCode(c, b) \/ S!StartLogout(c, b)
             \/ \E u \in Member : S!CheckPassword(c, b, u) \/ S!GoogleLogin(c, b, u)
      PROVE  SessionsInv'
  BY <1>9, BeginsSession
<1>10. ASSUME NEW b \in Browser, NEW u \in Member, S!AskForCode(b, u) PROVE SessionsInv'
  BY <1>10, AskStep
<1>11. ASSUME NEW u \in Member, S!ApiLogin(u) \/ S!ApiCodeLogin(u) \/ S!ApiGoogleLogin(u)
       PROVE  SessionsInv'
  BY <1>11, ApiLoginStep
<1>12. QED
  BY <1>3, <1>4, <1>5, <1>6, <1>7, <1>8, <1>9, <1>10, <1>11 DEF S!Next

\* Where no session moves, the list goes on as it was.
ProfileSessionsInv ==
  IF area = "sessions" THEN SessionsInv ELSE SessionsListed

LEMMA ProfileSessionsStart == ProfileInit => ProfileSessionsInv
<1> SUFFICES ASSUME ProfileInit PROVE ProfileSessionsInv
  OBVIOUS
<1>1. /\ session = [b \in Browser |-> S!Anonymous] /\ factor = {} /\ listed = <<>> /\ keys = 0
      /\ hidden = {} /\ over = {} /\ calls = [c \in Call |-> Idle]
  BY DEF ProfileInit, S!Init
<1>2. S!Anonymous \in S!Session /\ S!Anonymous.user = S!Nobody /\ S!Anonymous.key = S!NoKey
      /\ MaxKeys \in Nat
  BY ProfileAssumption DEF S!Anonymous, S!Session, S!Nobody, S!NoKey
<1>3. listed \in Seq(S!Row) /\ DOMAIN listed = {}
  BY <1>1
<1>4. SessionsTyped
  BY <1>1, <1>2, <1>3 DEF SessionsTyped
<1>5. \A b \in Browser : \A k, u : ~HoldsKey(b, k, u)
  BY <1>1, <1>2 DEF HoldsKey
<1>6. Turns /\ KeysHeld /\ RowsListed /\ SignedInShown
  BY <1>1, <1>2, <1>3, <1>5 DEF Turns, KeysHeld, RowsListed, SignedInShown
<1>7. SessionsInv /\ SessionsListed
  BY <1>1, <1>2, <1>3, <1>4, <1>6 DEF SessionsInv, SessionsListed, S!SessionsListed
<1>8. QED  BY <1>7 DEF ProfileSessionsInv

\* A signed-in browser is on its user's list of active sessions, from its
\* first response on, unless its row was taken off by a revocation, a logout of
\* the JSON views or a logout lost half way; and a session that was logged out
\* is on the list no more (accounts.views, record_login and logout_view).
THEOREM SessionsOnList == ProfileSpec => []SessionsListed
<1>1. ProfileInit => ProfileSessionsInv
  BY ProfileSessionsStart
<1>2. ProfileSessionsInv /\ [ProfileNext]_profileVars => ProfileSessionsInv'
  <2> SUFFICES ASSUME ProfileSessionsInv, [ProfileNext]_profileVars PROVE ProfileSessionsInv'
    OBVIOUS
  <2>1. area' = area
    BY DEF ProfileNext, profileVars
  <2>2. ASSUME area = "sessions" PROVE SessionsInv'
    <3>1. S!Next \/ UNCHANGED <<calls, sessionVars>>
      BY <2>2 DEF ProfileNext, profileVars
    <3>2. QED  BY <2>2, <3>1, SessionsStep DEF ProfileSessionsInv
  <2>3. ASSUME area # "sessions" PROVE SessionsListed'
    <3>1. SessionsListed /\ UNCHANGED sessionVars
      BY <2>3 DEF ProfileSessionsInv, ProfileNext, profileVars
    <3>2. QED  BY <3>1 DEF sessionVars, SessionsListed, S!SessionsListed, S!RowsOf
  <2>4. QED  BY <2>1, <2>2, <2>3 DEF ProfileSessionsInv
<1>3. ProfileSessionsInv => SessionsListed
  <2>1. ASSUME SessionsInv PROVE SessionsListed
    BY <2>1 DEF SessionsInv, SignedInShown, Shown, RowsListed, SessionsListed, S!SessionsListed
  <2>2. QED  BY <2>1 DEF ProfileSessionsInv
<1>4. QED  BY <1>1, <1>2, <1>3, PTL DEF ProfileSpec

=============================================================================
