------------------------------ MODULE Marketing ------------------------------
(***************************************************************************)
(* Referrals: a customer gets a code, another one enters it, and both      *)
(* wallets are credited (marketing.services over payments.services).       *)
(*                                                                         *)
(* Entering a code is five statements with no transaction around them: the *)
(* checks, the signup's row, the two credits, and the mark that the reward *)
(* was granted.                                                            *)
(***************************************************************************)
EXTENDS Requests, Integers, FiniteSets

CONSTANTS
  Customer,    \* accounts
  MaxCredits   \* bound: other credits, one a wallet

VARIABLES
  codes,     \* the customers that have a referral code
  signups,   \* signups[u]: who referred u, and was the reward granted?
  wallets,   \* wallets[u]: the credits of u, by their reason
  dropped    \* history: signups whose request was lost on the way

marketingVars == <<codes, signups, wallets, dropped>>

NotReferred == [by |-> Idle, granted |-> FALSE]
Reasons == {"bonus", "welcome", "refund"}

MarketingJobs ==
  [do : {"code"}, on : Customer, row : {Idle}, old : BOOLEAN]
    \cup [do : {"sign", "payReferrer", "payReferred", "grant"},
          on : Customer, row : Customer, old : BOOLEAN]

ASSUME MarketingAssumption == MaxCredits \in Nat /\ Idle \notin Customer \cup MarketingJobs

MarketingTypeOK ==
  /\ codes \subseteq Customer
  /\ signups \in [Customer -> [by : Customer \cup {Idle}, granted : BOOLEAN]]
  /\ wallets \in [Customer -> [Reasons -> Nat]]
  /\ dropped \subseteq Customer

MarketingInit ==
  /\ codes = {}
  /\ signups = [u \in Customer |-> NotReferred]
  /\ wallets = [u \in Customer |-> [r \in Reasons |-> 0]]
  /\ dropped = {}

-----------------------------------------------------------------------------
(* Codes *)

AskCode(c, u) ==
  /\ u \notin codes
  /\ Begin(c, Job("code", u, Idle))
  /\ UNCHANGED marketingVars

\* One code a customer: the second of two requests fails on the constraint.
CreateCode(c) ==
  /\ Does(c, "code")
  /\ codes' = codes \cup {calls[c].on}
  /\ End(c)
  /\ UNCHANGED <<signups, wallets, dropped>>

-----------------------------------------------------------------------------
(* Signups *)

\* "Invalid referral code.", "You cannot refer yourself.", "You have already
\* used a referral code."
MayRefer(by, u) == by \in codes /\ by # u /\ signups[u].by = Idle

CheckReferral(c, by, u) ==
  /\ MayRefer(by, u)
  /\ Begin(c, Job("sign", u, by))
  /\ UNCHANGED marketingVars

\* Mutant: the check made before is relied upon.
StillFreeAlways(u) == TRUE

\* One signup for each referred customer.
StillFree(u) == signups[u].by = Idle

SignUpReferred(c) ==
  LET u == calls[c].on IN
  /\ Does(c, "sign") /\ StillFree(u)
  /\ signups' = [signups EXCEPT ![u] = [by |-> calls[c].row, granted |-> FALSE]]
  /\ Goes(c, [calls[c] EXCEPT !.do = "payReferrer"])
  /\ UNCHANGED <<codes, wallets, dropped>>

RefuseSecondSignup(c) ==
  /\ Does(c, "sign") /\ ~StillFree(calls[c].on)
  /\ End(c)
  /\ UNCHANGED marketingVars

\* credit_wallet: balance and entry in one transaction, under the row's lock.
CreditWallet(u, reason) == wallets' = [wallets EXCEPT ![u][reason] = @ + 1]

PayReferrer(c) ==
  /\ Does(c, "payReferrer")
  /\ CreditWallet(calls[c].row, "bonus")
  /\ Goes(c, [calls[c] EXCEPT !.do = "payReferred"])
  /\ UNCHANGED <<codes, signups, dropped>>

PayReferred(c) ==
  /\ Does(c, "payReferred")
  /\ CreditWallet(calls[c].on, "welcome")
  /\ Goes(c, [calls[c] EXCEPT !.do = "grant"])
  /\ UNCHANGED <<codes, signups, dropped>>

GrantReward(c) ==
  /\ Does(c, "grant")
  /\ signups' = [signups EXCEPT ![calls[c].on].granted = TRUE]
  /\ End(c)
  /\ UNCHANGED <<codes, wallets, dropped>>

\* A refund or a credit by staff, for any other reason.
CreditOther(u) ==
  /\ Cardinality({v \in Customer : wallets[v]["refund"] > 0}) < MaxCredits
  /\ wallets[u]["refund"] = 0
  /\ CreditWallet(u, "refund")
  /\ UNCHANGED <<calls, codes, signups, dropped>>

\* The process is lost: what was saved stays saved.
LoseReferral(c) ==
  /\ calls[c] # Idle
  /\ dropped' = IF calls[c].do \in {"payReferrer", "payReferred", "grant"}
                THEN dropped \cup {calls[c].on} ELSE dropped
  /\ End(c)
  /\ UNCHANGED <<codes, signups, wallets>>

-----------------------------------------------------------------------------
MarketingNext ==
  \/ \E c \in Call :
       \/ CreateCode(c) \/ SignUpReferred(c) \/ RefuseSecondSignup(c) \/ PayReferrer(c)
       \/ PayReferred(c) \/ GrantReward(c) \/ LoseReferral(c)
       \/ \E u \in Customer : AskCode(c, u) \/ \E by \in Customer : CheckReferral(c, by, u)
  \/ \E u \in Customer : CreditOther(u)

-----------------------------------------------------------------------------
(* What holds *)

Paid(u) == signups[u].granted
Referred(by) == {u \in Customer : signups[u].by = by}
InFlight(u) == \E c \in Call : calls[c] # Idle /\ calls[c].on = u /\ calls[c].do \in {"payReferrer", "payReferred", "grant"}

\* A referral is rewarded once on both sides: nobody is welcomed twice or for
\* referring themselves, nobody has more bonuses than customers referred, all
\* rewards marked as granted were paid, and one is unpaid only while its
\* request runs or after it was lost.
RewardedOnce ==
  \A u \in Customer :
    /\ wallets[u]["welcome"] <= 1 /\ signups[u].by # u
    /\ wallets[u]["bonus"] <= Cardinality(Referred(u))
    /\ Paid(u) => wallets[u]["welcome"] = 1
    /\ Cardinality({v \in Referred(u) : Paid(v)}) <= wallets[u]["bonus"]
    /\ signups[u].by # Idle => Paid(u) \/ InFlight(u) \/ u \in dropped

=============================================================================
