------------------------------- MODULE Profile -------------------------------
(***************************************************************************)
(* What a customer keeps under their account, side by side: the account    *)
(* itself, the addresses with a default for each purpose, the saved        *)
(* payment methods, and the sessions of the members' browsers.  The parts  *)
(* share no state of the program; here they share the running requests, so *)
(* that each behaviour is about one of them, chosen at its start.          *)
(***************************************************************************)
EXTENDS Accounts

CONSTANTS Item, Flag, Browser, Member, MaxKeys, MaxRows  \* as in the parts

VARIABLES rows, used, unset, crossed, session, factor, listed, keys, hidden, over, area

IsDefault == 1  \* the one flag of a payment method

D == INSTANCE Defaults
M == INSTANCE PaymentMethods WITH Flag <- {IsDefault}
S == INSTANCE Sessions WITH made <- keys

ASSUME ProfileAssumption ==
  /\ D!Numbered /\ M!Numbered
  /\ MaxKeys \in Nat
  /\ Idle \notin Member /\ Idle \notin S!SessionJobs

defaultsVars == <<rows, used, unset, crossed>>
sessionVars == <<session, factor, listed, keys, hidden, over>>
accountsVars == <<accounts, factors, made, mailed, spent, set, told, mixed>>
profileVars == <<calls, defaultsVars, accountsVars, sessionVars, area>>

ProfileInit ==
  /\ Init /\ D!Init /\ S!Init
  /\ area \in {"accounts", "defaults", "methods", "sessions"}

ProfileNext ==
  /\ UNCHANGED area
  /\ \/ area = "accounts" /\ Next /\ UNCHANGED <<defaultsVars, sessionVars>>
     \/ area = "defaults" /\ D!Next /\ UNCHANGED <<accountsVars, sessionVars>>
     \/ area = "methods" /\ M!MethodsNext /\ UNCHANGED <<accountsVars, sessionVars>>
     \/ area = "sessions" /\ S!Next /\ UNCHANGED <<accountsVars, defaultsVars>>

ProfileSpec == ProfileInit /\ [][ProfileNext]_profileVars

-----------------------------------------------------------------------------
(* What holds *)

\* While a user has addresses, exactly one is the default for each purpose,
\* unless the user took the flag off or requests overlapped (Defaults); and
\* so for payment methods (PaymentMethods).
OneDefault == IF area = "methods" THEN M!OneDefault ELSE D!OneDefault

\* A signed-in browser is on its user's list of active sessions, and one that
\* logged out is not (Sessions).
SessionsListed == S!SessionsListed

=============================================================================
