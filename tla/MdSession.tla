------------------------------ MODULE MdSession ------------------------------
(***************************************************************************)
(* The session side of sq::FixMdGateway (src/md/fix_md_gateway.cpp): logon,*)
(* logout, rejection and the market-data subscription.  All callbacks run  *)
(* on one QuickFIX thread, one after the other.  MdPipeline models what    *)
(* the gateway does with the data, MdGateway the process around both.      *)
(***************************************************************************)
EXTENDS Integers

CONSTANTS
    HasSymbolId,  \* SymbolID is configured
    FastLogout,   \* 3000 ms: a session that lived less is taken for rejected
    MaxLogons     \* bound on the sessions

ASSUME SessionAssumption ==
    /\ HasSymbolId \in BOOLEAN
    /\ FastLogout \in Nat \ {0} /\ MaxLogons \in Nat

VARIABLES
    session,      \* "down" or "up", as the callbacks tell
    age,          \* now - logon_time_, FastLogout standing for "or more, or never"
    subscribed,   \* subscribed_
    auth_failed,  \* auth_failed_
    feed,         \* broker: "none", "pending", "on" or "rejected" in this session
    logons,       \* sessions so far
    fast          \* history: the last logout was taken for a rejection

sessionVars == <<session, age, subscribed, auth_failed, feed, logons, fast>>

SessionInit ==
    /\ session = "down" /\ age = FastLogout
    /\ subscribed = FALSE /\ auth_failed = FALSE
    /\ feed = "none" /\ logons = 0 /\ fast = FALSE

\* A MarketDataRequest goes out unless the flag is still set or SymbolID is missing.
subscribe_market_data ==
    /\ feed' = IF ~subscribed /\ HasSymbolId THEN "pending" ELSE "none"
    /\ subscribed' = (subscribed \/ HasSymbolId)

onLogon ==
    /\ session = "down" /\ logons < MaxLogons
    /\ session' = "up" /\ logons' = logons + 1
    /\ age' = 0
    /\ auth_failed' = FALSE
    /\ subscribe_market_data
    /\ UNCHANGED fast

\* Fault: the flag survives every logout.
onLogout_KeepFlag ==
    /\ session' = "down" /\ feed' = "none"
    /\ fast' = (age < FastLogout)
    /\ UNCHANGED <<age, subscribed, auth_failed, logons>>

\* QuickFIX also calls it when a logon attempt ends without a logon; the age is
\* then that of the session before.
onLogout ==
    /\ session' = "down" /\ feed' = "none"
    /\ fast' = (age < FastLogout)
    /\ IF age < FastLogout
       THEN auth_failed' = TRUE /\ UNCHANGED subscribed
       ELSE subscribed' = FALSE /\ UNCHANGED auth_failed
    /\ UNCHANGED <<age, logons>>

\* A Logout message whose text names the credentials or the session identity.
fromAdmin ==
    /\ auth_failed' = TRUE
    /\ UNCHANGED <<session, age, subscribed, feed, logons, fast>>

\* The broker starts the feed ...
BrokerAccepts ==
    /\ feed = "pending"
    /\ feed' = "on"
    /\ UNCHANGED <<session, age, subscribed, auth_failed, logons, fast>>

\* ... or answers 35=Y.
on_md_reject ==
    /\ feed = "pending"
    /\ feed' = "rejected"
    /\ subscribed' = FALSE
    /\ UNCHANGED <<session, age, auth_failed, logons, fast>>

Tick ==
    /\ age < FastLogout
    /\ age' = age + 1
    /\ UNCHANGED <<session, subscribed, auth_failed, feed, logons, fast>>

-----------------------------------------------------------------------------
SessionTypeOK ==
    /\ session \in {"down", "up"} /\ age \in 0 .. FastLogout
    /\ subscribed \in BOOLEAN /\ auth_failed \in BOOLEAN
    /\ feed \in {"none", "pending", "on", "rejected"}
    /\ logons \in 0 .. MaxLogons /\ fast \in BOOLEAN

\* onLogon: the gateway believes in a subscription that this session never asked for
\* only if the session before it ended within FastLogout.
SilentOnlyAfterFastLogout ==
    (session = "up" /\ subscribed /\ feed = "none") => fast
=============================================================================
