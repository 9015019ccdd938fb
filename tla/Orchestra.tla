------------------------------- MODULE Orchestra -------------------------------
(***************************************************************************)
(* mkapi_orchestra_client_sync() (mkapi/orchestra.cpp) and the client of   *)
(* the registry that it calls (ooni/orchestrate.cpp, orchestrate_impl.hpp).*)
(* The first time the probe registers and writes what it is known by into  *)
(* the secrets file; later it reads the file and updates what the registry *)
(* knows, logging in when its token has run out.  The process may be       *)
(* killed at any point, and started again.  An answer may be lost after    *)
(* the registry has done what was asked.                                   *)
(***************************************************************************)
EXTENDS Integers, FiniteSets

CONSTANTS
  MaxSyncs,   \* how many times the application calls sync
  MaxTokens   \* how many tokens the registry gives out

ASSUME OrchestraConstants == MaxSyncs \in Nat /\ MaxTokens \in Nat

VARIABLES
  request,   \* what sync() is at, and "none" outside of it
  auth,      \* Auth, as the callbacks hand it on
  secrets,   \* what the secrets file holds
  good,      \* the result of the last sync, once it has returned
  accounts,  \* the accounts of the registry
  tokens,    \* the tokens that the registry honours, and whose they are
  expired,   \* the tokens whose expiry_time is over
  synced,    \* the registry did what the sync in progress, or the last, asked
  issued,    \* how many tokens were given out
  syncs,     \* how many syncs were begun
  faults     \* answers to a registration, writes and reads of the file, lost

orchestraVars == <<request, auth, secrets, good, accounts, tokens, expired,
                   synced, issued, syncs, faults>>

Account == 1 .. MaxSyncs
Token == 1 .. MaxTokens

\* The password goes with the username; token 0 is `logged_in = false`.
NewAuth == [username |-> 0, token |-> 0]
Auth == [username : Account \cup {0}, token : Token \cup {0}]

\* A file that is missing, empty or cut short is one that load() refuses.
Unreadable == [username |-> 0, token |-> 0]
Loadable == secrets # Unreadable

OrchestraInit ==
  /\ request = "none" /\ auth = NewAuth /\ secrets = Unreadable /\ good = FALSE
  /\ accounts = {} /\ tokens = {} /\ expired = {} /\ synced = FALSE
  /\ issued = 0 /\ syncs = 0 /\ faults = 0

registryVars == <<accounts, tokens, expired, issued>>

\* A file that was written, and that slurp() or json::parse() fails on, is lost.
LoadFaults == IF Loadable THEN 1 ELSE 0

\* Mutant of Sync: an expired token makes the file useless.
SyncUnlessExpired ==
  /\ request = "none" /\ syncs < MaxSyncs
  /\ syncs' = syncs + 1 /\ good' = FALSE /\ synced' = FALSE
  /\ LET usable == Loadable /\ secrets.token \notin expired
     IN /\ auth' = IF usable THEN secrets ELSE NewAuth
        /\ request' = IF usable THEN "update" ELSE "register"
  /\ UNCHANGED <<secrets, registryVars, faults>>

\* "If we can load the secrets path then we have already registered the probe,
\* otherwise we need to register the probe": also when a good file is not read.
Sync ==
  /\ request = "none" /\ syncs < MaxSyncs
  /\ syncs' = syncs + 1 /\ good' = FALSE /\ synced' = FALSE
  /\ \/ Loadable /\ auth' = secrets /\ request' = "update" /\ UNCHANGED faults
     \/ auth' = NewAuth /\ request' = "register" /\ faults' = faults + LoadFaults
  /\ UNCHANGED <<secrets, registryVars>>

\* The callback of sync() with an error: the file is not touched.
SyncFails == request' = "none" /\ UNCHANGED <<auth, secrets, good>>

\* The location that cannot be found, the metadata that is missing, the network
\* that fails before the request arrives, the registry that answers an error.
Refused ==
  /\ request \in {"register", "update", "login", "put"}
  /\ SyncFails
  /\ UNCHANGED <<registryVars, synced, syncs, faults>>

\* register_probe_(): the registry makes an account for the password.
Registered ==
  /\ accounts' = accounts \cup {syncs} /\ synced' = TRUE
  /\ UNCHANGED <<tokens, expired, issued, syncs>>

register_probe_ ==
  /\ request = "register" /\ Registered
  /\ \/ /\ request' = "dump" /\ auth' = [username |-> syncs, token |-> 0]
        /\ UNCHANGED <<secrets, good, faults>>
     \/ SyncFails /\ faults' = faults + 1     \* the answer is lost, or not understood

\* Auth::is_valid(): by the clock of the probe.
is_valid == auth.token # 0 /\ auth.token \notin expired

maybe_login ==
  /\ request = "update"
  /\ request' = IF is_valid THEN "put" ELSE "login"
  /\ UNCHANGED <<auth, secrets, good, registryVars, synced, syncs, faults>>

login ==
  /\ request = "login" /\ issued < MaxTokens
  /\ issued' = issued + 1
  /\ tokens' = tokens \cup {<<issued + 1, auth.username>>}
  /\ \/ /\ request' = "put" /\ auth' = [auth EXCEPT !.token = issued + 1]
        /\ UNCHANGED <<secrets, good>>
     \/ SyncFails
  /\ UNCHANGED <<accounts, expired, synced, syncs, faults>>

update_ ==
  /\ request = "put" /\ <<auth.token, auth.username>> \in tokens
  /\ synced' = TRUE
  /\ \/ request' = "dump" /\ UNCHANGED <<auth, secrets, good>>
     \/ SyncFails
  /\ UNCHANGED <<registryVars, syncs, faults>>

\* Auth::dump(): fopen() empties the file.
Truncate ==
  /\ request = "dump"
  /\ \/ request' = "write" /\ secrets' = Unreadable /\ UNCHANGED <<good, auth, faults>>
     \/ SyncFails /\ faults' = faults + 1
  /\ UNCHANGED <<registryVars, synced, syncs>>

\* Then fwrite() and fclose() fill it, or fail, and leave it as it is.
Write ==
  /\ request = "write" /\ request' = "none"
  /\ \/ secrets' = auth /\ good' = TRUE /\ UNCHANGED faults
     \/ faults' = faults + 1 /\ UNCHANGED <<secrets, good>>
  /\ UNCHANGED <<auth, registryVars, synced, syncs>>

\* The process is killed: what was not in the file is lost.
Killed ==
  /\ request # "none" /\ request' = "none" /\ auth' = NewAuth
  /\ faults' = IF request \in {"dump", "write"} THEN faults + 1 ELSE faults
  /\ UNCHANGED <<secrets, good, registryVars, synced, syncs>>

\* A token runs out, or the registry gives it up before.
TokenEnds ==
  /\ \E t \in tokens :
       /\ tokens' = tokens \ {t}
       /\ expired' \in {expired, expired \cup {t[1]}}
  /\ UNCHANGED <<request, auth, secrets, good, accounts, synced, issued, syncs, faults>>

Reply == register_probe_ \/ maybe_login \/ login \/ update_ \/ Refused \/ Truncate \/ Write

OrchestraNext == Sync \/ Reply \/ Killed \/ TokenEnds

-----------------------------------------------------------------------------

OrchestraTypeOK ==
  /\ request \in {"none", "register", "update", "login", "put", "dump", "write"}
  /\ auth \in Auth /\ secrets \in Auth
  /\ good \in BOOLEAN /\ synced \in BOOLEAN
  /\ accounts \subseteq Account /\ tokens \subseteq Token \X Account
  /\ expired \subseteq Token
  /\ issued \in 0 .. MaxTokens /\ syncs \in 0 .. MaxSyncs /\ faults \in Nat

\* The assumption of sync(), "if we can load the secrets path then we have
\* already registered the probe": whatever was lost or killed, a file that can
\* be read names an account that exists.
LoadableMeansRegistered == Loadable => secrets.username \in accounts

\* A sync that is reported as good was one: the registry did what it asked,
\* and the file holds what the registry knows the probe by.
GoodMeansSynced == good => synced /\ Loadable /\ secrets = auth

\* The probe keeps its identity: it has a second account only if an answer to
\* a registration, or a write or a read of the file, failed.
KeepsIdentity == Cardinality(accounts) <= 1 + faults

IdentityKept == LoadableMeansRegistered /\ GoodMeansSynced /\ KeepsIdentity
=============================================================================
