---------------------------------- MODULE Mkapi ----------------------------------
(***************************************************************************)
(* The client of mkapi/orchestra.cpp as its caller sees it, and the        *)
(* metadata that a sync takes to the registry (ooni/orchestrate.cpp,       *)
(* orchestrate_impl.hpp).  One thread of the application waits for the     *)
(* sync, which runs in a thread of the worker, while another may call the  *)
(* setters.  What becomes of the account is the subject of Orchestra.      *)
(***************************************************************************)
EXTENDS Sequences, FiniteSets, Integers

CONSTANTS
  Settable,    \* the fields that the application sets
  Texts,       \* what it sets them to
  Platforms,   \* and what it sets the platform to
  Locations,   \* what geoip::lookup() may find: an ASN and a country
  MaxSets      \* how many times it calls a setter

ASSUME MkapiConstants == \A place \in Locations : place = [asn |-> place.asn, cc |-> place.cc]

VARIABLES
  client,   \* the client of the application
  sets,     \* how many setters were called
  meta,     \* the copy of sync(), and then RegistryCtx::metadata
  step,     \* what the sync in progress is at, and "idle" outside of it
  asks,     \* whether it registers or updates
  identities, \* the names of the files that hold an identity
  found,    \* the location that was looked up
  atCall,   \* the client as it was when sync() was called
  reported  \* what the registry was told, in this sync or the last

mkapiVars == <<client, sets, meta, step, asks, identities, found, atCall, reported>>

\* ClientMetadata, without events_url, that nothing reads; supported_tests is a
\* list.  as_json() leaves the optional ones out when they are empty, the local
\* ones always, and calls the device_token "token".
Local == {"ca_bundle_path", "geoip_country_path", "geoip_asn_path", "registry_url", "secrets_file"}
Optional == {"available_bandwidth", "device_token", "language", "network_type",
             "probe_family", "probe_timezone", "supported_tests"}
Required == {"platform", "probe_asn", "probe_cc", "software_name", "software_version"}

NewClient ==
  [f \in Local \cup Optional \cup Required |->
     CASE f = "supported_tests" -> << >>
       [] f \in {"registry_url", "software_name", "software_version"} -> "default"
       [] OTHER -> ""]

Empty(m) ==
  {f \in DOMAIN m \ {"supported_tests"} : m[f] = ""}
  \cup {f \in {"supported_tests"} : m.supported_tests = << >>}

as_json(m) == [f \in Required \cup (Optional \ Empty(m)) |-> m[f]]

Nothing == << >>
Nowhere == [asn |-> "", cc |-> ""]

MkapiInit ==
  /\ client = NewClient /\ sets = 0 /\ meta = NewClient
  /\ step = "idle" /\ asks = "register" /\ identities = {} /\ found = Nowhere
  /\ atCall = NewClient /\ reported = Nothing

syncVars == <<meta, step, asks, identities, found, atCall, reported>>

\* mkapi_orchestra_client_set_...(): a pointer may not be null, a text may be empty.
Set(f, text) == client' = [client EXCEPT ![f] = text]

add_supported_test == client' = [client EXCEPT !.supported_tests = Append(@, "ndt")]

Setter ==
  /\ sets < MaxSets /\ sets' = sets + 1
  /\ \/ \E f \in Settable \ {"supported_tests", "platform"}, text \in Texts \cup {""} : Set(f, text)
     \/ "platform" \in Settable /\ \E text \in Platforms : Set("platform", text)
     \/ "supported_tests" \in Settable /\ add_supported_test
  /\ UNCHANGED syncVars

\* "Operate on a copy of client to avoid any thread safety related risk."  A
\* file that holds an identity may still not load.
SyncCalled ==
  /\ step = "idle" /\ step' = "meta"
  /\ meta' = client /\ atCall' = client /\ reported' = Nothing /\ found' = Nowhere
  /\ asks' \in {"register"} \cup {a \in {"update"} : client.secrets_file \in identities}
  /\ UNCHANGED <<client, sets, identities>>

\* The promise is kept, and sync() returns a result that is not good.
SyncFailed == step' = "idle" /\ UNCHANGED identities

WithDefaults(m, platform) ==
  [m EXCEPT !.platform = IF @ = "" THEN platform ELSE @,
            !.supported_tests = IF @ = << >> THEN <<"defaults">> ELSE @]

LocationKnown(m) == m.probe_asn # "" /\ m.probe_cc # ""

\* Mutant of Located: what was given is kept.
LocatedWhereMissing(m, location) ==
  [m EXCEPT !.probe_asn = IF @ = "" THEN location.asn ELSE @,
            !.probe_cc = IF @ = "" THEN location.cc ELSE @]

\* do_find_location() overwrites both, also the one that was given.
Located(m, location) == [m EXCEPT !.probe_asn = location.asn, !.probe_cc = location.cc]

ctx_retrieve_missing_meta_ ==
  /\ step = "meta"
  /\ LET known == WithDefaults(meta, "linux") IN
     \/ /\ LocationKnown(known)
        /\ meta' = known /\ step' = "ask" /\ UNCHANGED <<found, identities>>
     \/ /\ ~LocationKnown(known)
        /\ \E location \in Locations :
             found' = location /\ meta' = Located(known, location)
        /\ step' = "ask" /\ UNCHANGED identities
     \/ /\ ~LocationKnown(known)
        /\ meta' = Located(known, Nowhere) /\ SyncFailed /\ UNCHANGED found
  /\ UNCHANGED <<client, sets, asks, atCall, reported>>

\* "Missing required value": asked of who registers, and not of who updates.
MissingRequired(m) ==
  \/ Empty(m) \cap (Required \cup {"supported_tests"}) # {}
  \/ m.platform \in {"ios", "android"} /\ m.device_token = ""

\* register_probe_() and update_(): the request arrives, and then its answer is
\* good or not; or it never does.
TellRegistry ==
  /\ step = "ask"
  /\ asks = "register" => ~MissingRequired(meta)
  /\ reported' = as_json(meta)
  /\ \/ step' = "dump" /\ UNCHANGED identities
     \/ SyncFailed
  /\ UNCHANGED <<client, sets, meta, asks, found, atCall>>

NotTold ==
  /\ step = "ask" /\ SyncFailed
  /\ UNCHANGED <<client, sets, meta, asks, found, atCall, reported>>

\* Auth::dump() takes the name of the file from the client, not from the copy.
Dump ==
  /\ step = "dump" /\ step' = "idle"
  /\ identities' \in {identities, identities \cup ({client.secrets_file} \ {""})}
  /\ UNCHANGED <<client, sets, meta, asks, found, atCall, reported>>

MkapiSteps == ctx_retrieve_missing_meta_ \/ TellRegistry \/ NotTold \/ Dump

MkapiNext == Setter \/ SyncCalled \/ MkapiSteps

-----------------------------------------------------------------------------

\* "Sends the metadata configured in the client to the OONI backend": what was
\* set when sync() was called arrives, nothing else does, and setters that are
\* called meanwhile do not mix with it.  The ASN and the country are of one
\* network: both the caller's, or both of the place that was looked up.  Who
\* registers has told all that is required.
MetadataTold ==
  reported # Nothing =>
    LET place == [asn |-> reported.probe_asn, cc |-> reported.probe_cc]
        given == DOMAIN atCall \ Empty(atCall)
    IN /\ \A f \in (given \ Local) \ {"probe_asn", "probe_cc"} :
            f \in DOMAIN reported /\ reported[f] = atCall[f]
       /\ DOMAIN reported \ given \subseteq Required \cup {"supported_tests"}
       /\ IF LocationKnown(atCall)
          THEN place = [asn |-> atCall.probe_asn, cc |-> atCall.probe_cc]
          ELSE place \in Locations /\ place = found
       /\ asks = "register" /\ reported.platform = "android" => "device_token" \in DOMAIN reported
=============================================================================
