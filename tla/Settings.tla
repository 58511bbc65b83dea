------------------------------ MODULE Settings ------------------------------
(***************************************************************************)
(* What a configuration file and an environment amount to: the rules of    *)
(* zebra_day/settings.py and zebra_day/paths.py, and what the two modes of *)
(* authentication ask for (zebra_day/web/auth.py).                         *)
(* A configuration is [file, sections, keys, flawed, mode, owner, domain]: *)
(* whether it is a mapping, its sections, the keys that have a value which *)
(* is not blank, those whose value cannot be used (no number, no bare      *)
(* host, no such file, no mapping), and three values that matter.  A key   *)
(* of the part "cognito" of authentication has that name before its own;   *)
(* "home" is flawed if a path begins with the home of an unknown user, and *)
(* "group_role_map values" if the map is one and has a value that is no    *)
(* role.  An environment is [keys, flawed, mode, noAuth]; noAuth is the    *)
(* option of the command line.  A value of white space only counts as none *)
(* at all or, of a number or a part of a section, as flawed.               *)
(***************************************************************************)
EXTENDS Naturals, FiniteSets

Modes == {"none", "cognito", "external_broker"}

Sections == {"service", "authentication", "tapdb", "discovery", "deployment", "ui"}

TapdbKeys ==
  {"client_id", "owner_repo_name", "domain_code", "database_name", "schema_name",
   "physical_database", "local_db_port", "local_ui_port", "config_path",
   "domain_registry_path", "prefix_ownership_registry_path"}

CognitoKeys ==
  {"cognito_region", "cognito_user_pool_id", "cognito_app_client_id", "cognito_domain"}

\* Where Cognito's settings may stand instead.
Nested ==
  [cognito_region |-> "cognito.region", cognito_user_pool_id |-> "cognito.user_pool_id",
   cognito_app_client_id |-> "cognito.app_client_id", cognito_domain |-> "cognito.domain"]

\* The service_id has a default and is never missing.
BrokerKeys == {"login_url", "handoff_exchange_url", "service_token", "logout_url"}
BrokerEntries == BrokerKeys \cup {"service_id", "callback_url", "ca_bundle"}

Numbers == {"port", "local_db_port", "local_ui_port", "default_scan_wait_seconds",
            "default_http_port"}

Directories == {"XDG_CONFIG_HOME", "XDG_DATA_HOME", "XDG_STATE_HOME", "XDG_CACHE_HOME"}

-----------------------------------------------------------------------------
(* Loading.                                                                *)

\* The environment goes before the file, and there the section before its
\* part on Cognito.
Given(c, e) == c.keys \cup e.keys \cup {k \in CognitoKeys : Nested[k] \in c.keys}
Flawed(key, c, e) == key \in IF key \in e.keys THEN e.flawed ELSE c.flawed

\* The deployment's code and its directories come from the environment only.
PathsResolve(e) ==
  {"deployment_code"} \cup Directories \subseteq e.keys \ e.flawed

\* A part of authentication is looked into for what nothing before it gives,
\* and then it must be a mapping; the map of groups must be one anyhow.
PartsReadable(c, e) ==
  /\ "cognito" \in c.flawed => CognitoKeys \subseteq c.keys \cup e.keys
  /\ "external_broker" \in c.flawed => BrokerEntries \subseteq e.keys
  /\ "group_role_map" \notin c.flawed

\* The first domain that is given is a bare host.
DomainUsable(c, e) ==
  IF "cognito_domain" \in c.keys \cup e.keys THEN ~Flawed("cognito_domain", c, e)
  ELSE Nested["cognito_domain"] \notin c.flawed

\* from_context returns settings; otherwise it raises.
Loads(c, e) ==
  /\ PathsResolve(e)
  /\ c.file = "mapping" /\ Sections \subseteq c.sections
  /\ TapdbKeys \cup {"default_scan_wait_seconds"} \subseteq c.keys
  /\ (Numbers \cup {"home"}) \cap c.flawed = {}
  /\ PartsReadable(c, e) /\ DomainUsable(c, e) /\ ~Flawed("ca_bundle", c, e)

\* The mode is taken as it is written: capitals make it none of the three.
Mode(c, e) ==
  IF e.noAuth THEN "none" ELSE IF e.mode # "" THEN e.mode
  ELSE IF c.mode # "" THEN c.mode ELSE "cognito"

\* What create_app raises without.
Needs(mode) ==
  IF mode = "cognito" THEN CognitoKeys
  ELSE IF mode = "external_broker" THEN BrokerKeys ELSE {}

-----------------------------------------------------------------------------
(* The template and the validator of the config commands.                  *)

Accounts == {"session_secret_key", "allowed_email_domains", "default_tenant_id",
             "auto_provision_allowed_domains"}

\* The files that the template names do not exist.
Template(e) ==
  [file |-> "mapping", sections |-> Sections,
   keys |-> TapdbKeys \cup {"service_id", "port", "default_scan_wait_seconds"}
              \cup (Accounts \ {"session_secret_key"})
              \cup (e.keys \cap {"session_secret_key"}),
   flawed |-> {"config_path", "prefix_ownership_registry_path"},
   mode |-> "cognito", owner |-> "zebra-day", domain |-> "Z"]

\* A spelling with capitals of each mode, which stands for all of them.
Capitals == [Cognito |-> "cognito", None |-> "none", External_Broker |-> "external_broker"]

Lower(mode) == IF mode \in DOMAIN Capitals THEN Capitals[mode] ELSE mode

\* validate_settings_yaml: it asks for less than loading does in the one
\* section and for more in the other.
Complaints(c) ==
  IF c.file # "mapping" THEN {"root"}
  ELSE ({"service", "authentication", "tapdb"} \ c.sections)
         \cup (TapdbKeys \ ({"physical_database", "local_db_port", "local_ui_port"} \cup c.keys))
         \cup (Accounts \ c.keys)
         \cup ({"cognito_domain"} \cap c.keys \cap c.flawed)
         \cup ({"group_role_map", "group_role_map values"} \cap c.flawed)
         \cup (IF Lower(c.mode) \in Modes THEN {} ELSE {"mode"})
         \cup (IF Lower(c.mode) # "external_broker" THEN {}
               ELSE IF "external_broker" \in c.flawed THEN {"external_broker"}
               ELSE (BrokerKeys \cup {"service_id"}) \ c.keys)

\* What the validator of the config commands leaves open.  A file that it has
\* nothing to say about, read with a good environment, fails to load for a
\* reason that it does not look at, and for no other: three of the sections,
\* four of the keys, numbers, the broker's certificates, homes of users,
\* Cognito's domain from the environment or from its part of the section,
\* and the shapes of that part and of the broker's when that is not the mode.
ValidatorLeavesOpen(c, e) ==
  Complaints(c) = {} /\ PathsResolve(e) /\ ~Loads(c, e) =>
    \/ ~({"discovery", "deployment", "ui"} \subseteq c.sections)
    \/ ~({"physical_database", "local_db_port", "local_ui_port",
          "default_scan_wait_seconds"} \subseteq c.keys)
    \/ (Numbers \cup {"home"}) \cap c.flawed # {}
    \/ Flawed("ca_bundle", c, e)
    \/ "cognito_domain" \in e.keys \cap e.flawed
    \/ "cognito_domain" \notin c.keys \cup e.keys /\ "cognito.domain" \in c.flawed
    \/ "cognito" \in c.flawed /\ ~(CognitoKeys \subseteq c.keys \cup e.keys)
    \/ /\ "external_broker" \in c.flawed /\ ~(BrokerEntries \subseteq e.keys)
       /\ Lower(c.mode) # "external_broker"

=============================================================================
