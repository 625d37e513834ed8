--------------------------------- MODULE Setup ---------------------------------
(***************************************************************************)
(* The setup wizard, the environment file it writes and the configuration  *)
(* a session is started with.                                              *)
(*                                                                         *)
(* A setting lives in five places: the text of an input, the draft, the    *)
(* environment file, the environment of the process and the configuration  *)
(* of the running session.  Of the settings there is one for each way they *)
(* differ: a port that only remote access needs, a port that local access  *)
(* needs, the token that goes with it, the access mode, the public origin, *)
(* the password, a switch, and the container runtime with its isolation,   *)
(* which one operating system refuses together.  A port is a number of     *)
(* thousands, 0 to MaxPort for 0 to 65535; a password is one of a few      *)
(* texts.                                                                  *)
(***************************************************************************)
EXTENDS Naturals

CONSTANTS
  MaxPort,       \* the highest port
  Typed,         \* passwords the user may type
  Random,        \* what generate_password may return
  Substituted,   \* typed passwords that the file's parser reads otherwise
  HandWritten,   \* environment files that users write themselves
  MacOS,         \* whether the program runs on macOS
  None,          \* model value: not there
  MaxEdits,      \* bound: changes to the inputs in one run of the program
  MaxLaunches    \* bound: runs of the program

ASSUME PortAssumption == MaxPort \in Nat \ {0, 1}    \* the defaults are ports
ASSUME PasswordAssumption == /\ Substituted \subseteq Typed
                             /\ Typed \cap Random = {}
                             /\ Random # {}
                             /\ {"", "other"} \cap (Typed \cup Random) = {}
ASSUME SystemAssumption == MacOS \in BOOLEAN
ASSUME BoundAssumption == MaxEdits \in Nat /\ MaxLaunches \in Nat

VARIABLES
  files,      \* the environment files that exist, with their assignments
  env,        \* the environment of the process
  launch,     \* how the program was launched
  path,       \* launch_plan.env_file
  step,       \* SetupStep
  draft,      \* SetupDraftConfig
  input,      \* the texts of the input fields
  generate,   \* generate_password
  task,       \* the finalization or startup under way, or none
  summary,    \* SetupSummary
  running,    \* the configuration of the session that was started
  card,       \* the password on the connection card
  confirmed,  \* history: the settings last confirmed, by file
  untouched,  \* history: no port was edited after the ports page
  loads,      \* history: times this process has read a file, 2 for more
  edits,      \* count of changes to the inputs
  launches    \* count of runs

disk == <<files, confirmed, launches>>
process == <<env, launch, path, loads>>
form == <<draft, input, generate, untouched, edits>>
session == <<task, summary, running, card>>
vars == <<disk, process, step, form, session>>

-----------------------------------------------------------------------------
Paths == {"home", "custom"}
Ports == 0..MaxPort
NoPort == MaxPort + 1       \* empty, or a text that is not a port
PortTexts == Ports \cup {NoPort}
Passwords == Typed \cup Random \cup {""}
Modes == {"local", "remote", "both"}
Origins == {"disabled", "quick", "named", "direct"}
Tokens == {"", "token"}
Runtimes == {"docker", "apple"}

Settings == [port : Ports, localPort : Ports, local : BOOLEAN, token : Tokens, mode : Modes,
             origin : Origins, password : Passwords \cup {"other"}, audio : BOOLEAN,
             runtime : Runtimes, isolated : BOOLEAN]
Inputs == [port : PortTexts, localPort : PortTexts, password : Passwords \cup {"other"}]

Steps == {"welcome", "doctor", "vault", "access", "auth", "ports", "audio", "summary",
          "status", "card", "gone"}

(* What a file may set, and to which values.  VAULT says whether a vault  *)
(* is named, and its server's image with it; LIFETIME is zero or not; a    *)
(* mode or a runtime may be one that nobody knows.  (The container's ports *)
(* are refused like the gateway's; the client's secret and the username    *)
(* are required like the password.)                                        *)
Assignments ==
  [PORT |-> PortTexts, LOCAL_PORT |-> PortTexts, TOKEN |-> Tokens,
   MODE |-> Modes \cup {"other"}, PASSWORD |-> Passwords \cup {"other"}, AUDIO |-> BOOLEAN,
   QUICK |-> BOOLEAN, NAMED |-> BOOLEAN, DIRECT |-> BOOLEAN,
   RUNTIME |-> Runtimes \cup {"", "other"}, VAULT |-> BOOLEAN, ISOLATED |-> BOOLEAN,
   LIFETIME |-> {0, 1}]
WellFormed(a) == \A key \in DOMAIN a : key \in DOMAIN Assignments /\ a[key] \in Assignments[key]

ASSUME HandWrittenAssumption == \A file \in HandWritten : WellFormed(file)
ASSUME NoneAssumption ==
  None \notin Ports /\ None \notin Origins /\ None \notin Settings /\ None \notin Runtimes

-----------------------------------------------------------------------------
(* The environment file and the process's environment: assignments are     *)
(* functions from the names that are set.                                  *)

Assigns(a, key) == key \in DOMAIN a
ValueOr(a, key, default) == IF Assigns(a, key) THEN a[key] ELSE default

(* quote_env_value, and what the parser makes of it: a dollar sign begins  *)
(* a substitution between double quotes.                                   *)
Parsed(text) == IF text \in Substituted THEN "other" ELSE text

(* dotenvy::from_path: what is set already is left alone.                  *)
Loaded(e, file) ==
  [key \in DOMAIN e \cup DOMAIN file |->
     IF Assigns(e, key) THEN e[key]
     ELSE IF key = "PASSWORD" THEN Parsed(file[key]) ELSE file[key]]

(* Mutant of Rendered: the direct host stays when the origin is disabled.  *)
RenderedWithHost(d) ==
  [PORT |-> d.port,
   LOCAL_PORT |-> IF d.local THEN d.localPort ELSE NoPort,
   TOKEN |-> IF d.local THEN d.token ELSE "",
   MODE |-> d.mode,
   PASSWORD |-> d.password,
   AUDIO |-> d.audio,
   QUICK |-> d.origin = "quick",
   NAMED |-> d.origin = "named",
   DIRECT |-> d.origin \in {"direct", "disabled"},
   RUNTIME |-> d.runtime,
   VAULT |-> TRUE,
   ISOLATED |-> d.isolated,
   LIFETIME |-> 1]

(* build_overrides, of a draft whose vault and lifetimes finalize has      *)
(* found valid.                                                            *)
Rendered(d) ==
  [PORT |-> d.port,
   LOCAL_PORT |-> IF d.local THEN d.localPort ELSE NoPort,
   TOKEN |-> IF d.local THEN d.token ELSE "",
   MODE |-> d.mode,
   PASSWORD |-> d.password,
   AUDIO |-> d.audio,
   QUICK |-> d.origin = "quick",
   NAMED |-> d.origin = "named",
   DIRECT |-> d.origin = "direct",
   RUNTIME |-> d.runtime,
   VAULT |-> TRUE,
   ISOLATED |-> d.isolated,
   LIFETIME |-> 1]

-----------------------------------------------------------------------------
(* EnvFileConfigAdapter::load on an environment.                           *)

(* load_local_mcp_config: a port without a token is refused.               *)
LocalPortWithoutToken(e) ==
  ValueOr(e, "LOCAL_PORT", NoPort) # NoPort /\ ValueOr(e, "TOKEN", "") = ""

LocalMcpEnabled(e) == ValueOr(e, "TOKEN", "") # ""

(* resolve_expected_host: a quick tunnel has no stable host.               *)
HostConflict(e) ==
  ~ValueOr(e, "QUICK", FALSE) /\ ValueOr(e, "NAMED", FALSE) /\ ValueOr(e, "DIRECT", FALSE)

(* load_tunnel_config.                                                     *)
Tunnel(e) ==
  CASE ValueOr(e, "QUICK", FALSE) -> "quick"
    [] ~ValueOr(e, "QUICK", FALSE) /\ ValueOr(e, "NAMED", FALSE) -> "named"
    [] OTHER -> None

ExpectedHost(e) ==
  CASE ValueOr(e, "QUICK", FALSE) -> None
    [] ~ValueOr(e, "QUICK", FALSE) /\ ValueOr(e, "NAMED", FALSE) -> "named"
    [] ~ValueOr(e, "QUICK", FALSE) /\ ~ValueOr(e, "NAMED", FALSE) /\ ValueOr(e, "DIRECT", FALSE) -> "direct"
    [] OTHER -> None

(* load_container_startup_config: without a runtime there is no container. *)
Runtime(e) == ValueOr(e, "RUNTIME", "")
Isolated(e) == ValueOr(e, "ISOLATED", TRUE)

(* validate_network_isolation_support.                                     *)
Unsupported(e) == Runtime(e) = "docker" /\ Isolated(e) /\ MacOS

ContainerRefused(e) ==
  /\ Runtime(e) # ""
  /\ Runtime(e) \notin Runtimes \/ ~ValueOr(e, "VAULT", FALSE) \/ Unsupported(e)

DefaultPort == 1
DefaultLocalPort == 2

Loadable(e) ==
  /\ ValueOr(e, "PORT", DefaultPort) # NoPort
  /\ ValueOr(e, "LIFETIME", 1) # 0
  /\ ValueOr(e, "MODE", "both") \in Modes
  /\ ~HostConflict(e)
  /\ ~LocalPortWithoutToken(e)
  /\ ~ContainerRefused(e)
  /\ ValueOr(e, "PASSWORD", "") # ""

(* The GatewayConfig.                                                      *)
Config(e) ==
  [port |-> ValueOr(e, "PORT", DefaultPort),
   local |-> IF ~LocalMcpEnabled(e) THEN None
             ELSE IF ValueOr(e, "LOCAL_PORT", NoPort) = NoPort THEN DefaultLocalPort
             ELSE e["LOCAL_PORT"],
   mode |-> ValueOr(e, "MODE", "both"),
   tunnel |-> Tunnel(e),
   host |-> ExpectedHost(e),
   password |-> ValueOr(e, "PASSWORD", ""),
   audio |-> ValueOr(e, "AUDIO", FALSE),
   runtime |-> IF Runtime(e) = "" THEN None ELSE Runtime(e),
   isolated |-> Runtime(e) # "" /\ Isolated(e)]

-----------------------------------------------------------------------------
(* FirstRunSetupUseCase.                                                   *)

(* default_container_runtime.                                              *)
DefaultRuntime == IF MacOS THEN "apple" ELSE "docker"

(* prepare.                                                                *)
Prepared ==
  [port |-> DefaultPort, localPort |-> DefaultLocalPort, local |-> TRUE, token |-> "token",
   mode |-> "both", origin |-> "quick", password |-> "", audio |-> FALSE,
   runtime |-> DefaultRuntime, isolated |-> TRUE]

(* tunnel_mode_draft_from_config.                                          *)
OriginOf(config) ==
  IF config.tunnel # None THEN config.tunnel
  ELSE IF config.host = "direct" THEN "direct" ELSE "disabled"

(* Mutant of DraftFrom: the port of local access starts from its default.  *)
DraftWithDefaultPort(config) ==
  [port |-> config.port,
   localPort |-> DefaultLocalPort,
   local |-> config.local # None,
   token |-> IF config.local = None THEN "" ELSE "token",
   mode |-> config.mode,
   origin |-> OriginOf(config),
   password |-> config.password,
   audio |-> config.audio,
   runtime |-> IF config.runtime = None THEN DefaultRuntime ELSE config.runtime,
   isolated |-> config.isolated]

(* draft_from_existing_config.                                             *)
DraftFrom(config) ==
  [port |-> config.port,
   localPort |-> IF config.local = None THEN DefaultLocalPort ELSE config.local,
   local |-> config.local # None,
   token |-> IF config.local = None THEN "" ELSE "token",
   mode |-> config.mode,
   origin |-> OriginOf(config),
   password |-> config.password,
   audio |-> config.audio,
   runtime |-> IF config.runtime = None THEN DefaultRuntime ELSE config.runtime,
   isolated |-> config.isolated]

(* apply_access_mode_policy.                                               *)
WithPolicy(d) ==
  [d EXCEPT !.local = d.mode # "remote",
            !.origin = IF d.mode = "local" THEN "disabled"
                       ELSE IF @ = "disabled" THEN "quick" ELSE @]

(* Mutant of Finalized: a token is only kept, never made.                  *)
FinalizedWithoutToken(d, password) == WithPolicy([d EXCEPT !.password = password])

(* finalize: what is confirmed, given the password it is to have.          *)
Finalized(d, password) ==
  LET policed == WithPolicy([d EXCEPT !.password = password]) IN
  [policed EXCEPT !.token = IF policed.local /\ @ = "" THEN "token" ELSE @]

(* What settings are to mean for a session.                                *)
Meant(d) ==
  [port |-> d.port,
   local |-> IF d.local THEN d.localPort ELSE None,
   mode |-> d.mode,
   tunnel |-> IF d.origin \in {"quick", "named"} THEN d.origin ELSE None,
   host |-> IF d.origin \in {"named", "direct"} THEN d.origin ELSE None,
   password |-> d.password,
   audio |-> d.audio,
   runtime |-> d.runtime,
   isolated |-> d.isolated]

-----------------------------------------------------------------------------
TypeOK ==
  /\ DOMAIN files \subseteq Paths
  /\ confirmed \in [Paths -> Settings \cup {None}]
  /\ launches \in 0..MaxLaunches
  /\ launch \in {"none", "first", "setup", "configured"}
  /\ path \in Paths
  /\ loads \in 0..2
  /\ step \in Steps
  /\ draft \in Settings
  /\ input \in Inputs
  /\ generate \in BOOLEAN
  /\ untouched \in BOOLEAN
  /\ edits \in 0..MaxEdits
  /\ task \in {"none", "finalize", "start"}
  /\ summary \in Settings \cup {None}
  /\ card \in Passwords \cup {"other", None}

-----------------------------------------------------------------------------
Nothing == [key \in {} |-> ""]
InputsOf(d) == [port |-> d.port, localPort |-> d.localPort, password |-> d.password]

Init ==
  /\ \E existing \in SUBSET Paths : files \in [existing -> HandWritten]
  /\ confirmed = [p \in Paths |-> None]
  /\ launches = 0
  /\ env = Nothing /\ launch = "none" /\ path = "home" /\ loads = 0
  /\ step = "gone"
  /\ draft = Prepared /\ input = InputsOf(Prepared) /\ generate = TRUE
  /\ untouched = FALSE /\ edits = 0
  /\ task = "none" /\ summary = None /\ running = None /\ card = None

(* A new process, in an environment that sets nothing of ours.             *)
Begin(kind, p) ==
  /\ step = "gone" /\ launches < MaxLaunches
  /\ launches' = launches + 1
  /\ launch' = kind /\ path' = p
  /\ edits' = 0
  /\ UNCHANGED <<files, confirmed, summary, running, card>>

LaunchFirst ==
  /\ "home" \notin DOMAIN files
  /\ Begin("first", "home")
  /\ env' = Nothing /\ loads' = 0
  /\ step' = "welcome" /\ task' = "none"
  /\ draft' = Prepared /\ input' = InputsOf(Prepared) /\ generate' = TRUE
  /\ untouched' = FALSE

(* new_configured: the file must be valid, or the program ends at once.    *)
Existing(kind, p) ==
  /\ p \in DOMAIN files
  /\ Begin(kind, p)
  /\ env' = Loaded(Nothing, files[p]) /\ loads' = 1
  /\ Loadable(env')
  /\ draft' = DraftFrom(Config(env')) /\ input' = InputsOf(draft') /\ generate' = FALSE
  /\ untouched' = FALSE

LaunchSetup(p) == Existing("setup", p) /\ step' = "summary" /\ task' = "none"
LaunchConfigured(p) == Existing("configured", p) /\ step' = "status" /\ task' = "start"

-----------------------------------------------------------------------------
(* The pages of the wizard.                                                *)

RemoteAccess == draft.mode # "local"

(* validate_port_input.                                                    *)
ValidPort(text) == text \in Ports \ {0}

(* Mutant of PortsPass: remote access alone is taken to need the gateway's. *)
PortsPassRemote ==
  /\ ValidPort(input.localPort)
  /\ draft.mode = "remote" => ValidPort(input.port)

PortsPass ==
  /\ ValidPort(input.localPort)
  /\ RemoteAccess => ValidPort(input.port)

(* Where Enter leads, where it is allowed; and Esc.                        *)
Forward ==
  CASE step = "welcome" -> "doctor"
    [] step = "doctor" -> "vault"
    [] step = "vault" -> "access"
    [] step = "access" -> IF RemoteAccess THEN "auth" ELSE "ports"
    [] step = "auth" -> "ports"
    [] step = "ports" -> IF PortsPass THEN "audio" ELSE "ports"
    [] step = "audio" -> "summary"

Backward ==
  CASE step = "doctor" -> "welcome"
    [] step = "vault" -> "doctor"
    [] step = "access" -> "vault"
    [] step = "auth" -> "access"
    [] step = "ports" -> IF RemoteAccess THEN "auth" ELSE "access"
    [] step = "audio" -> "ports"
    [] step = "summary" -> "audio"

Page(pages) == step \in pages /\ UNCHANGED <<disk, process, session>>
Edit(pages) == Page(pages) /\ edits < MaxEdits /\ edits' = edits + 1 /\ UNCHANGED step

(* The vault's path may be refused; installing things is left out.         *)
Enter ==
  /\ Page({"welcome", "doctor", "vault", "access", "auth", "ports", "audio"})
  /\ step' = Forward
  /\ untouched' = (IF step = "ports" /\ step' = "audio" THEN TRUE ELSE untouched)
  /\ UNCHANGED <<draft, input, generate, edits>>

Esc ==
  /\ Page({"doctor", "vault", "access", "auth", "ports", "audio", "summary"})
  /\ step' = Backward
  /\ UNCHANGED form

ChooseAccessMode ==
  /\ Edit({"access"})
  /\ \E mode \in Modes \ {draft.mode} : draft' = [draft EXCEPT !.mode = mode]
  /\ UNCHANGED <<input, generate, untouched>>

(* g, which reaches the mode only from the password's field.               *)
GenerateInstead ==
  /\ Edit({"auth"}) /\ ~generate
  /\ generate' = TRUE
  /\ UNCHANGED <<draft, input, untouched>>

TypePassword ==
  /\ Edit({"auth", "summary"}) /\ ~generate
  /\ \E text \in Typed \cup {""} : input' = [input EXCEPT !.password = text]
  /\ UNCHANGED <<draft, generate, untouched>>

(* ports_focus_order.                                                      *)
OnPortsPage ==
  CASE draft.mode = "local" -> {"localPort"}
    [] draft.mode = "remote" -> {"port"}
    [] draft.mode = "both" -> IF draft.local THEN {"port", "localPort"} ELSE {"port"}

TypePort ==
  /\ Edit({"ports"})
  /\ \E field \in OnPortsPage, text \in PortTexts : input' = [input EXCEPT ![field] = text]
  /\ UNCHANGED <<draft, generate, untouched>>

(* Mutant of Offset: what is no port is offset, too.                       *)
OffsetAnything(text) == text + 1

(* increment_port_input: not beyond 65535.                                 *)
Offset(text) == IF text \in Ports /\ text + 1 \in Ports THEN text + 1 ELSE text

(* apply_hidden_dev_port_offset.                                           *)
OffsetPorts ==
  /\ Edit({"ports"})
  /\ input' = [input EXCEPT !.port = Offset(@), !.localPort = Offset(@)]
  /\ draft' = [draft EXCEPT !.port = IF input'.port \in Ports THEN input'.port ELSE @,
                            !.localPort = IF input'.localPort \in Ports THEN input'.localPort ELSE @]
  /\ UNCHANGED <<generate, untouched>>

ToggleAudio ==
  /\ Edit({"audio", "summary"})
  /\ draft' = [draft EXCEPT !.audio = ~@]
  /\ UNCHANGED <<input, generate, untouched>>

(* toggle_ports_boolean and toggle_summary_field.                          *)
ToggleIsolation ==
  /\ Edit({"ports", "summary"})
  /\ draft' = [draft EXCEPT !.isolated = ~@]
  /\ UNCHANGED <<input, generate, untouched>>

(* The focus may still be on a field that another access mode has hidden.  *)
TypePortOnSummary ==
  /\ Edit({"summary"})
  /\ \E field \in {"port", "localPort"}, text \in PortTexts : input' = [input EXCEPT ![field] = text]
  /\ untouched' = FALSE
  /\ UNCHANGED <<draft, generate>>

TogglePasswordMode ==
  /\ Edit({"summary"})
  /\ generate' = ~generate
  /\ UNCHANGED <<draft, input, untouched>>

Fill == \/ ChooseAccessMode \/ GenerateInstead \/ TypePassword \/ TypePort \/ OffsetPorts
        \/ ToggleAudio \/ ToggleIsolation \/ TypePortOnSummary \/ TogglePasswordMode

-----------------------------------------------------------------------------
(* finalize_and_start and what follows it.                                 *)

(* apply_inputs_to_draft: what does not parse keeps its value.             *)
Confirm ==
  /\ step = "summary"
  /\ draft' = [draft EXCEPT !.password = IF generate THEN "" ELSE input.password,
                            !.port = IF input.port \in Ports THEN input.port ELSE @,
                            !.localPort = IF input.localPort \in Ports THEN input.localPort ELSE @]
  /\ task' = "finalize"
  /\ step' = "status"
  /\ UNCHANGED <<disk, process, input, generate, untouched, edits, summary, running, card>>

(* The password is generated, or typed and not blank.                      *)
NewPassword == IF generate THEN Random ELSE {draft.password} \ {""}

(* Mutant of Written: the file is rendered before the policy is applied.   *)
WrittenBeforePolicy(d) ==
  /\ files' = [p \in DOMAIN files \cup {"home"} |->
                 IF p = "home" THEN Rendered([draft EXCEPT !.password = d.password]) ELSE files[p]]
  /\ confirmed' = [confirmed EXCEPT !["home"] = d]

(* The home file, whichever file the settings were read from.              *)
Written(d) ==
  /\ files' = [p \in DOMAIN files \cup {"home"} |-> IF p = "home" THEN Rendered(d) ELSE files[p]]
  /\ confirmed' = [confirmed EXCEPT !["home"] = d]

FinalizeWrites ==
  /\ task = "finalize"
  /\ \E password \in NewPassword :
       LET d == Finalized(draft, password) IN
       /\ Written(d)
       /\ summary' = d
  /\ task' = "start" /\ step' = "status"
  /\ UNCHANGED <<process, launches, form, running, card>>

(* A validation, the model's download or the directory fails; or the mode  *)
(* bits of the file that has been written.                                 *)
FinalizeFails ==
  /\ task = "finalize"
  /\ \/ UNCHANGED <<files, confirmed>>
     \/ \E password \in NewPassword : Written(Finalized(draft, password))
  /\ task' = "none" /\ step' = "summary"
  /\ UNCHANGED <<process, launches, form, summary, running, card>>

(* bootstrap loads the configuration, again if the program has before.     *)
Read ==
  /\ task = "start" /\ task' = "none"
  /\ env' = Loaded(env, files[IF summary = None THEN path ELSE "home"])
  /\ loads' = IF loads = 0 THEN 1 ELSE 2
  /\ UNCHANGED <<disk, launch, path, form, summary>>

(* The session is up, or its runtime reports a failure; the card is made   *)
(* of the summary, or without one of the configuration, if there is a URL. *)
Started ==
  /\ Read /\ Loadable(env')
  /\ running' = Config(env')
  /\ card' \in {card, IF summary = None THEN running'.password ELSE summary.password}
  /\ step' \in IF summary = None THEN {step} ELSE {"status", "summary"}

StartFails == Read /\ UNCHANGED <<step, running, card>>

LookAtCard ==
  /\ \/ step = "status" /\ card # None /\ step' = "card"
     \/ step = "card" /\ step' = "status"
  /\ UNCHANGED <<disk, process, form, session>>

(* The process ends, a file that is being written half written perhaps.    *)
Quit ==
  /\ step # "gone"
  /\ step' = "gone" /\ launch' = "none" /\ path' = "home" /\ env' = Nothing /\ loads' = 0
  /\ draft' = Prepared /\ input' = InputsOf(Prepared) /\ generate' = TRUE
  /\ untouched' = FALSE /\ edits' = 0
  /\ task' = "none" /\ summary' = None /\ running' = None /\ card' = None
  /\ \/ UNCHANGED <<files, confirmed>>
     \/ task = "finalize" /\ \E password \in NewPassword : Written(Finalized(draft, password))
     \/ /\ task = "finalize"
        /\ files' = [p \in DOMAIN files \cup {"home"} |-> IF p = "home" THEN Nothing ELSE files[p]]
        /\ confirmed' = [confirmed EXCEPT !["home"] = None]
  /\ UNCHANGED launches

Next ==
  \/ LaunchFirst
  \/ \E p \in Paths : LaunchSetup(p) \/ LaunchConfigured(p)
  \/ Enter \/ Esc \/ Fill
  \/ Confirm \/ FinalizeWrites \/ FinalizeFails
  \/ Started \/ StartFails \/ LookAtCard
  \/ Quit

Spec == Init /\ [][Next]_vars

-----------------------------------------------------------------------------
(* Properties.                                                             *)

Plain(d) == d.password \notin Substituted

(* What the wizard wrote is what a later run of the program runs with,     *)
(* whatever failed when it was written and whoever wrote the rest.         *)
LaterRunsAreAsConfirmed ==
  launch = "configured" /\ running # None /\ confirmed[path] # None /\ Plain(confirmed[path]) =>
    running = Meant(confirmed[path])

(* So does the session started at once, if this process had read no file.  *)
FirstStartIsAsConfirmed ==
  task = "none" /\ running # None /\ summary # None /\ loads = 1 /\ Plain(summary) =>
    running = Meant(summary)

(* What the wizard wrote can be read again, unless the owner asked on      *)
(* macOS for what Docker cannot do there: the wizard writes an isolated    *)
(* network for Docker without a word (finalize looks at neither), and      *)
(* every later launch refuses that file, a review with the wizard too.     *)
Supported(d) == ~(MacOS /\ d.runtime = "docker" /\ d.isolated)
WrittenFilesLoad ==
  \A p \in Paths :
    confirmed[p] # None /\ Plain(confirmed[p]) /\ Supported(confirmed[p]) =>
      Loadable(Loaded(Nothing, files[p]))

(* Settings that were written by the wizard, reviewed and not edited, stay *)
(* what they are: reading and writing lose nothing.                        *)
ReviewKeepsSettings ==
  [][(/\ launch = "setup" /\ path = "home" /\ edits = 0
      /\ confirmed["home"] # None /\ Plain(confirmed["home"])
      /\ files'["home"] # Nothing) =>
       Config(Loaded(Nothing, files'["home"])) = Config(Loaded(Nothing, files["home"]))]_files

(* Nobody gets to the summary past a port that is wanted and not valid.    *)
PortsAreValidated ==
  step \in {"audio", "summary"} /\ untouched =>
    /\ ValidPort(input.localPort)
    /\ RemoteAccess => ValidPort(input.port)

(* The password on the connection card is the one the gateway accepts.     *)
CardIsRight == step = "card" => card = running.password
=============================================================================
