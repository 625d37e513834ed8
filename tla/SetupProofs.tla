------------------------------ MODULE SetupProofs ------------------------------
(***************************************************************************)
(* Theorems about Setup.                                                   *)
(***************************************************************************)
EXTENDS Setup, TLAPS

(* What confirm and finalize make of a draft.                              *)
Confirmable(d) ==
  /\ d \in Settings
  /\ d.local = (d.mode # "remote")
  /\ d.local => d.token = "token"
  /\ (d.mode = "local") = (d.origin = "disabled")
  /\ d.password # ""

(* Files are what somebody wrote: a confirmed one says what was confirmed. *)
FilesInv ==
  /\ \A p \in DOMAIN files : WellFormed(files[p])
  /\ \A p \in Paths :
       confirmed[p] # None =>
         /\ Confirmable(confirmed[p])
         /\ p \in DOMAIN files /\ files[p] = Rendered(confirmed[p])

(* Between runs of the program nothing is remembered.                      *)
ProcessInv ==
  /\ WellFormed(env)
  /\ loads = 0 => env = Nothing /\ running = None
  /\ step = "gone" => summary = None /\ running = None /\ card = None /\ task = "none"
  /\ task # "none" => step \in {"status", "card"}
  /\ task = "finalize" => launch \in {"first", "setup"}
  /\ task = "start" /\ summary = None => launch = "configured"

(* Pages are shown by the runs that have them.                             *)
LaunchedInv == launch = "none" => step = "gone"

(* A run that only reads has read one file, which nobody writes.           *)
ConfiguredInv ==
  launch = "configured" =>
    /\ step \in {"status", "card"} /\ summary = None
    /\ path \in DOMAIN files /\ env = Loaded(Nothing, files[path])
    /\ running # None => running = Config(env)

(* A session is started from the file that was just written.               *)
StartInv ==
  /\ task = "start" /\ summary # None => confirmed["home"] = summary
  /\ (/\ task # "start" /\ running # None /\ summary # None /\ loads = 1 /\ Plain(summary)) =>
       running = Meant(summary)

(* What was found valid is not edited until it is looked at again.         *)
PortsInv ==
  step \in {"audio", "summary", "status", "card"} /\ untouched =>
    /\ ValidPort(input.localPort)
    /\ RemoteAccess => ValidPort(input.port)

(* A review that edits nothing is about to write what it has read.         *)
ReviewInv ==
  launch = "setup" /\ path = "home" /\ edits = 0 =>
    /\ ~generate /\ input = InputsOf(draft)
    /\ confirmed["home"] # None /\ Plain(confirmed["home"]) =>
         Meant(Finalized(draft, draft.password)) = Meant(confirmed["home"])

IInv ==
  /\ TypeOK
  /\ FilesInv /\ ProcessInv /\ LaunchedInv /\ ConfiguredInv
  /\ StartInv /\ PortsInv /\ ReviewInv

-----------------------------------------------------------------------------
(* What a file says and what becomes of it.                                *)

(* The environment that files are loaded over and into has only what they  *)
(* may set.                                                                *)
LEMMA LoadedWellFormed ==
  ASSUME NEW e, NEW f, WellFormed(e), WellFormed(f)
  PROVE  WellFormed(Loaded(e, f))
<1>1. DOMAIN Loaded(e, f) = DOMAIN e \cup DOMAIN f
  BY DEF Loaded
<1>2. ASSUME NEW key \in DOMAIN Loaded(e, f)
      PROVE  key \in DOMAIN Assignments /\ Loaded(e, f)[key] \in Assignments[key]
  <2>1. CASE key \in DOMAIN e
    BY <1>1, <2>1 DEF Loaded, Assigns, WellFormed
  <2>2. CASE key \notin DOMAIN e /\ key # "PASSWORD"
    BY <1>1, <1>2, <2>2 DEF Loaded, Assigns, WellFormed
  <2>3. CASE key \notin DOMAIN e /\ key = "PASSWORD"
    <3>1. Loaded(e, f)[key] = Parsed(f["PASSWORD"])
      BY <1>1, <1>2, <2>3 DEF Loaded, Assigns
    <3>2. f["PASSWORD"] \in Passwords \cup {"other"} /\ "PASSWORD" \in DOMAIN Assignments
      BY <1>1, <1>2, <2>3 DEF WellFormed, Assignments
    <3> QED BY <3>1, <3>2, <2>3 DEF Parsed, Assignments
  <2> QED BY <2>1, <2>2, <2>3
<1> QED BY <1>2 DEF WellFormed

(* To load a file again changes nothing.                                   *)
LEMMA LoadedAgain ==
  ASSUME NEW f
  PROVE  Loaded(Loaded(Nothing, f), f) = Loaded(Nothing, f)
<1> DEFINE once == Loaded(Nothing, f)
<1>1. DOMAIN once = DOMAIN f
  BY DEF Loaded, Nothing
<1>2. once = [key \in DOMAIN f |-> once[key]]
  BY <1>1 DEF Loaded
<1>3. Loaded(once, f) = [key \in DOMAIN f |-> once[key]]
  BY <1>1 DEF Loaded, Assigns
<1> QED BY <1>2, <1>3

(* What is written can be read.                                            *)
LEMMA RenderedWellFormed ==
  ASSUME NEW d \in Settings
  PROVE  WellFormed(Rendered(d))
<1>1. d.origin \in Origins /\ d.local \in BOOLEAN /\ d.token \in Tokens /\ d.mode \in Modes
      /\ d.port \in PortTexts /\ d.localPort \in PortTexts /\ NoPort \in PortTexts
      /\ d.password \in Passwords \cup {"other"} /\ d.audio \in BOOLEAN /\ "" \in Tokens
      /\ d.runtime \in Runtimes /\ d.isolated \in BOOLEAN
  BY DEF Settings, PortTexts, Tokens
<1> DEFINE a == Rendered(d)
<1>2. DOMAIN a = DOMAIN Assignments
  BY DEF Rendered, Assignments
<1>3. /\ a["PORT"] \in PortTexts /\ a["LOCAL_PORT"] \in PortTexts
      /\ a["TOKEN"] \in Tokens /\ a["MODE"] \in Modes
      /\ a["PASSWORD"] \in Passwords \cup {"other"}
      /\ a["RUNTIME"] \in Runtimes /\ a["LIFETIME"] \in {0, 1}
  BY <1>1 DEF Rendered
<1>4. /\ a["AUDIO"] \in BOOLEAN /\ a["QUICK"] \in BOOLEAN /\ a["NAMED"] \in BOOLEAN
      /\ a["DIRECT"] \in BOOLEAN /\ a["VAULT"] \in BOOLEAN /\ a["ISOLATED"] \in BOOLEAN
  BY <1>1 DEF Rendered
<1> HIDE DEF a
<1>5. ASSUME NEW key \in DOMAIN a PROVE a[key] \in Assignments[key]
  <2>1. CASE key \in {"PORT", "LOCAL_PORT", "TOKEN"}
    <3>1. /\ Assignments["PORT"] = PortTexts /\ Assignments["LOCAL_PORT"] = PortTexts
          /\ Assignments["TOKEN"] = Tokens
      BY DEF Assignments
    <3> QED BY <1>3, <2>1, <3>1
  <2>3. CASE key \in {"MODE", "PASSWORD", "RUNTIME", "LIFETIME"}
    <3>1. /\ Assignments["MODE"] = Modes \cup {"other"}
          /\ Assignments["PASSWORD"] = Passwords \cup {"other"}
          /\ Assignments["RUNTIME"] = Runtimes \cup {"", "other"}
          /\ Assignments["LIFETIME"] = {0, 1}
      BY DEF Assignments
    <3> QED BY <1>3, <2>3, <3>1
  <2>2. CASE key \in {"AUDIO", "QUICK", "NAMED", "DIRECT", "VAULT", "ISOLATED"}
    <3>1. /\ Assignments["AUDIO"] = BOOLEAN /\ Assignments["QUICK"] = BOOLEAN
          /\ Assignments["NAMED"] = BOOLEAN /\ Assignments["DIRECT"] = BOOLEAN
          /\ Assignments["VAULT"] = BOOLEAN /\ Assignments["ISOLATED"] = BOOLEAN
      BY DEF Assignments
    <3> QED BY <1>4, <2>2, <3>1
  <2> QED BY <1>2, <1>5, <2>1, <2>2, <2>3 DEF Assignments
<1>6. WellFormed(a)
  BY <1>2, <1>5 DEF WellFormed
<1> QED BY <1>6 DEF a

(* A loaded environment that is accepted makes a draft.                    *)
LEMMA ConfigIsDraft ==
  ASSUME NEW e, WellFormed(e), Loadable(e)
  PROVE  /\ DraftFrom(Config(e)) \in Settings
         /\ Config(e).password \in Passwords \cup {"other"}
<1>1. DefaultPort \in Ports /\ DefaultLocalPort \in Ports
  BY PortAssumption DEF DefaultPort, DefaultLocalPort, Ports
<1>2. Config(e).port \in Ports
  BY <1>1 DEF Config, Loadable, ValueOr, Assigns, WellFormed, Assignments, PortTexts
<1>3. Config(e).local \in Ports \cup {None}
  BY <1>1 DEF Config, ValueOr, Assigns, WellFormed, Assignments, PortTexts
<1>4. Config(e).mode \in Modes /\ Config(e).audio \in BOOLEAN
  BY DEF Config, Loadable, ValueOr, Assigns, WellFormed, Assignments, Modes
<1>7. Config(e).runtime \in Runtimes \cup {None} /\ Config(e).isolated \in BOOLEAN
  <2>1. Isolated(e) \in BOOLEAN
    BY DEF Isolated, ValueOr, Assigns, WellFormed, Assignments
  <2>2. Runtime(e) \in Runtimes \cup {""}
    BY DEF Loadable, ContainerRefused
  <2> QED BY <2>1, <2>2 DEF Config
<1>8. DefaultRuntime \in Runtimes
  BY DEF DefaultRuntime, Runtimes
<1>5. Config(e).password \in Passwords \cup {"other"}
  BY DEF Config, ValueOr, Assigns, WellFormed, Assignments, Passwords
<1>6. OriginOf(Config(e)) \in Origins
  <2>1. Config(e).tunnel \in {"quick", "named", None}
    BY DEF Config, Tunnel
  <2> QED BY <2>1 DEF OriginOf, Origins
<1> HIDE DEF Config
<1> QED BY <1>1, <1>2, <1>3, <1>4, <1>5, <1>6, <1>7, <1>8 DEF DraftFrom, Settings, Tokens

(* Reading what was written for confirmed settings gives what they mean,   *)
(* and if the system supports them it is not refused.                      *)
LEMMA RoundTrip ==
  ASSUME NEW d, Confirmable(d), Plain(d)
  PROVE  /\ Supported(d) => Loadable(Loaded(Nothing, Rendered(d)))
         /\ Config(Loaded(Nothing, Rendered(d))) = Meant(d)
<1> DEFINE e == Loaded(Nothing, Rendered(d))
<1>1. DOMAIN e = {"PORT", "LOCAL_PORT", "TOKEN", "MODE", "PASSWORD", "AUDIO", "QUICK", "NAMED", "DIRECT",
                "RUNTIME", "VAULT", "ISOLATED", "LIFETIME"}
  BY DEF Loaded, Rendered, Nothing
<1>2. /\ e["PORT"] = d.port
      /\ e["LOCAL_PORT"] = IF d.local THEN d.localPort ELSE NoPort
      /\ e["TOKEN"] = IF d.local THEN d.token ELSE ""
      /\ e["MODE"] = d.mode /\ e["AUDIO"] = d.audio
      /\ e["QUICK"] = (d.origin = "quick")
      /\ e["NAMED"] = (d.origin = "named")
      /\ e["DIRECT"] = (d.origin = "direct")
      /\ e["RUNTIME"] = d.runtime /\ e["VAULT"] /\ e["ISOLATED"] = d.isolated
      /\ e["LIFETIME"] = 1
  BY <1>1 DEF Loaded, Rendered, Nothing, Assigns
<1>3. e["PASSWORD"] = d.password
  BY <1>1 DEF Loaded, Rendered, Nothing, Assigns, Parsed, Plain
<1>4. d.port # NoPort /\ d.localPort # NoPort /\ d.local \in BOOLEAN /\ d.origin \in Origins
      /\ d.runtime \in Runtimes /\ d.isolated \in BOOLEAN /\ d.mode \in Modes
  <2>1. /\ d.port \in Ports /\ d.localPort \in Ports /\ d.local \in BOOLEAN /\ d.origin \in Origins
        /\ d.runtime \in Runtimes /\ d.isolated \in BOOLEAN /\ d.mode \in Modes
    BY DEF Confirmable, Settings
  <2> QED BY <2>1, PortAssumption DEF Ports, NoPort
<1> HIDE DEF e
<1>11. Runtime(e) = d.runtime /\ Isolated(e) = d.isolated /\ d.runtime # ""
  BY <1>1, <1>2, <1>4 DEF Runtime, Isolated, ValueOr, Assigns, Runtimes
<1>5. ASSUME Supported(d) PROVE Loadable(e)
  <2>1. ~ContainerRefused(e)
    BY <1>1, <1>2, <1>4, <1>5, <1>11
       DEF ContainerRefused, Unsupported, Supported, ValueOr, Assigns
  <2>2. ~LocalPortWithoutToken(e)
    BY <1>1, <1>2, <1>4 DEF LocalPortWithoutToken, ValueOr, Assigns, Confirmable
  <2>3. ~HostConflict(e)
    BY <1>1, <1>2, <1>4 DEF HostConflict, ValueOr, Assigns
  <2>4. /\ ValueOr(e, "PORT", DefaultPort) = d.port
        /\ ValueOr(e, "LIFETIME", 1) = 1
        /\ ValueOr(e, "MODE", "both") = d.mode
        /\ ValueOr(e, "PASSWORD", "") = d.password
    BY <1>1, <1>2, <1>3 DEF ValueOr, Assigns
  <2>5. d.password # ""
    BY DEF Confirmable
  <2>6. DefaultPort \in Nat /\ d.port # NoPort /\ d.mode \in Modes /\ 1 # 0
    BY <1>4 DEF DefaultPort
  <2> QED BY <2>1, <2>2, <2>3, <2>4, <2>5, <2>6, Zenon DEF Loadable
<1>6. Config(e).port = d.port /\ Config(e).mode = d.mode
      /\ Config(e).password = d.password /\ Config(e).audio = d.audio
  BY <1>1, <1>2, <1>3 DEF Config, ValueOr, Assigns
<1>12. Config(e).runtime = d.runtime /\ Config(e).isolated = d.isolated
  BY <1>4, <1>11 DEF Config
<1>7. Config(e).local = IF d.local THEN d.localPort ELSE None
  BY <1>1, <1>2, <1>4 DEF Config, ValueOr, Assigns, LocalMcpEnabled, Confirmable
<1>8. Tunnel(e) = IF d.origin \in {"quick", "named"} THEN d.origin ELSE None
  BY <1>1, <1>2, <1>4 DEF Tunnel, ValueOr, Assigns
<1>9. ExpectedHost(e) = IF d.origin \in {"named", "direct"} THEN d.origin ELSE None
  BY <1>1, <1>2, <1>4 DEF ExpectedHost, ValueOr, Assigns, Origins
<1>10. Config(e) = Meant(d)
  BY <1>6, <1>7, <1>8, <1>9, <1>12 DEF Config, Meant
<1> QED BY <1>5, <1>10 DEF e

(* Whatever the draft, finalize makes settings that can be confirmed.      *)
LEMMA FinalizedIsConfirmable ==
  ASSUME NEW d \in Settings, NEW password \in (Passwords \cup {"other"}) \ {""}
  PROVE  Confirmable(Finalized(d, password))
<1> DEFINE policed == WithPolicy([d EXCEPT !.password = password])
<1>1. /\ policed \in Settings
      /\ policed.local = (policed.mode # "remote")
      /\ (policed.mode = "local") = (policed.origin = "disabled")
      /\ policed.password = password
  BY DEF WithPolicy, Settings, Modes, Origins
<1> HIDE DEF policed
<1>2. Finalized(d, password) =
        [policed EXCEPT !.token = IF policed.local /\ @ = "" THEN "token" ELSE @]
  BY DEF Finalized, policed
<1>3. policed.token \in {"", "token"} /\ policed.local \in BOOLEAN
  BY <1>1 DEF Settings, Tokens
<1> QED BY <1>1, <1>2, <1>3 DEF Confirmable, Settings, Tokens

(* A draft made from a configuration and finalized means that same again.  *)
LEMMA ReviewedIsSame ==
  ASSUME NEW d, Confirmable(d)
  PROVE  LET r == DraftFrom(Meant(d)) IN Meant(Finalized(r, r.password)) = Meant(d)
<1> DEFINE r == DraftFrom(Meant(d))
           f == Finalized(r, r.password)
<1>1. d.origin \in Origins /\ d.local \in BOOLEAN /\ d.mode \in Modes /\ d.localPort \in Ports
      /\ d.runtime \in Runtimes
  BY DEF Confirmable, Settings
<1>2. OriginOf(Meant(d)) = d.origin
  BY <1>1, NoneAssumption DEF OriginOf, Meant, Origins
<1>3. /\ r.port = d.port /\ r.mode = d.mode /\ r.password = d.password /\ r.audio = d.audio
      /\ r.local = d.local /\ r.origin = d.origin
      /\ d.local => r.localPort = d.localPort
      /\ r.runtime = d.runtime /\ r.isolated = d.isolated
  BY <1>1, <1>2, NoneAssumption DEF DraftFrom, Meant
<1>4. f.port = r.port /\ f.localPort = r.localPort /\ f.mode = r.mode
      /\ f.password = r.password /\ f.audio = r.audio
      /\ f.runtime = r.runtime /\ f.isolated = r.isolated
  BY DEF Finalized, WithPolicy, DraftFrom
<1>5. f.local = (r.mode # "remote")
      /\ f.origin = IF r.mode = "local" THEN "disabled"
                    ELSE IF r.origin = "disabled" THEN "quick" ELSE r.origin
  BY DEF Finalized, WithPolicy, DraftFrom
<1> HIDE DEF r, f
<1>6. f.local = d.local /\ f.origin = d.origin
  BY <1>1, <1>3, <1>5 DEF Confirmable
<1>7. Meant(f) = Meant(d)
  BY <1>3, <1>4, <1>6, <1>1 DEF Meant
<1> QED BY <1>7 DEF f, r

-----------------------------------------------------------------------------
(* The steps.                                                              *)

(* An edit is counted.                                                     *)
LEMMA EditCounts ==
  ASSUME TypeOK, NEW pages, Edit(pages)
  PROVE  /\ edits' = edits + 1 /\ edits' \in 0..MaxEdits
         /\ step \in pages /\ step' = step
         /\ UNCHANGED <<disk, process, session>>
BY BoundAssumption DEF TypeOK, Edit, Page

(* The pages change the form and nothing else, and its types stay.         *)
LEMMA FillForm ==
  ASSUME TypeOK, Fill
  PROVE  /\ draft' \in Settings /\ input' \in Inputs /\ generate' \in BOOLEAN /\ untouched' \in BOOLEAN
         /\ edits' = edits + 1 /\ edits' \in 0..MaxEdits
         /\ step \in {"access", "auth", "summary", "ports", "audio"} /\ step' = step
         /\ UNCHANGED <<disk, process, session>>
<1>1. draft \in Settings /\ input \in Inputs /\ generate \in BOOLEAN /\ untouched \in BOOLEAN
  BY DEF TypeOK
<1>2. ASSUME NEW pages \in SUBSET {"access", "auth", "summary", "ports", "audio"}, Edit(pages)
      PROVE  /\ edits' = edits + 1 /\ edits' \in 0..MaxEdits
             /\ step \in {"access", "auth", "summary", "ports", "audio"} /\ step' = step
             /\ UNCHANGED <<disk, process, session>>
  BY <1>2, EditCounts
<1>3. \E pages \in SUBSET {"access", "auth", "summary", "ports", "audio"} : Edit(pages)
  BY DEF Fill, ChooseAccessMode, GenerateInstead, TypePassword, TypePort, OffsetPorts,
         ToggleAudio, ToggleIsolation, TypePortOnSummary, TogglePasswordMode
<1>4. untouched' \in BOOLEAN
  BY <1>1, Zenon DEF Fill, ChooseAccessMode, GenerateInstead, TypePassword, TypePort, OffsetPorts,
         ToggleAudio, ToggleIsolation, TypePortOnSummary, TogglePasswordMode
<1>5. generate' \in BOOLEAN
  <2>1. generate' \in {generate, TRUE, ~generate}
    BY DEF Fill, ChooseAccessMode, GenerateInstead, TypePassword, TypePort, OffsetPorts,
           ToggleAudio, ToggleIsolation, TypePortOnSummary, TogglePasswordMode
  <2> QED BY <1>1, <2>1
<1>6. draft' \in Settings
  <2>1. CASE ChooseAccessMode
    BY <1>1, <2>1 DEF ChooseAccessMode, Settings
  <2>2. CASE OffsetPorts
    BY <1>1, <2>2 DEF OffsetPorts, Settings
  <2>3. CASE ToggleAudio
    <3>1. PICK audio \in BOOLEAN : draft' = [draft EXCEPT !.audio = audio]
      BY <1>1, <2>3 DEF ToggleAudio, Settings
    <3> QED BY <1>1, <3>1 DEF Settings
  <2>4. CASE ToggleIsolation
    <3>1. PICK isolated \in BOOLEAN : draft' = [draft EXCEPT !.isolated = isolated]
      BY <1>1, <2>4 DEF ToggleIsolation, Settings
    <3> QED BY <1>1, <3>1 DEF Settings
  <2> QED BY <1>1, <2>1, <2>2, <2>3, <2>4
          DEF Fill, GenerateInstead, TypePassword, TypePort, TypePortOnSummary, TogglePasswordMode
<1>7. input' \in Inputs
  <2>1. CASE TypePassword
    <3>1. PICK text \in Passwords : input' = [input EXCEPT !.password = text]
      BY <2>1 DEF TypePassword, Passwords
    <3> QED BY <1>1, <3>1 DEF Inputs
  <2>2. ASSUME NEW field \in {"port", "localPort"}, NEW text \in PortTexts,
               input' = [input EXCEPT ![field] = text]
        PROVE  input' \in Inputs
    <3>1. CASE field = "port"
      BY <1>1, <2>2, <3>1 DEF Inputs
    <3>2. CASE field = "localPort"
      BY <1>1, <2>2, <3>2 DEF Inputs
    <3> QED BY <3>1, <3>2
  <2>3. CASE TypePort \/ TypePortOnSummary
    <3>1. OnPortsPage \subseteq {"port", "localPort"}
      <4>1. draft.mode \in Modes
        BY <1>1 DEF Settings
      <4> QED BY <4>1 DEF OnPortsPage, Modes
    <3> QED BY <2>2, <2>3, <3>1 DEF TypePort, TypePortOnSummary
  <2>4. CASE OffsetPorts
    BY <1>1, <2>4 DEF OffsetPorts, Offset, Inputs, PortTexts
  <2> QED BY <1>1, <2>1, <2>3, <2>4
          DEF Fill, ChooseAccessMode, GenerateInstead, ToggleAudio, ToggleIsolation, TogglePasswordMode
<1> QED BY <1>2, <1>3, <1>4, <1>5, <1>6, <1>7

(* Enter and Esc turn pages.                                               *)
LEMMA TurnPage ==
  ASSUME Enter \/ Esc
  PROVE  /\ step \in {"welcome", "doctor", "vault", "access", "auth", "ports", "audio", "summary"}
         /\ step' \in {"welcome", "doctor", "vault", "access", "auth", "ports", "audio", "summary"}
         /\ UNCHANGED <<disk, process, session, draft, input, generate, edits>>
BY DEF Enter, Esc, Page, Forward, Backward, form

(* A launch with a file: what is loaded, and the draft made of it.         *)
LEMMA LaunchLoads ==
  ASSUME IInv, NEW p \in Paths, NEW kind, Existing(kind, p)
  PROVE  /\ WellFormed(env') /\ Loadable(env') /\ env' = Loaded(Nothing, files[p])
         /\ p \in DOMAIN files /\ UNCHANGED <<files, confirmed, summary, running, card>>
         /\ summary = None /\ running = None /\ card = None /\ step = "gone"
         /\ launch' = kind /\ path' = p /\ loads' = 1 /\ edits' = 0
         /\ launches' \in 0..MaxLaunches
         /\ draft' = DraftFrom(Config(env')) /\ input' = InputsOf(draft')
         /\ generate' = FALSE /\ untouched' = FALSE
         /\ draft' \in Settings /\ input' \in Inputs
<1>1. WellFormed(Nothing) /\ WellFormed(files[p])
  BY DEF WellFormed, Nothing, IInv, FilesInv, Existing
<1>2. WellFormed(env')
  BY <1>1, LoadedWellFormed DEF Existing
<1>3. draft' \in Settings
  BY <1>2, ConfigIsDraft DEF Existing
<1>4. input' \in Inputs
  BY <1>3 DEF Existing, InputsOf, Inputs, Settings, PortTexts
<1>5. launches' \in 0..MaxLaunches
  BY BoundAssumption DEF Existing, Begin, IInv, TypeOK
<1> QED BY <1>2, <1>3, <1>4, <1>5 DEF Existing, Begin, IInv, ProcessInv

(* Confirm keeps the draft's type.                                         *)
LEMMA ConfirmKeepsType ==
  ASSUME TypeOK, Confirm
  PROVE  draft' \in Settings
<1>1. draft \in Settings /\ input \in Inputs
  BY DEF TypeOK
<1>2. "" \in Passwords /\ input.password \in Passwords \cup {"other"}
  BY <1>1 DEF Inputs, Passwords
<1> QED BY <1>1, <1>2 DEF Confirm, Settings

(* The password finalize gives is one and not blank.                       *)
LEMMA NewPasswords ==
  ASSUME TypeOK, NEW password \in NewPassword
  PROVE  password \in (Passwords \cup {"other"}) \ {""}
<1>1. draft.password \in Passwords \cup {"other"}
  BY DEF TypeOK, Settings
<1>2. Random \subseteq Passwords /\ "" \notin Random
  BY PasswordAssumption DEF Passwords
<1> QED BY <1>1, <1>2 DEF NewPassword

(* Files that are written are what was confirmed.                          *)
LEMMA WrittenInv ==
  ASSUME FilesInv, NEW d, Confirmable(d), Written(d),
         confirmed \in [Paths -> Settings \cup {None}], DOMAIN files \subseteq Paths
  PROVE  /\ FilesInv' /\ DOMAIN files' \subseteq Paths
         /\ confirmed' \in [Paths -> Settings \cup {None}] /\ confirmed'["home"] = d
<1>1. d \in Settings /\ "home" \in Paths
  BY DEF Confirmable, Paths
<1>2. WellFormed(Rendered(d))
  BY <1>1, RenderedWellFormed
<1>3. DOMAIN files' = DOMAIN files \cup {"home"} /\ files'["home"] = Rendered(d)
      /\ \A p \in DOMAIN files \ {"home"} : files'[p] = files[p]
  BY DEF Written
<1>4. confirmed' \in [Paths -> Settings \cup {None}] /\ confirmed'["home"] = d
      /\ \A p \in Paths \ {"home"} : confirmed'[p] = confirmed[p]
  BY <1>1 DEF Written
<1>5. ASSUME NEW p \in DOMAIN files' PROVE WellFormed(files'[p])
  BY <1>2, <1>3, <1>5 DEF FilesInv
<1>6. ASSUME NEW p \in Paths, confirmed'[p] # None
      PROVE  Confirmable(confirmed'[p]) /\ p \in DOMAIN files' /\ files'[p] = Rendered(confirmed'[p])
  BY <1>3, <1>4, <1>6 DEF FilesInv
<1> QED BY <1>1, <1>3, <1>4, <1>5, <1>6 DEF FilesInv
(* The defaults are settings.                                              *)
LEMMA PreparedIsDraft == Prepared \in Settings
<1>1. DefaultPort \in Ports /\ DefaultLocalPort \in Ports
  BY PortAssumption DEF DefaultPort, DefaultLocalPort, Ports
<1>2. DefaultRuntime \in Runtimes
  BY DEF DefaultRuntime, Runtimes
<1> QED BY <1>1, <1>2 DEF Prepared, Settings, Tokens, Modes, Origins, Passwords

(* Initially nothing runs.                                                 *)
LEMMA InitInv == Init => IInv
<1> SUFFICES ASSUME Init PROVE IInv
  OBVIOUS
<1>1. Prepared \in Settings
  BY PreparedIsDraft
<1>2. InputsOf(Prepared) \in Inputs
  BY <1>1 DEF InputsOf, Inputs, Settings, PortTexts
<1>3. DOMAIN files \subseteq Paths /\ \A p \in DOMAIN files : WellFormed(files[p])
  BY HandWrittenAssumption DEF Init
<1>4. WellFormed(Nothing)
  BY DEF WellFormed, Nothing
<1>5. confirmed \in [Paths -> Settings \cup {None}]
  BY DEF Init
<1>6. TypeOK
  <2>1. launches \in 0..MaxLaunches /\ edits \in 0..MaxEdits /\ loads \in 0..2
    BY BoundAssumption DEF Init
  <2>2. generate \in BOOLEAN /\ untouched \in BOOLEAN /\ draft \in Settings /\ input \in Inputs
    BY <1>1, <1>2 DEF Init
  <2>3. path \in Paths /\ step \in Steps /\ card \in Passwords \cup {"other", None}
    BY DEF Init, Paths, Steps
  <2> QED BY <2>1, <2>2, <2>3, <1>3, <1>5 DEF Init, TypeOK
<1>7. FilesInv
  BY <1>3 DEF Init, FilesInv
<1>8. ProcessInv /\ LaunchedInv /\ ConfiguredInv /\ StartInv /\ PortsInv /\ ReviewInv
  BY <1>4 DEF Init, ProcessInv, LaunchedInv, ConfiguredInv, StartInv, PortsInv, ReviewInv
<1> QED BY <1>6, <1>7, <1>8 DEF IInv

(* The first run starts from the defaults.                                 *)
LEMMA LaunchFirstInv ==
  ASSUME IInv, LaunchFirst
  PROVE  IInv'
<1>1. Prepared \in Settings
  BY PreparedIsDraft
<1>2. InputsOf(Prepared) \in Inputs
  BY <1>1 DEF InputsOf, Inputs, Settings, PortTexts
<1>3. launches' \in 0..MaxLaunches
  BY BoundAssumption DEF LaunchFirst, Begin, IInv, TypeOK
<1>4. /\ UNCHANGED <<files, confirmed, summary, running, card>>
      /\ launch' = "first" /\ path' = "home" /\ edits' = 0 /\ env' = Nothing /\ loads' = 0
      /\ step' = "welcome" /\ task' = "none" /\ draft' = Prepared /\ input' = InputsOf(Prepared)
      /\ generate' = TRUE /\ untouched' = FALSE
      /\ summary = None /\ running = None /\ card = None
  BY DEF LaunchFirst, Begin, IInv, ProcessInv
<1>5. TypeOK'
  <2>1. edits' \in 0..MaxEdits /\ loads' \in 0..2 /\ path' \in Paths /\ step' \in Steps
    BY <1>4, BoundAssumption DEF Paths, Steps
  <2>2. generate' \in BOOLEAN /\ untouched' \in BOOLEAN /\ draft' \in Settings /\ input' \in Inputs
    BY <1>1, <1>2, <1>4
  <2> QED BY <2>1, <2>2, <1>3, <1>4 DEF IInv, TypeOK
<1>6. FilesInv'
  BY <1>4 DEF IInv, FilesInv
<1>7. ProcessInv' /\ LaunchedInv' /\ ConfiguredInv' /\ StartInv' /\ PortsInv' /\ ReviewInv'
  BY <1>4 DEF ProcessInv, LaunchedInv, ConfiguredInv, StartInv, PortsInv, ReviewInv, WellFormed, Nothing
<1> QED BY <1>5, <1>6, <1>7 DEF IInv

(* A review starts from what is in the file, which is what was confirmed.  *)
LEMMA LaunchSetupInv ==
  ASSUME IInv, NEW p \in Paths, LaunchSetup(p)
  PROVE  IInv'
<1>1. Existing("setup", p) /\ step' = "summary" /\ task' = "none"
  BY DEF LaunchSetup
<1>2. /\ WellFormed(env') /\ Loadable(env') /\ env' = Loaded(Nothing, files[p])
      /\ p \in DOMAIN files /\ UNCHANGED <<files, confirmed, summary, running, card>>
      /\ summary = None /\ running = None /\ card = None
      /\ launch' = "setup" /\ path' = p /\ loads' = 1 /\ edits' = 0
      /\ launches' \in 0..MaxLaunches
      /\ draft' = DraftFrom(Config(env')) /\ input' = InputsOf(draft')
      /\ generate' = FALSE /\ untouched' = FALSE
      /\ draft' \in Settings /\ input' \in Inputs
  BY <1>1, LaunchLoads
<1>3. TypeOK'
  <2>1. edits' \in 0..MaxEdits /\ loads' \in 0..2 /\ step' \in Steps
    BY <1>1, <1>2, BoundAssumption DEF Steps
  <2>2. generate' \in BOOLEAN /\ untouched' \in BOOLEAN
    BY <1>2
  <2> QED BY <2>1, <2>2, <1>1, <1>2 DEF IInv, TypeOK
<1>4. FilesInv'
  BY <1>2 DEF IInv, FilesInv
<1>5. ProcessInv' /\ LaunchedInv' /\ ConfiguredInv' /\ StartInv' /\ PortsInv'
  BY <1>1, <1>2 DEF ProcessInv, LaunchedInv, ConfiguredInv, StartInv, PortsInv
<1>6. ASSUME p = "home", confirmed["home"] # None, Plain(confirmed["home"])
      PROVE  Meant(Finalized(draft', draft'.password)) = Meant(confirmed["home"])
  <2>1. Confirmable(confirmed["home"]) /\ files["home"] = Rendered(confirmed["home"])
    BY <1>6 DEF IInv, FilesInv
  <2>2. Config(env') = Meant(confirmed["home"])
    BY <1>2, <1>6, <2>1, RoundTrip
  <2> QED BY <1>2, <2>1, <2>2, ReviewedIsSame
<1>7. ReviewInv'
  BY <1>2, <1>6 DEF ReviewInv
<1> QED BY <1>3, <1>4, <1>5, <1>7 DEF IInv

(* A normal run starts from its file, which nobody will write.             *)
LEMMA LaunchConfiguredInv ==
  ASSUME IInv, NEW p \in Paths, LaunchConfigured(p)
  PROVE  IInv'
<1>1. Existing("configured", p) /\ step' = "status" /\ task' = "start"
  BY DEF LaunchConfigured
<1>2. /\ WellFormed(env') /\ Loadable(env') /\ env' = Loaded(Nothing, files[p])
      /\ p \in DOMAIN files /\ UNCHANGED <<files, confirmed, summary, running, card>>
      /\ summary = None /\ running = None /\ card = None
      /\ launch' = "configured" /\ path' = p /\ loads' = 1 /\ edits' = 0
      /\ launches' \in 0..MaxLaunches
      /\ generate' = FALSE /\ untouched' = FALSE
      /\ draft' \in Settings /\ input' \in Inputs
  BY <1>1, LaunchLoads
<1>3. TypeOK'
  <2>1. edits' \in 0..MaxEdits /\ loads' \in 0..2 /\ step' \in Steps
    BY <1>1, <1>2, BoundAssumption DEF Steps
  <2>2. generate' \in BOOLEAN /\ untouched' \in BOOLEAN
    BY <1>2
  <2> QED BY <2>1, <2>2, <1>1, <1>2 DEF IInv, TypeOK
<1>4. FilesInv'
  BY <1>2 DEF IInv, FilesInv
<1>5. ProcessInv' /\ LaunchedInv' /\ ConfiguredInv' /\ StartInv' /\ PortsInv' /\ ReviewInv'
  BY <1>1, <1>2 DEF ProcessInv, LaunchedInv, ConfiguredInv, StartInv, PortsInv, ReviewInv
<1> QED BY <1>3, <1>4, <1>5 DEF IInv

(* A page is left when its ports are valid.                                *)
LEMMA TurnPageInv ==
  ASSUME IInv, Enter \/ Esc
  PROVE  IInv'
<1>1. /\ step \in {"welcome", "doctor", "vault", "access", "auth", "ports", "audio", "summary"}
      /\ step' \in {"welcome", "doctor", "vault", "access", "auth", "ports", "audio", "summary"}
      /\ UNCHANGED <<disk, process, session, draft, input, generate, edits>>
  BY TurnPage
<1>2. task = "none" /\ launch # "configured"
  BY <1>1 DEF IInv, ProcessInv, LaunchedInv, ConfiguredInv, TypeOK
<1>3. untouched' \in BOOLEAN
  BY DEF Enter, Esc, form, IInv, TypeOK
<1>4. TypeOK'
  BY <1>1, <1>3 DEF IInv, TypeOK, Steps, disk, process, session
<1>5. FilesInv' /\ ProcessInv' /\ LaunchedInv' /\ ConfiguredInv' /\ StartInv' /\ ReviewInv'
  BY <1>1, <1>2 DEF IInv, FilesInv, ProcessInv, LaunchedInv, ConfiguredInv, StartInv, ReviewInv,
        disk, process, session
<1>6. PortsInv'
  <2>1. CASE step \in {"audio", "summary"} /\ untouched
    BY <1>1, <2>1 DEF IInv, PortsInv, RemoteAccess
  <2>2. CASE step = "ports" /\ Enter
    BY <1>1, <2>2 DEF Enter, Forward, PortsPass, PortsInv, RemoteAccess
  <2>3. CASE step = "ports" /\ Esc
    BY <1>1, <2>3 DEF Esc, Backward, PortsInv
  <2>4. CASE step \in {"audio", "summary"} /\ ~untouched
    BY <1>1, <2>4 DEF Enter, Esc, form, PortsInv, IInv, TypeOK
  <2>5. CASE step \in {"welcome", "doctor", "vault", "access", "auth"}
    <3>1. CASE Enter
      <4>1. Forward \notin {"audio", "summary", "status", "card"}
        BY <2>5 DEF Forward
      <4> QED BY <3>1, <4>1 DEF Enter, PortsInv
    <3>2. CASE Esc
      <4>1. step # "welcome"
        BY <3>2 DEF Esc, Page
      <4>2. Backward \notin {"audio", "summary", "status", "card"}
        BY <2>5, <4>1 DEF Backward
      <4> QED BY <3>2, <4>2 DEF Esc, PortsInv
    <3> QED BY <3>1, <3>2
  <2> QED BY <1>1, <2>1, <2>2, <2>3, <2>4, <2>5
<1> QED BY <1>4, <1>5, <1>6 DEF IInv

(* An edit ends a review, and is not made past the pages.                  *)
LEMMA FillInv ==
  ASSUME IInv, Fill
  PROVE  IInv'
<1>1. /\ draft' \in Settings /\ input' \in Inputs /\ generate' \in BOOLEAN /\ untouched' \in BOOLEAN
      /\ edits' = edits + 1 /\ edits' \in 0..MaxEdits
      /\ step \in {"access", "auth", "summary", "ports", "audio"} /\ step' = step
      /\ UNCHANGED <<disk, process, session>>
  BY FillForm DEF IInv
<1>2. task = "none" /\ launch # "configured"
  BY <1>1 DEF IInv, ProcessInv, LaunchedInv, ConfiguredInv
<1>3. TypeOK'
  BY <1>1 DEF IInv, TypeOK, disk, process, session
<1>4. FilesInv' /\ ProcessInv' /\ LaunchedInv' /\ ConfiguredInv' /\ StartInv'
  BY <1>1, <1>2 DEF IInv, FilesInv, ProcessInv, LaunchedInv, ConfiguredInv, StartInv, disk, process, session
<1>5. ReviewInv'
  BY <1>1, BoundAssumption DEF ReviewInv, IInv, TypeOK
<1>6. PortsInv'
  <2>1. CASE ToggleAudio
    BY <1>1, <2>1 DEF ToggleAudio, IInv, PortsInv, RemoteAccess, TypeOK, Settings
  <2>2. CASE TypePassword \/ TogglePasswordMode
    BY <1>1, <2>2 DEF TypePassword, TogglePasswordMode, IInv, PortsInv, RemoteAccess, TypeOK, Inputs
  <2>3. CASE TypePortOnSummary
    BY <2>3 DEF TypePortOnSummary, PortsInv
  <2>4. CASE ChooseAccessMode \/ GenerateInstead \/ TypePort \/ OffsetPorts
    <3>1. step' \in {"access", "auth", "ports"}
      BY <1>1, <2>4 DEF ChooseAccessMode, GenerateInstead, TypePort, OffsetPorts, Edit, Page
    <3> QED BY <3>1 DEF PortsInv
  <2>5. CASE ToggleIsolation
    BY <1>1, <2>5 DEF ToggleIsolation, IInv, PortsInv, RemoteAccess, TypeOK, Settings
  <2> QED BY <2>1, <2>2, <2>3, <2>4, <2>5 DEF Fill
<1> QED BY <1>3, <1>4, <1>5, <1>6 DEF IInv
(* Confirming takes the inputs over; without edits they are the draft's.   *)
LEMMA ConfirmInv ==
  ASSUME IInv, Confirm
  PROVE  IInv'
<1>1. /\ step = "summary" /\ step' = "status" /\ task' = "finalize"
      /\ UNCHANGED <<disk, process, input, generate, untouched, edits, summary, running, card>>
      /\ draft' = [draft EXCEPT !.password = IF generate THEN "" ELSE input.password,
                                !.port = IF input.port \in Ports THEN input.port ELSE @,
                                !.localPort = IF input.localPort \in Ports THEN input.localPort ELSE @]
  BY DEF Confirm
<1>2. draft' \in Settings /\ draft \in Settings
  BY ConfirmKeepsType DEF IInv, TypeOK
<1>3. task = "none" /\ launch \in {"first", "setup"}
  <2>1. launch # "none"
    BY <1>1 DEF IInv, LaunchedInv
  <2> QED BY <1>1, <2>1 DEF IInv, ProcessInv, ConfiguredInv, TypeOK
<1>4. TypeOK'
  BY <1>1, <1>2 DEF IInv, TypeOK, Steps, disk, process
<1>5. FilesInv' /\ ProcessInv' /\ LaunchedInv' /\ ConfiguredInv' /\ StartInv'
  BY <1>1, <1>3 DEF IInv, FilesInv, ProcessInv, LaunchedInv, ConfiguredInv, StartInv, disk, process
<1>6. PortsInv'
  BY <1>1, <1>2 DEF IInv, PortsInv, RemoteAccess, Settings
<1>7. ASSUME ~generate, input = InputsOf(draft) PROVE draft' = draft
  <2>1. input.password = draft.password /\ input.port = draft.port /\ input.localPort = draft.localPort
    BY <1>7 DEF InputsOf
  <2>2. draft.port \in Ports /\ draft.localPort \in Ports
    BY <1>2 DEF Settings
  <2> QED BY <1>1, <1>2, <1>7, <2>1, <2>2 DEF Settings
<1>8. ReviewInv'
  BY <1>1, <1>7 DEF IInv, ReviewInv, disk, process
<1> QED BY <1>4, <1>5, <1>6, <1>8 DEF IInv

(* What finalize makes of the draft, written or not.                       *)
LEMMA WriteInv ==
  ASSUME IInv, task = "finalize", NEW password \in NewPassword,
         Written(Finalized(draft, password))
  PROVE  /\ Confirmable(Finalized(draft, password))
         /\ FilesInv' /\ DOMAIN files' \subseteq Paths
         /\ confirmed' \in [Paths -> Settings \cup {None}]
         /\ confirmed'["home"] = Finalized(draft, password)
         /\ ~generate => password = draft.password
<1>1. password \in (Passwords \cup {"other"}) \ {""} /\ draft \in Settings
  BY NewPasswords DEF IInv, TypeOK
<1>2. Confirmable(Finalized(draft, password))
  BY <1>1, FinalizedIsConfirmable
<1>3. FilesInv /\ confirmed \in [Paths -> Settings \cup {None}] /\ DOMAIN files \subseteq Paths
  BY DEF IInv, TypeOK
<1>4. ~generate => password = draft.password
  BY DEF NewPassword
<1> QED BY <1>2, <1>3, <1>4, WrittenInv

(* Finalize writes what the session is then started from.                  *)
LEMMA FinalizeWritesInv ==
  ASSUME IInv, FinalizeWrites
  PROVE  IInv'
<1>1. PICK password \in NewPassword :
        Written(Finalized(draft, password)) /\ summary' = Finalized(draft, password)
  BY DEF FinalizeWrites
<1>2. /\ task = "finalize" /\ task' = "start" /\ step' = "status"
      /\ UNCHANGED <<process, launches, form, running, card>>
  BY DEF FinalizeWrites
<1>3. /\ Confirmable(Finalized(draft, password))
      /\ FilesInv' /\ DOMAIN files' \subseteq Paths
      /\ confirmed' \in [Paths -> Settings \cup {None}]
      /\ confirmed'["home"] = Finalized(draft, password)
      /\ ~generate => password = draft.password
  BY <1>1, <1>2, WriteInv
<1>4. summary' \in Settings
  BY <1>1, <1>3 DEF Confirmable
<1>5. TypeOK'
  BY <1>2, <1>3, <1>4 DEF IInv, TypeOK, Steps, process, form
<1>6. step \in {"status", "card"} /\ launch \in {"first", "setup"}
  BY <1>2 DEF IInv, ProcessInv
<1>7. ProcessInv' /\ LaunchedInv' /\ ConfiguredInv' /\ StartInv'
  <2>1. summary' # None
    BY <1>4, NoneAssumption
  <2> QED BY <2>1, <1>1, <1>2, <1>3, <1>6
          DEF IInv, ProcessInv, LaunchedInv, ConfiguredInv, StartInv, process
<1>8. PortsInv'
  BY <1>2, <1>6 DEF IInv, PortsInv, RemoteAccess, form
<1>9. ReviewInv'
  BY <1>2, <1>3 DEF IInv, ReviewInv, process, form
<1> QED BY <1>3, <1>5, <1>7, <1>8, <1>9 DEF IInv

(* A finalize that fails leads back to the summary, the file written or not. *)
LEMMA FinalizeFailsInv ==
  ASSUME IInv, FinalizeFails
  PROVE  IInv'
<1>1. /\ task = "finalize" /\ task' = "none" /\ step' = "summary"
      /\ UNCHANGED <<process, launches, form, summary, running, card>>
  BY DEF FinalizeFails
<1>2. step \in {"status", "card"} /\ launch \in {"first", "setup"}
  BY <1>1 DEF IInv, ProcessInv
<1>3. /\ FilesInv' /\ DOMAIN files' \subseteq Paths /\ confirmed' \in [Paths -> Settings \cup {None}]
      /\ \/ UNCHANGED <<files, confirmed>>
         \/ ~generate => confirmed'["home"] = Finalized(draft, draft.password)
  <2>1. CASE UNCHANGED <<files, confirmed>>
    BY <2>1 DEF IInv, FilesInv, TypeOK
  <2>2. ASSUME NEW password \in NewPassword, Written(Finalized(draft, password))
        PROVE  /\ FilesInv' /\ DOMAIN files' \subseteq Paths
               /\ confirmed' \in [Paths -> Settings \cup {None}]
               /\ ~generate => confirmed'["home"] = Finalized(draft, draft.password)
    BY <1>1, <2>2, WriteInv
  <2> QED BY <2>1, <2>2 DEF FinalizeFails
<1>4. TypeOK'
  BY <1>1, <1>3 DEF IInv, TypeOK, Steps, process, form
<1>5. ProcessInv' /\ LaunchedInv' /\ ConfiguredInv' /\ StartInv'
  BY <1>1, <1>2 DEF IInv, ProcessInv, LaunchedInv, ConfiguredInv, StartInv, process
<1>6. PortsInv'
  BY <1>1, <1>2 DEF IInv, PortsInv, RemoteAccess, form
<1>7. ReviewInv'
  BY <1>1, <1>3 DEF IInv, ReviewInv, process, form
<1> QED BY <1>3, <1>4, <1>5, <1>6, <1>7 DEF IInv

(* What a start reads.                                                     *)
LEMMA ReadLoads ==
  ASSUME IInv, Read
  PROVE  /\ WellFormed(env') /\ loads' \in {1, 2} /\ step \in {"status", "card"}
         /\ loads' = 1 /\ summary # None =>
              /\ running = None
              /\ Confirmable(summary) /\ env' = Loaded(Nothing, Rendered(summary))
         /\ launch = "configured" => env' = env
<1>1. /\ task = "start" /\ loads' = (IF loads = 0 THEN 1 ELSE 2)
      /\ env' = Loaded(env, files[IF summary = None THEN path ELSE "home"])
  BY DEF Read
<1>2. summary = None => launch = "configured"
  BY <1>1 DEF IInv, ProcessInv
<1>3. launch = "configured" =>
        summary = None /\ path \in DOMAIN files /\ env = Loaded(Nothing, files[path])
  BY DEF IInv, ConfiguredInv
<1>4. launch = "configured" => env' = env
  BY <1>1, <1>3, LoadedAgain
<1>5. summary # None =>
        /\ Confirmable(summary)
        /\ "home" \in DOMAIN files /\ files["home"] = Rendered(summary)
  <2>1. summary # None => confirmed["home"] = summary
    BY <1>1 DEF IInv, StartInv
  <2>2. "home" \in Paths
    BY DEF Paths
  <2> QED BY <2>1, <2>2 DEF IInv, FilesInv
<1>6. WellFormed(env')
  <2>1. WellFormed(env) /\ \A p \in DOMAIN files : WellFormed(files[p])
    BY DEF IInv, FilesInv, ProcessInv
  <2>2. (IF summary = None THEN path ELSE "home") \in DOMAIN files
    BY <1>2, <1>3, <1>5
  <2> QED BY <1>1, <2>1, <2>2, LoadedWellFormed
<1>7. loads' = 1 => env = Nothing /\ running = None
  BY <1>1 DEF IInv, ProcessInv
<1>8. step \in {"status", "card"}
  BY <1>1 DEF IInv, ProcessInv
<1> QED BY <1>1, <1>4, <1>5, <1>6, <1>7, <1>8

(* A session that is up runs with the configuration that was read.         *)
LEMMA StartedInv ==
  ASSUME IInv, Started
  PROVE  IInv'
<1>1. Read /\ Loadable(env') /\ running' = Config(env')
      /\ card' \in {card, IF summary = None THEN running'.password ELSE summary.password}
      /\ step' \in IF summary = None THEN {step} ELSE {"status", "summary"}
  BY DEF Started
<1>2. task = "start" /\ task' = "none" /\ UNCHANGED <<disk, launch, path, form, summary>>
  BY <1>1 DEF Read
<1>3. /\ WellFormed(env') /\ loads' \in {1, 2} /\ step \in {"status", "card"}
      /\ loads' = 1 /\ summary # None =>
           /\ running = None
           /\ Confirmable(summary) /\ env' = Loaded(Nothing, Rendered(summary))
      /\ launch = "configured" => env' = env
  BY <1>1, ReadLoads
<1>4. running'.password \in Passwords \cup {"other"}
  BY <1>1, <1>3, ConfigIsDraft
<1>5. summary # None => summary.password \in Passwords \cup {"other"}
  BY DEF IInv, TypeOK, Settings
<1>6. step' \in {"status", "card", "summary"} /\ (summary = None => step' = step)
  BY <1>1, <1>3
<1>7. TypeOK'
  <2>1. card' \in Passwords \cup {"other", None}
    BY <1>1, <1>4, <1>5 DEF IInv, TypeOK
  <2>2. step' \in Steps /\ loads' \in 0..2
    BY <1>3, <1>6 DEF Steps
  <2> QED BY <1>2, <2>1, <2>2 DEF IInv, TypeOK, disk, form
<1>8. FilesInv'
  BY <1>2 DEF IInv, FilesInv, disk
<1>9. ProcessInv' /\ LaunchedInv'
  BY <1>2, <1>3, <1>6 DEF IInv, ProcessInv, LaunchedInv
<1>10. ConfiguredInv'
  BY <1>1, <1>2, <1>3, <1>6 DEF IInv, ConfiguredInv, disk
<1>11. StartInv'
  <2>1. ASSUME summary # None, loads' = 1, Plain(summary) PROVE running' = Meant(summary)
    BY <1>1, <1>3, <2>1, RoundTrip
  <2> QED BY <1>2, <2>1 DEF StartInv
<1>12. PortsInv'
  BY <1>2, <1>3 DEF IInv, PortsInv, RemoteAccess, form
<1>13. ReviewInv'
  BY <1>2 DEF IInv, ReviewInv, disk, form
<1> QED BY <1>7, <1>8, <1>9, <1>10, <1>11, <1>12, <1>13 DEF IInv

(* A start that fails has read the file all the same.                      *)
LEMMA StartFailsInv ==
  ASSUME IInv, StartFails
  PROVE  IInv'
<1>1. Read /\ UNCHANGED <<step, running, card>>
  BY DEF StartFails
<1>2. task = "start" /\ task' = "none" /\ UNCHANGED <<disk, launch, path, form, summary>>
  BY <1>1 DEF Read
<1>3. /\ WellFormed(env') /\ loads' \in {1, 2} /\ step \in {"status", "card"}
      /\ loads' = 1 /\ summary # None => running = None
      /\ launch = "configured" => env' = env
  BY <1>1, ReadLoads
<1>4. TypeOK'
  <2>1. loads' \in 0..2
    BY <1>3
  <2> QED BY <1>1, <1>2, <2>1 DEF IInv, TypeOK, disk, form
<1>5. FilesInv' /\ ProcessInv' /\ LaunchedInv' /\ ConfiguredInv' /\ StartInv'
  BY <1>1, <1>2, <1>3
     DEF IInv, FilesInv, ProcessInv, LaunchedInv, ConfiguredInv, StartInv, disk
<1>6. PortsInv' /\ ReviewInv'
  BY <1>1, <1>2, <1>3 DEF IInv, PortsInv, ReviewInv, RemoteAccess, disk, form
<1> QED BY <1>4, <1>5, <1>6 DEF IInv

(* To look at the card changes nothing else.                               *)
LEMMA LookAtCardInv ==
  ASSUME IInv, LookAtCard
  PROVE  IInv'
<1>1. step \in {"status", "card"} /\ step' \in {"status", "card"}
      /\ UNCHANGED <<disk, process, form, session>>
  BY DEF LookAtCard
<1>2. TypeOK'
  BY <1>1 DEF IInv, TypeOK, Steps, disk, process, form, session
<1>3. FilesInv' /\ ProcessInv' /\ LaunchedInv' /\ ConfiguredInv' /\ StartInv'
  BY <1>1 DEF IInv, FilesInv, ProcessInv, LaunchedInv, ConfiguredInv, StartInv, disk, process, session
<1>4. PortsInv' /\ ReviewInv'
  BY <1>1 DEF IInv, PortsInv, ReviewInv, RemoteAccess, disk, process, form
<1> QED BY <1>2, <1>3, <1>4 DEF IInv

(* After the end of the process there are only files, perhaps half of one. *)
LEMMA QuitInv ==
  ASSUME IInv, Quit
  PROVE  IInv'
<1>1. Prepared \in Settings
  BY PreparedIsDraft
<1>2. InputsOf(Prepared) \in Inputs
  BY <1>1 DEF InputsOf, Inputs, Settings, PortTexts
<1>3. /\ step' = "gone" /\ launch' = "none" /\ path' = "home" /\ env' = Nothing /\ loads' = 0
      /\ draft' = Prepared /\ input' = InputsOf(Prepared) /\ generate' = TRUE
      /\ untouched' = FALSE /\ edits' = 0
      /\ task' = "none" /\ summary' = None /\ running' = None /\ card' = None
      /\ UNCHANGED launches
  BY DEF Quit
<1>4. FilesInv' /\ DOMAIN files' \subseteq Paths /\ confirmed' \in [Paths -> Settings \cup {None}]
  <2>1. CASE UNCHANGED <<files, confirmed>>
    BY <2>1 DEF IInv, FilesInv, TypeOK
  <2>2. ASSUME task = "finalize", NEW password \in NewPassword, Written(Finalized(draft, password))
        PROVE  FilesInv' /\ DOMAIN files' \subseteq Paths
               /\ confirmed' \in [Paths -> Settings \cup {None}]
    BY <2>2, WriteInv
  <2>3. CASE /\ files' = [p \in DOMAIN files \cup {"home"} |-> IF p = "home" THEN Nothing ELSE files[p]]
             /\ confirmed' = [confirmed EXCEPT !["home"] = None]
    <3>1. WellFormed(Nothing)
      BY DEF WellFormed, Nothing
    <3>2. confirmed' \in [Paths -> Settings \cup {None}] /\ confirmed'["home"] = None
          /\ \A p \in Paths \ {"home"} : confirmed'[p] = confirmed[p]
      BY <2>3 DEF IInv, TypeOK, Paths
    <3>3. DOMAIN files' \subseteq Paths
      BY <2>3 DEF IInv, TypeOK, Paths
    <3> QED BY <2>3, <3>1, <3>2, <3>3 DEF IInv, FilesInv
  <2> QED BY <2>1, <2>2, <2>3 DEF Quit
<1>5. TypeOK'
  <2>1. edits' \in 0..MaxEdits /\ loads' \in 0..2 /\ path' \in Paths /\ step' \in Steps
    BY <1>3, BoundAssumption DEF Paths, Steps
  <2>2. generate' \in BOOLEAN /\ untouched' \in BOOLEAN /\ draft' \in Settings /\ input' \in Inputs
    BY <1>1, <1>2, <1>3
  <2> QED BY <2>1, <2>2, <1>3, <1>4 DEF IInv, TypeOK
<1>6. ProcessInv' /\ LaunchedInv' /\ ConfiguredInv' /\ StartInv' /\ PortsInv' /\ ReviewInv'
  BY <1>3 DEF ProcessInv, LaunchedInv, ConfiguredInv, StartInv, PortsInv, ReviewInv, WellFormed, Nothing
<1> QED BY <1>4, <1>5, <1>6 DEF IInv

-----------------------------------------------------------------------------
(* Every step keeps the invariant.                                         *)
LEMMA NextInv == IInv /\ [Next]_vars => IInv'
<1> SUFFICES ASSUME IInv, [Next]_vars PROVE IInv'
  OBVIOUS
<1>1. CASE Next
  BY <1>1, LaunchFirstInv, LaunchSetupInv, LaunchConfiguredInv, TurnPageInv, FillInv, ConfirmInv,
     FinalizeWritesInv, FinalizeFailsInv, StartedInv, StartFailsInv, LookAtCardInv, QuitInv DEF Next
<1>2. CASE UNCHANGED vars
  <2>1. TypeOK' /\ FilesInv'
    BY <1>2 DEF vars, disk, process, form, session, IInv, TypeOK, FilesInv
  <2>2. ProcessInv' /\ LaunchedInv' /\ ConfiguredInv' /\ StartInv'
    BY <1>2 DEF vars, disk, process, form, session, IInv, ProcessInv, LaunchedInv, ConfiguredInv, StartInv
  <2>3. PortsInv' /\ ReviewInv'
    BY <1>2 DEF vars, disk, process, form, session, IInv, PortsInv, RemoteAccess, ReviewInv
  <2> QED BY <2>1, <2>2, <2>3 DEF IInv
<1> QED BY <1>1, <1>2

(* What is on disk, in the form and in the process always fits together.   *)
THEOREM Invariance == Spec => []IInv
<1>1. Init => IInv
  BY InitInv
<1>2. IInv /\ [Next]_vars => IInv'
  BY NextInv
<1> QED BY <1>1, <1>2, PTL DEF Spec

(* The types: a draft, whatever was typed, is a setting of each kind.      *)
THEOREM TypeCorrect == Spec => []TypeOK
<1>1. IInv => TypeOK
  BY DEF IInv
<1> QED BY <1>1, Invariance, PTL

(* What the wizard writes is not refused by a later load, but for one      *)
(* thing, which it does write: Docker with an isolated network on macOS.   *)
THEOREM NoLockout == Spec => []WrittenFilesLoad
<1>1. IInv => WrittenFilesLoad
  <2> SUFFICES ASSUME IInv, NEW p \in Paths, confirmed[p] # None, Plain(confirmed[p]),
                      Supported(confirmed[p])
               PROVE  Loadable(Loaded(Nothing, files[p]))
    BY DEF WrittenFilesLoad
  <2>1. Confirmable(confirmed[p]) /\ files[p] = Rendered(confirmed[p])
    BY DEF IInv, FilesInv
  <2> QED BY <2>1, RoundTrip
<1> QED BY <1>1, Invariance, PTL

(* Later runs are what was confirmed.                                      *)
THEOREM ConfirmedIsRun == Spec => []LaterRunsAreAsConfirmed
<1>1. IInv => LaterRunsAreAsConfirmed
  <2> SUFFICES ASSUME IInv, launch = "configured", running # None, confirmed[path] # None,
                      Plain(confirmed[path])
               PROVE  running = Meant(confirmed[path])
    BY DEF LaterRunsAreAsConfirmed
  <2>1. running = Config(Loaded(Nothing, files[path])) /\ path \in Paths
    BY DEF IInv, ConfiguredInv, TypeOK
  <2>2. Confirmable(confirmed[path]) /\ files[path] = Rendered(confirmed[path])
    BY <2>1 DEF IInv, FilesInv
  <2> QED BY <2>1, <2>2, RoundTrip
<1> QED BY <1>1, Invariance, PTL

(* So is the session that is started at once, if no file was read before.  *)
THEOREM FirstStartIsRun == Spec => []FirstStartIsAsConfirmed
<1>1. IInv => FirstStartIsAsConfirmed
  BY DEF IInv, StartInv, FirstStartIsAsConfirmed
<1> QED BY <1>1, Invariance, PTL

(* No way through the pages leads past a port that is wanted and not valid. *)
THEOREM PortsAreChecked == Spec => []PortsAreValidated
<1>1. IInv => PortsAreValidated
  BY DEF IInv, PortsInv, PortsAreValidated
<1> QED BY <1>1, Invariance, PTL
(* What a step may write during a review without edits.                    *)
LEMMA ReviewWrites ==
  ASSUME IInv, task = "finalize", NEW password \in NewPassword, Written(Finalized(draft, password)),
         launch = "setup", path = "home", edits = 0,
         confirmed["home"] # None, Plain(confirmed["home"])
  PROVE  Config(Loaded(Nothing, files'["home"])) = Config(Loaded(Nothing, files["home"]))
<1> DEFINE d == Finalized(draft, password)
<1>1. /\ ~generate
      /\ Meant(Finalized(draft, draft.password)) = Meant(confirmed["home"])
  BY DEF IInv, ReviewInv
<1>2. Confirmable(d) /\ password = draft.password
  BY <1>1, WriteInv
<1>3. Meant(d) = Meant(confirmed["home"])
  BY <1>1, <1>2
<1>4. Confirmable(confirmed["home"]) /\ files["home"] = Rendered(confirmed["home"])
  BY DEF IInv, FilesInv, Paths
<1>5. files'["home"] = Rendered(d)
  BY DEF Written
<1> HIDE DEF d
<1>6. d.password = confirmed["home"].password
  BY <1>3 DEF Meant
<1>7. Plain(d)
  BY <1>6 DEF Plain
<1> QED BY <1>2, <1>3, <1>4, <1>5, <1>7, RoundTrip

(* A review without edits loses nothing of what the file says.             *)
THEOREM ReviewLosesNothing == Spec => ReviewKeepsSettings
<1> DEFINE Kept ==
      (/\ launch = "setup" /\ path = "home" /\ edits = 0
       /\ confirmed["home"] # None /\ Plain(confirmed["home"])
       /\ files'["home"] # Nothing) =>
        Config(Loaded(Nothing, files'["home"])) = Config(Loaded(Nothing, files["home"]))
<1>1. IInv /\ [Next]_vars => [Kept]_files
  <2> SUFFICES ASSUME IInv, [Next]_vars, files' # files,
                      launch = "setup", path = "home", edits = 0,
                      confirmed["home"] # None, Plain(confirmed["home"]), files'["home"] # Nothing
               PROVE  Config(Loaded(Nothing, files'["home"])) = Config(Loaded(Nothing, files["home"]))
    OBVIOUS
  <2>1. FinalizeWrites \/ FinalizeFails \/ Quit
    BY FillForm, TurnPage DEF IInv, Next, vars, disk, LaunchFirst, LaunchSetup, LaunchConfigured,
       Existing, Begin, Confirm, Started, StartFails, Read, LookAtCard
  <2>2. task = "finalize" /\ \E password \in NewPassword : Written(Finalized(draft, password))
    <3>1. CASE FinalizeWrites
      BY <3>1 DEF FinalizeWrites
    <3>2. CASE FinalizeFails
      BY <3>2 DEF FinalizeFails
    <3>3. CASE Quit
      BY <3>3 DEF Quit
    <3> QED BY <2>1, <3>1, <3>2, <3>3
  <2> QED BY <2>2, ReviewWrites
<1> QED BY <1>1, Invariance, PTL DEF Spec, ReviewKeepsSettings
=============================================================================
