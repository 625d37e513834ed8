-------------------------------- MODULE Router --------------------------------
(***************************************************************************)
(* How the gateway makes one MCP server of several: the vault server (the  *)
(* core), the native transcription tool, and the plugin containers, whose  *)
(* tools and resources are listed once, under prefixed names, while the    *)
(* gateway starts, and called under the names they have at home.           *)
(*                                                                         *)
(* Names are sequences of characters, because prefixes are what can go     *)
(* wrong with them.  A URI is its authority: scheme and path go along      *)
(* unchanged.  The empty sequence is a URI without authority, or none.     *)
(***************************************************************************)
EXTENDS Naturals, FiniteSetsExt, SequencesExt

CONSTANTS
  Letters,       \* what names are made of, the underscore among them
  Configs,       \* contents of brain3.yaml: sequences of entries
  MaxPlugins,    \* bound: entries in one of them
  CoreOffers,    \* what the vault server may offer
  PluginOffers,  \* what a plugin may offer
  NativeTool,    \* name of the transcription tool
  Names,         \* names and URIs that clients ask for
  HeaderSets,    \* headers of requests
  MaxChanges     \* bound: changes to what servers offer

ASSUME BoundAssumption == MaxPlugins \in Nat \ {0} /\ MaxChanges \in Nat

(* The vault server's own tools and the native one are plain words.        *)
Plain(name) == \A i \in 1..(Len(name) - 1) : ~(name[i] = "_" /\ name[i + 1] = "_")
ASSUME OwnNamesArePlain ==
  /\ Plain(NativeTool)
  /\ \A o \in CoreOffers : \A t \in o.tools : Plain(t.name) /\ t.name # NativeTool

VARIABLES
  entries,    \* plugin_mcp_containers of brain3.yaml
  todo,       \* started plugin containers without a client yet
  fetch,      \* how far the start has got with the first of them, or the core
  late,       \* its deadline has passed
  clients,    \* RemoteMcpContainerClient of each plugin that has one
  native,     \* the transcription tool is registered
  offer,      \* what each server offers now
  up,         \* servers that answer
  changes,    \* count of changes to offer
  told,       \* what the MCP client was last told
  last        \* the last request and what became of it

start == <<entries, todo, fetch, late, clients, native>>
world == <<offer, up, changes>>
vars == <<start, world, told, last>>

-----------------------------------------------------------------------------
Core == 0
Plugins == 1..MaxPlugins
Native == MaxPlugins + 1
Gateway == MaxPlugins + 2    \* answers itself, or refuses
Servers == {Core} \cup Plugins

NoUri == <<>>

(* Names are texts; tools have names; entries are numbered in the file.    *)
ASSUME NameAssumption ==
  /\ "_" \in Letters
  /\ NativeTool \in Seq(Letters) /\ Names \subseteq Seq(Letters)
  /\ \A es \in Configs : DOMAIN es \subseteq Plugins /\ \A i \in DOMAIN es : es[i].name \in Seq(Letters)
  /\ \A o \in CoreOffers \cup PluginOffers :
       /\ \A t \in o.tools : t.name \in Seq(Letters) \ {<<>>}
       /\ o.resources \subseteq Seq(Letters)

(* An offer has tools, each with the UI resource it links to, and          *)
(* resources.                                                              *)
OfferNames(o) == {t.name : t \in o.tools}

-----------------------------------------------------------------------------
(* brain3.yaml.                                                            *)

(* Mutant of Kept: a name may be used twice.                               *)
KeptTwice(es) == {i \in DOMAIN es : es[i].valid}

(* validate_plugin_mcp_containers: an entry is kept if it is valid and no  *)
(* earlier one, valid or not, has its name.                                *)
Kept(es) ==
  {i \in DOMAIN es : es[i].valid /\ \A j \in 1..(i - 1) : es[j].name # es[i].name}

-----------------------------------------------------------------------------
(* Names with a prefix, and without.                                       *)

Separator == <<"_", "_">>
Prefix(container) == container \o Separator

(* prefix_tool_schemas, prefix_resource_uri_for_container.                 *)
Prefixed(container, name) == Prefix(container) \o name

(* strip_prefix, strip_resource_uri_prefix: the rest must not be empty.    *)
Claims(container, name) == IsStrictPrefix(Prefix(container), name)
Stripped(container, name) == SubSeq(name, Len(Prefix(container)) + 1, Len(name))

Name(p) == entries[p].name

(* Plugins are asked in the order of the file.                             *)
Claimants(name) == {p \in DOMAIN clients : Claims(Name(p), name)}

(* Mutant of Linked: links stay as the plugin wrote them.                  *)
LinkedAsWritten(container, link, uris) == link

(* rewrite_tool_resource_uri: unless resources/list did not declare it.    *)
Linked(container, link, uris) ==
  IF link \in uris THEN Prefixed(container, link) ELSE link

-----------------------------------------------------------------------------
(* Headers are pairs of a name and who set it: the client or the gateway.  *)

By(who, names) == {[name |-> n, by |-> who] : n \in names}

(* Mutant of ToCore: what a client calls the secret is passed on.          *)
ToCoreUnstripped(names) ==
  By("client", names \ {"authorization", "content-length", "host", "connection"})
    \cup By("gateway", {"x-brain3-upstream-secret"})

(* filter_request_headers, and the secret.                                 *)
ToCore(names) ==
  By("client", names \ {"authorization", "content-length", "host", "connection",
                        "x-brain3-upstream-secret"})
    \cup By("gateway", {"x-brain3-upstream-secret"})

(* forward_json: nothing of the client's request but its body.             *)
ToPlugin(p) ==
  By("gateway", {"content-type", "accept"}
                  \cup IF entries[p].token THEN {"authorization"} ELSE {})

(* filter_static_asset_request_headers.                                    *)
ToAssets(names) ==
  By("client", names \ {"authorization", "content-length", "host", "connection"})

-----------------------------------------------------------------------------
Uris == Names \cup {NoUri}
Methods == {"none", "initialize", "list", "call", "read", "other", "asset"}
Replies == {"none", "result", "error", "unavailable", "not found", "refused", "misdirected"}
Stages == {"initialize", "tools", "resources", "silent", "broken", "serving"}
NotAsked == [method |-> "none", name |-> NoUri, to |-> Gateway, as |-> NoUri,
             reply |-> "none", uri |-> NoUri, headers |-> {}]
NotTold == [tools |-> {}, resources |-> {}, capability |-> "unknown"]

TypeOK ==
  /\ entries \in Configs
  /\ todo \subseteq Kept(entries)
  /\ fetch.at \in Stages
  /\ late \in BOOLEAN
  /\ DOMAIN clients \subseteq Kept(entries) \ todo
  /\ native \in BOOLEAN
  /\ offer[Core] \in CoreOffers /\ \A p \in Plugins : offer[p] \in PluginOffers
  /\ up \subseteq Servers
  /\ changes \in 0..MaxChanges
  /\ told.capability \in {"unknown", "no", "yes"}
  /\ \A t \in told.tools \cup told.resources : t.by \in Servers \cup {Native}
  /\ last.method \in Methods /\ last.reply \in Replies
  /\ last.to \in Servers \cup {Native, Gateway}

(* A plugin whose container did not start, or whose token cannot be read,  *)
(* is not in todo.                                                         *)
Init ==
  /\ entries \in Configs
  /\ todo \in SUBSET Kept(entries)
  /\ fetch = [at |-> "initialize", tools |-> {}]
  /\ late = FALSE
  /\ clients = [p \in {} |-> NotTold]
  /\ native \in BOOLEAN
  /\ offer \in {o \in [Servers -> CoreOffers \cup PluginOffers] :
                  o[Core] \in CoreOffers /\ \A p \in Plugins : o[p] \in PluginOffers}
  /\ up = Servers
  /\ changes = 0
  /\ told = NotTold
  /\ last = NotAsked

-----------------------------------------------------------------------------
(* build_plugin_mcp_clients: one plugin after the other; and then the core *)
(* is asked for its tools, which are logged.                               *)

Current == IF todo = {} THEN Core ELSE Min(todo)
Begin == [at |-> "initialize", tools |-> {}]

Answered(at) ==
  /\ todo # {} /\ fetch.at = at /\ Current \in up
  /\ UNCHANGED <<entries, native, world, told, last>>

Initialize ==
  /\ Answered("initialize")
  /\ fetch' = [fetch EXCEPT !.at = "tools"]
  /\ UNCHANGED <<todo, late, clients>>

FetchTools ==
  /\ Answered("tools")
  /\ fetch' = [at |-> "resources", tools |-> offer[Current].tools]
  /\ UNCHANGED <<todo, late, clients>>

(* Mutant of FetchResources: the same plugin is next again.                *)
FetchResourcesAgain ==
  /\ Answered("resources")
  /\ clients' = [p \in DOMAIN clients \cup {Current} |->
                   IF p # Current THEN clients[p]
                   ELSE [tools |-> fetch.tools, resources |-> offer[Current].resources]]
  /\ fetch' = Begin /\ late' = FALSE
  /\ UNCHANGED todo

(* An error of resources/list, or no array in it, counts as no resources;  *)
(* URIs without authority are left out.                                    *)
FetchResources ==
  /\ Answered("resources")
  /\ \E seen \in {offer[Current].resources, {}} :
       LET uris == seen \ {NoUri} IN
       clients' = [p \in DOMAIN clients \cup {Current} |->
                     IF p # Current THEN clients[p]
                     ELSE [tools |-> {[name |-> t.name, link |-> Linked(Name(p), t.link, uris),
                                       was |-> IF t.link \in uris THEN t.link ELSE NoUri] :
                                        t \in fetch.tools},
                           resources |-> uris]]
  /\ todo' = todo \ {Current}
  /\ fetch' = Begin /\ late' = FALSE

(* Mutant of AttemptFails: the deadline is not looked at.                  *)
AttemptFailsAnyTime ==
  /\ todo # {} /\ fetch.at # "silent"
  /\ fetch' = Begin
  /\ UNCHANGED <<entries, todo, late, clients, native, world, told, last>>

(* Refused, cut off, or an answer that is not a success: from the start    *)
(* again.  The deadline is looked at between attempts only.                *)
AttemptFails ==
  /\ todo # {} /\ fetch.at # "silent"
  /\ fetch' = Begin
  /\ IF late THEN todo' = todo \ {Current} /\ late' = FALSE ELSE UNCHANGED <<todo, late>>
  /\ UNCHANGED <<entries, clients, native, world, told, last>>

DeadlinePasses ==
  /\ todo # {} /\ ~late
  /\ late' = TRUE
  /\ UNCHANGED <<entries, todo, fetch, clients, native, world, told, last>>

(* log_startup_tool_inventory: whatever the core answers, if it does.      *)
LogInventory ==
  /\ todo = {} /\ fetch.at \in {"initialize", "broken"}
  /\ fetch' = [fetch EXCEPT !.at = "serving"]
  /\ UNCHANGED <<entries, todo, late, clients, native, world, told, last>>

(* The one that is asked has accepted the request and never answers: the   *)
(* HTTP client has no timeout.                                             *)
FallsSilent ==
  /\ fetch.at \in {"initialize", "tools", "resources"} /\ Current \in up
  /\ fetch' = [fetch EXCEPT !.at = "silent"]
  /\ UNCHANGED <<entries, todo, late, clients, native, world, told, last>>

Connect == Initialize \/ FetchTools \/ FetchResources \/ AttemptFails \/ LogInventory

-----------------------------------------------------------------------------
(* route_request, once the gateway serves.                                 *)

Serving == fetch.at = "serving"

Asked(method, name, to, as, reply, uri, headers) ==
  last' = [method |-> method, name |-> name, to |-> to, as |-> as, reply |-> reply,
           uri |-> uri, headers |-> headers]

(* What a plugin answers to a request that it can or cannot meet; an error *)
(* of the transport becomes one of the protocol.                           *)
Answer(p, able) == IF p \notin up THEN "unavailable" ELSE IF able THEN "result" ELSE "error"

(* The core's answer is passed on as it is; if there is none, 502.         *)
CoreAnswer(able) ==
  IF Core \notin up THEN "unavailable" ELSE IF able THEN "result" ELSE "error"

(* tool_not_found_response, resource_not_found_response.                   *)
NotFound(method, name, as) == Asked(method, name, Gateway, as, "not found", NoUri, {})

Request(headers) == Serving /\ UNCHANGED <<start, world>>

(* Mutant of HasResources: only native resources count, of which there are *)
(* none.                                                                   *)
HasNativeResources == FALSE

HasResources == \E p \in DOMAIN clients : clients[p].resources # {}

(* patch_initialize_resources_capability.  An error, and a body that is    *)
(* not JSON, is passed on as it is and tells nothing.  (The one native     *)
(* tool has no on_initialize of its own that could fail.)                  *)
AskInitialize(headers) ==
  /\ Request(headers)
  /\ \E able \in BOOLEAN :
       /\ Asked("initialize", NoUri, Core, NoUri, CoreAnswer(able), NoUri, ToCore(headers))
       /\ \/ /\ Core \in up /\ able
             /\ \E own \in BOOLEAN :
                  told' = [told EXCEPT !.capability = IF own \/ HasResources THEN "yes" ELSE "no"]
          \/ ~(Core \in up /\ able) /\ UNCHANGED told

NativeTools ==
  {[name |-> NativeTool, by |-> Native, as |-> NativeTool, link |-> NoUri, was |-> NoUri] :
     registered \in {native} \ {FALSE}}

PluginTools ==
  UNION {{[name |-> Prefixed(Name(p), t.name), by |-> p, as |-> t.name,
           link |-> t.link, was |-> t.was] : t \in clients[p].tools} : p \in DOMAIN clients}

(* append_tool_schemas, append_resource_schemas.                           *)
AllTools ==
  {[name |-> t.name, by |-> Core, as |-> t.name, link |-> t.link, was |-> NoUri] :
     t \in offer[Core].tools}
  \cup NativeTools \cup PluginTools

AllResources ==
  {[name |-> u, by |-> Core, as |-> u] : u \in offer[Core].resources}
  \cup UNION {{[name |-> Prefixed(Name(p), u), by |-> p, as |-> u] : u \in clients[p].resources} :
                p \in DOMAIN clients}

(* tools/list and resources/list; to an error nothing is appended.         *)
AskList(headers) ==
  /\ Request(headers)
  /\ \E able \in BOOLEAN :
       /\ Asked("list", NoUri, Core, NoUri, CoreAnswer(able), NoUri, ToCore(headers))
       /\ \/ /\ Core \in up /\ able
             /\ \/ told' = [told EXCEPT !.tools = AllTools]
                \/ told' = [told EXCEPT !.resources = AllResources]
          \/ ~(Core \in up /\ able) /\ UNCHANGED told

Knows(p, name) == \E t \in clients[p].tools : t.name = name

(* native_tool_response: a transcription that fails is marked as an error. *)
NativeAnswers == {"result", "error"}

(* maybe_call_native_tool, maybe_call_plugin_tool, or the core.            *)
CallNative(headers) ==
  /\ Request(headers) /\ native
  /\ \E reply \in NativeAnswers : Asked("call", NativeTool, Native, NativeTool, reply, NoUri, {})
  /\ UNCHANGED told

CallTool(p, name, as) ==
  Asked("call", name, p, as, Answer(p, as \in OfferNames(offer[p])), NoUri, ToPlugin(p))

CallPlugin(name, headers) ==
  /\ Request(headers) /\ ~(native /\ name = NativeTool) /\ Claimants(name) # {}
  /\ LET p == Min(Claimants(name))
         as == Stripped(Name(p), name) IN
     IF Knows(p, as) THEN CallTool(p, name, as)
     ELSE NotFound("call", name, as)
  /\ UNCHANGED told

CallCore(name, headers) ==
  /\ Request(headers) /\ ~(native /\ name = NativeTool) /\ Claimants(name) = {}
  /\ Asked("call", name, Core, name, CoreAnswer(name \in OfferNames(offer[Core])), NoUri,
           ToCore(headers))
  /\ UNCHANGED told

(* prefix_read_resource_response_uri: the URI in the contents is prefixed  *)
(* again if it is the one that was read.                                   *)
ContentsUri(p, as, reply) == IF reply = "result" THEN Prefixed(Name(p), as) ELSE NoUri

ReadResource(p, uri, as) ==
  LET reply == Answer(p, as \in offer[p].resources) IN
  Asked("read", uri, p, as, reply, ContentsUri(p, as, reply), ToPlugin(p))

(* maybe_read_plugin_resource; there are no native resources.              *)
ReadPlugin(uri, headers) ==
  /\ Request(headers) /\ Claimants(uri) # {}
  /\ LET p == Min(Claimants(uri))
         as == Stripped(Name(p), uri) IN
     IF as \in clients[p].resources THEN ReadResource(p, uri, as)
     ELSE NotFound("read", uri, as)
  /\ UNCHANGED told

ReadCore(uri, headers) ==
  /\ Request(headers) /\ Claimants(uri) = {}
  /\ LET reply == CoreAnswer(uri \in offer[Core].resources) IN
     Asked("read", uri, Core, uri, reply, IF reply = "result" THEN uri ELSE NoUri, ToCore(headers))
  /\ UNCHANGED told

(* Notifications, streams, anything else.                                  *)
Forward(headers) ==
  /\ Request(headers)
  /\ Asked("other", NoUri, Core, NoUri, CoreAnswer(TRUE), NoUri, ToCore(headers))
  /\ UNCHANGED told

(* get_http_path.                                                          *)
GetAsset(p, headers) ==
  Asked("asset", Name(p), p, Name(p), Answer(p, TRUE), NoUri, ToAssets(headers))

(* plugin_asset_proxy, in the subtree that is served.                      *)
FetchAsset(headers) ==
  /\ Request(headers)
  /\ \E p \in DOMAIN clients : GetAsset(p, headers)
  /\ UNCHANGED told

Refuse(reply, headers) ==
  /\ Request(headers)
  /\ Asked("other", NoUri, Gateway, NoUri, reply, NoUri, {})
  /\ UNCHANGED told

(* No bearer token, or one that the listener does not take.                *)
RefuseToken(headers) == Refuse("refused", headers)

(* validate_host, when enforced; the local listener leaves it out.         *)
RefuseHost(headers) == Refuse("misdirected", headers)

(* build_router, build_local_router: what a request may turn out to be.    *)
Serve ==
  \E headers \in HeaderSets :
    \/ AskInitialize(headers) \/ AskList(headers) \/ CallNative(headers)
    \/ \E name \in Names : CallPlugin(name, headers) \/ CallCore(name, headers)
    \/ \E uri \in Names : ReadPlugin(uri, headers) \/ ReadCore(uri, headers)
    \/ Forward(headers) \/ FetchAsset(headers)
    \/ RefuseToken(headers) \/ RefuseHost(headers)

-----------------------------------------------------------------------------
(* The servers, at any time.                                               *)

Offers(s, o) == o \in (IF s = Core THEN CoreOffers ELSE PluginOffers) \ {offer[s]}

ServerChanges(s) ==
  /\ changes < MaxChanges /\ changes' = changes + 1
  /\ \E o \in CoreOffers \cup PluginOffers : Offers(s, o) /\ offer' = [offer EXCEPT ![s] = o]
  /\ UNCHANGED <<start, up, told, last>>

(* A connection to a server that stops is cut off.                         *)
ServerStops(s) ==
  /\ changes < MaxChanges /\ changes' = changes + 1
  /\ s \in up /\ up' = up \ {s}
  /\ fetch' = IF fetch.at = "silent" /\ s = Current THEN [fetch EXCEPT !.at = "broken"] ELSE fetch
  /\ UNCHANGED <<entries, todo, late, clients, native, offer, told, last>>

ServerReturns(s) ==
  /\ s \notin up /\ up' = up \cup {s}
  /\ UNCHANGED <<start, offer, changes, told, last>>

Next ==
  \/ Connect \/ FallsSilent
  \/ DeadlinePasses
  \/ Serve
  \/ \E s \in Servers : ServerChanges(s) \/ ServerStops(s) \/ ServerReturns(s)

Spec == Init /\ [][Next]_vars

(* The start goes on as long as it need not wait for an answer that never  *)
(* comes: nobody is made to answer.  The clock goes on.                    *)
FairSpec == Spec /\ WF_vars(Connect) /\ WF_vars(DeadlinePasses)

-----------------------------------------------------------------------------
(* Properties.                                                             *)

(* The design of the prefixes says that "two containers can't collide" and *)
(* that a call "can be routed back to the right container by stripping the *)
(* prefix".                                                                *)
PrefixLeadsBack ==
  last.method = "call" =>
    \A t \in told.tools : t.name = last.name => last.to = t.by /\ last.as = t.as

(* A name a plugin has listed that begins like an earlier plugin's names.  *)
Shadowed(p, name) ==
  \E q \in DOMAIN clients : q < p /\ Name(q) # Name(p) /\ Claims(Name(q), name)

(* A call of a listed tool goes where the tool was listed, under its own   *)
(* name there, for the core, the native tool and every plugin: what the    *)
(* client was told and where the router sends a call agree, unless an      *)
(* earlier plugin's prefix begins the name too.  Such a call is not found, *)
(* or goes to a plugin that has listed the very same name: never to one    *)
(* that has not.                                                           *)
RoutedBack ==
  last.method = "call" =>
    \A t \in told.tools :
      t.name = last.name =>
        \/ last.to = t.by /\ last.as = t.as
        \/ /\ t.by \in Plugins /\ Shadowed(t.by, t.name)
           /\ last.to = Gateway \/ \E u \in told.tools : u.name = last.name /\ u.by = last.to

(* The UI resource a plugin's tool links to can be read under that link:   *)
(* from the plugin, under the URI it has there, and the contents carry the *)
(* link again, unless an earlier plugin's prefix begins the link too.      *)
LinksLead ==
  last.method = "read" =>
    \A t \in told.tools :
      t.was # NoUri /\ t.link = last.name /\ ~Shadowed(t.by, t.link) =>
        /\ last.to = t.by /\ last.as = t.was
        /\ last.reply = "result" => last.uri = t.link

(* Names of which none, with the separator, begins another's.              *)
NamesApart ==
  \A p, q \in Kept(entries) :
    Name(p) # Name(q) => ~IsPrefix(Prefix(Name(p)), Prefix(Name(q)))

(* Each server is sent the gateway's credentials for it and no others, and *)
(* nothing a client sent passes for them.                                  *)
CredentialsApart ==
  /\ \A h \in last.headers :
       /\ h.name = "authorization" => h.by = "gateway" /\ last.to \in Plugins
       /\ h.name = "x-brain3-upstream-secret" /\ h.by = "gateway" => last.to = Core
  /\ last.to = Core => \A h \in last.headers : h.name = "x-brain3-upstream-secret" => h.by = "gateway"

(* A client that was told there are no resources is not shown a plugin's.  *)
CapabilityIsHonest ==
  told.capability = "no" => \A r \in told.resources : r.by = Core

(* Plugins that refuse or fail hold the gateway up, but not for ever; one  *)
(* that takes a request and never answers does, and so does the core.      *)
GatewayServes == <>Serving \/ <>[](fetch.at = "silent")
=============================================================================
