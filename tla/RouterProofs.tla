----------------------------- MODULE RouterProofs -----------------------------
(***************************************************************************)
(* What a client was told about tools and links is where the router leads  *)
(* it, for any number of plugins, wherever no earlier plugin's prefix is   *)
(* in the way.                                                             *)
(***************************************************************************)
EXTENDS Router, TLAPS, SequenceTheorems, FiniteSetTheorems

-----------------------------------------------------------------------------
(* Prefixes and least numbers.                                             *)

(* The first of the plugins in a set is one of them, and the first.        *)
LEMMA MinIsMember ==
  ASSUME NEW S \in SUBSET Nat, S # {}
  PROVE  Min(S) \in S /\ \A y \in S : Min(S) =< y
<1> DEFINE T == {0..n : n \in S}
          R == StrictSubsetOrdering(Nat)
<1>1. IsWellFoundedOn(R, FiniteSubsetsOf(Nat))
  BY FS_StrictSubsetOrderingWellFounded
<1>2. T \subseteq FiniteSubsetsOf(Nat) /\ T # {}
  <2>1. \A n \in S : IsFiniteSet(0..n) /\ 0..n \subseteq Nat
    BY FS_Interval
  <2> QED
    BY <2>1 DEF FiniteSubsetsOf
<1> HIDE DEF T, R
<1>3. PICK t \in T : \A u \in T : ~(<<u, t>> \in R)
  BY <1>1, <1>2, WFMin
<1>4. PICK x \in S : t = 0..x
  BY DEF T
<1>5. ASSUME NEW y \in S, ~(x =< y)  PROVE FALSE
  <2>1. 0..y \subseteq 0..x /\ x \in 0..x /\ x \notin 0..y /\ 0..x \subseteq Nat
    BY <1>5
  <2>2. <<0..y, 0..x>> \in R
    BY <2>1 DEF R, StrictSubsetOrdering
  <2> QED
    BY <1>3, <1>4, <2>2 DEF T
<1>6. \A y \in S : x =< y
  BY <1>5
<1> QED
  BY <1>6 DEF Min

(* A prefix is the name and two more characters.                           *)
LEMMA PrefixShape ==
  ASSUME NEW c \in Seq(Letters)
  PROVE  /\ Prefix(c) \in Seq(Letters) /\ Len(c) \in Nat /\ Len(Prefix(c)) = Len(c) + 2
         /\ Prefix(c)[Len(c) + 1] = "_" /\ Prefix(c)[Len(c) + 2] = "_"
<1>1. Separator \in Seq(Letters) /\ Len(Separator) = 2 /\ Separator[1] = "_" /\ Separator[2] = "_"
  <2>1. "_" \in Letters
    BY NameAssumption
  <2>2. \A x \in Letters : <<x, x>> \in Seq(Letters)
    OBVIOUS
  <2>3. \A x \in Letters : Len(<<x, x>>) = 2 /\ <<x, x>>[1] = x /\ <<x, x>>[2] = x
    OBVIOUS
  <2> QED
    BY <2>1, <2>2, <2>3 DEF Separator
<1>2. Len(c) \in Nat
  OBVIOUS
<1>3. /\ c \o Separator \in Seq(Letters)
      /\ Len(c \o Separator) = Len(c) + 2
      /\ \A i \in 1..(Len(c) + 2) :
           (c \o Separator)[i] = IF i <= Len(c) THEN c[i] ELSE Separator[i - Len(c)]
  <2>1. /\ Len(c \o Separator) = Len(c) + Len(Separator)
        /\ \A i \in 1..(Len(c) + Len(Separator)) :
             (c \o Separator)[i] = IF i <= Len(c) THEN c[i] ELSE Separator[i - Len(c)]
        /\ c \o Separator \in Seq(Letters)
    BY <1>1, ConcatProperties
  <2> QED
    BY <1>1, <2>1
<1>4. /\ (c \o Separator)[Len(c) + 1] = Separator[1]
      /\ (c \o Separator)[Len(c) + 2] = Separator[2]
  <2>1. Len(c) + 1 \in 1..(Len(c) + 2) /\ Len(c) + 2 \in 1..(Len(c) + 2)
        /\ ~(Len(c) + 1 <= Len(c)) /\ ~(Len(c) + 2 <= Len(c))
        /\ Len(c) + 1 - Len(c) = 1 /\ Len(c) + 2 - Len(c) = 2
    BY <1>2
  <2> QED
    BY <1>3, <2>1
<1> QED
  BY <1>1, <1>2, <1>3, <1>4 DEF Prefix

(* Stripping undoes prefixing, and the prefixed name is claimed.           *)
LEMMA StripPrefixed ==
  ASSUME NEW c \in Seq(Letters), NEW n \in Seq(Letters)
  PROVE  /\ Prefixed(c, n) \in Seq(Letters)
         /\ n # <<>> => Claims(c, Prefixed(c, n))
         /\ n # <<>> => Stripped(c, Prefixed(c, n)) = n
<1> DEFINE p == Prefix(c)
<1>1. p \in Seq(Letters) /\ n \in Seq(Letters) /\ Len(p) \in Nat /\ Len(n) \in Nat /\ Len(p) > 0
  <2>1. Prefix(c) \in Seq(Letters) /\ Len(c) \in Nat /\ Len(Prefix(c)) = Len(c) + 2 /\ Len(n) \in Nat
    BY PrefixShape
  <2> QED
    BY <2>1
<1> HIDE DEF p
<1>2. /\ p \o n \in Seq(Letters)
      /\ Len(p \o n) = Len(p) + Len(n)
      /\ \A i \in 1..(Len(p) + Len(n)) : (p \o n)[i] = IF i <= Len(p) THEN p[i] ELSE n[i - Len(p)]
  BY <1>1, ConcatProperties
<1>3. ASSUME n # <<>>  PROVE IsStrictPrefix(p, p \o n) /\ SubSeq(p \o n, Len(p) + 1, Len(p \o n)) = n
  <2>1. Len(n) > 0
    BY <1>1, <1>3, EmptySeq
  <2>2. SubSeq(p \o n, 1, Len(p)) = SubSeq(p, 1, Len(p))
    BY <1>1, SubSeqOfConcat1
  <2>3. p # p \o n
    BY <1>1, <1>2, <2>1
  <2>4. SubSeq(p \o n, Len(p) + 1, Len(p) + Len(n)) = SubSeq(n, 1, Len(n))
    <3>1. Len(p) + 1 \in Len(p) + 1 .. Len(p) + Len(n) /\ Len(p) + Len(n) \in Len(p) + 1 .. Len(p) + Len(n)
      BY <1>1, <2>1
    <3>2. Len(p) + 1 - Len(p) = 1 /\ Len(p) + Len(n) - Len(p) = Len(n)
      BY <1>1
    <3> QED
      BY <1>1, <3>1, <3>2, SubSeqOfConcat2
  <2>5. SubSeq(n, 1, Len(n)) = n
    BY <1>1, SubSeqFull
  <2> QED
    BY <1>1, <1>2, <2>2, <2>3, <2>4, <2>5 DEF IsStrictPrefix, IsPrefix
<1> QED
  BY <1>2, <1>3 DEF Prefixed, Claims, Stripped, p

(* A name begins with what claims it.                                      *)
LEMMA ClaimedBegins ==
  ASSUME NEW c \in Seq(Letters), NEW name \in Seq(Letters), Claims(c, name)
  PROVE  /\ Len(Prefix(c)) <= Len(name)
         /\ \A i \in 1..Len(Prefix(c)) : name[i] = Prefix(c)[i]
<1> DEFINE p == Prefix(c)
<1>1. p \in Seq(Letters) /\ name \in Seq(Letters) /\ Len(p) \in Nat /\ Len(name) \in Nat
  BY PrefixShape
<1>2. Len(p) <= Len(name) /\ SubSeq(p, 1, Len(p)) = SubSeq(name, 1, Len(p))
  BY DEF Claims, IsStrictPrefix, IsPrefix
<1> HIDE DEF p
<1>3. SubSeq(p, 1, Len(p)) = p
  BY <1>1, SubSeqFull
<1>4. \A i \in 1..Len(p) : SubSeq(name, 1, Len(p))[i] = name[i]
  BY <1>1, <1>2
<1> QED
  BY <1>2, <1>3, <1>4 DEF p

(* Plain names are claimed by nobody.                                      *)
LEMMA ClaimedIsNotPlain ==
  ASSUME NEW c \in Seq(Letters), NEW name \in Seq(Letters), Claims(c, name)
  PROVE  ~Plain(name)
<1>1. /\ Len(c) \in Nat /\ Len(name) \in Nat
      /\ Len(Prefix(c)) = Len(c) + 2 /\ Len(Prefix(c)) <= Len(name)
      /\ Prefix(c)[Len(c) + 1] = "_" /\ Prefix(c)[Len(c) + 2] = "_"
  <2>1. Len(name) \in Nat
    OBVIOUS
  <2> QED
    BY <2>1, PrefixShape, ClaimedBegins
<1>2. /\ Len(c) + 1 \in 1..Len(Prefix(c)) /\ Len(c) + 2 \in 1..Len(Prefix(c))
      /\ Len(c) + 1 \in 1..(Len(name) - 1) /\ Len(c) + 1 + 1 = Len(c) + 2
  <2>1. \A k, l, n \in Nat : l = k + 2 /\ l <= n =>
          k + 1 \in 1..l /\ k + 2 \in 1..l /\ k + 1 \in 1..(n - 1) /\ k + 1 + 1 = k + 2
    OBVIOUS
  <2>2. Len(Prefix(c)) \in Nat
    <3>1. Prefix(c) \in Seq(Letters)
      BY PrefixShape
    <3> QED
      BY <3>1
  <2> QED
    BY <1>1, <2>1, <2>2
<1>3. name[Len(c) + 1] = "_" /\ name[Len(c) + 2] = "_"
  BY <1>1, <1>2, ClaimedBegins
<1> QED
  BY <1>2, <1>3 DEF Plain

(* Of two prefixes that claim one name, one begins the other.              *)
LEMMA ClaimsCompare ==
  ASSUME NEW c \in Seq(Letters), NEW d \in Seq(Letters), NEW name \in Seq(Letters),
         Claims(c, name), Claims(d, name), Len(Prefix(c)) <= Len(Prefix(d))
  PROVE  IsPrefix(Prefix(c), Prefix(d))
<1> DEFINE p == Prefix(c)  q == Prefix(d)
<1>1. p \in Seq(Letters) /\ q \in Seq(Letters) /\ Len(p) \in Nat /\ Len(q) \in Nat /\ Len(p) <= Len(q)
  BY PrefixShape
<1>2. \A i \in 1..Len(p) : p[i] = q[i]
  BY <1>1, ClaimedBegins
<1> HIDE DEF p, q
<1>3. SubSeq(p, 1, Len(p)) = p
  BY <1>1, SubSeqFull
<1>4. /\ SubSeq(q, 1, Len(p)) \in Seq(Letters)
      /\ Len(SubSeq(q, 1, Len(p))) = Len(p)
      /\ \A i \in 1..Len(p) : SubSeq(q, 1, Len(p))[i] = q[i]
  BY <1>1
<1>5. SubSeq(q, 1, Len(p)) = p
  BY <1>1, <1>2, <1>4, SeqEqual
<1> QED
  BY <1>1, <1>3, <1>5 DEF IsPrefix, p, q

-----------------------------------------------------------------------------
(* The inductive invariant.                                                *)

(* Records have their fields, and offers are offers.                       *)
ShapeInv ==
  /\ fetch = [at |-> fetch.at, tools |-> fetch.tools]
  /\ told = [tools |-> told.tools, resources |-> told.resources, capability |-> told.capability]
  /\ offer \in [Servers -> CoreOffers \cup PluginOffers]

(* What a client of a plugin has listed: tools with names, resources with  *)
(* authorities, and for a link that was rewritten what it was.             *)
ToolsNamed(tools) == \A t \in tools : t.name \in Seq(Letters) \ {<<>>}
ListedInv ==
  /\ ToolsNamed(fetch.tools)
  /\ \A p \in DOMAIN clients :
       /\ ToolsNamed(clients[p].tools)
       /\ clients[p].resources \subseteq Seq(Letters) \ {NoUri}
       /\ \A t \in clients[p].tools :
            t.was # NoUri => t.was \in clients[p].resources /\ t.link = Prefixed(Name(p), t.was)

(* Where a tool that was told of comes from.                               *)
FromCore(t) == t.by = Core /\ t.as = t.name /\ Plain(t.name) /\ t.name # NativeTool /\ t.was = NoUri
FromNative(t) == native /\ t.by = Native /\ t.as = NativeTool /\ t.name = NativeTool /\ t.was = NoUri
FromPlugin(t) ==
  /\ t.by \in DOMAIN clients
  /\ \E u \in clients[t.by].tools :
       t.as = u.name /\ t.name = Prefixed(Name(t.by), u.name) /\ t.link = u.link /\ t.was = u.was

ToldInv ==
  /\ Serving => todo = {}
  /\ ~Serving => told = NotTold
  /\ told.tools = {} \/ PluginTools \subseteq told.tools
  /\ \A t \in told.tools : FromCore(t) \/ FromNative(t) \/ FromPlugin(t)
  /\ \A r \in told.resources : r.by = Core \/ (r.by \in DOMAIN clients /\ HasResources)
  /\ told.capability = "no" => ~HasResources

IInv == TypeOK /\ ShapeInv /\ ListedInv /\ ToldInv

-----------------------------------------------------------------------------
(* What the invariant says of names.                                       *)

(* A plugin with a client is an entry of the file, and has a name.         *)
LEMMA ClientIsEntry ==
  ASSUME IInv, NEW p \in DOMAIN clients
  PROVE  p \in Kept(entries) /\ p \in DOMAIN entries /\ p \in Plugins /\ Name(p) \in Seq(Letters)
BY NameAssumption DEF IInv, TypeOK, Kept, Name

(* Of the plugins whose prefix begins a name the first one gets it.        *)
LEMMA FirstClaimant ==
  ASSUME IInv, NEW p \in DOMAIN clients, NEW name, Claims(Name(p), name), ~Shadowed(p, name)
  PROVE  Claimants(name) # {} /\ Min(Claimants(name)) = p
<1> DEFINE q == Min(Claimants(name))
<1>1. Claimants(name) \in SUBSET Nat /\ p \in Claimants(name)
  BY ClientIsEntry, BoundAssumption DEF Claimants, Plugins
<1>2. q \in Claimants(name) /\ q =< p
  BY <1>1, MinIsMember
<1> HIDE DEF q
<1>3. q \in DOMAIN clients /\ Claims(Name(q), name)
  BY <1>2 DEF Claimants
<1>4. q \in Nat /\ p \in Nat /\ 1 =< q
  BY <1>3, ClientIsEntry, BoundAssumption DEF Plugins
<1>5. ASSUME q < p  PROVE FALSE
  <2>1. q \in 1..(p - 1)
    BY <1>4, <1>5
  <2>2. Name(q) # Name(p)
    BY <2>1, ClientIsEntry DEF Kept, Name
  <2> QED
    BY <1>3, <1>5, <2>2 DEF Shadowed
<1> QED
  BY <1>1, <1>2, <1>4, <1>5 DEF q

(* If names keep apart nothing is shadowed.                                *)
LEMMA ApartIsNotShadowed ==
  ASSUME IInv, NamesApart, NEW p \in DOMAIN clients, NEW name \in Seq(Letters), Claims(Name(p), name)
  PROVE  ~Shadowed(p, name)
<1>1. ASSUME NEW q \in DOMAIN clients, Claims(Name(q), name)  PROVE Name(q) = Name(p)
  <2>1. /\ p \in Kept(entries) /\ Name(p) \in Seq(Letters)
        /\ q \in Kept(entries) /\ Name(q) \in Seq(Letters)
    BY <1>1, ClientIsEntry
  <2>2. Len(Prefix(Name(p))) \in Nat /\ Len(Prefix(Name(q))) \in Nat
    <3>1. Prefix(Name(p)) \in Seq(Letters) /\ Prefix(Name(q)) \in Seq(Letters)
      BY <2>1, PrefixShape
    <3> QED
      BY <3>1
  <2>3. Len(Prefix(Name(p))) <= Len(Prefix(Name(q))) \/ Len(Prefix(Name(q))) <= Len(Prefix(Name(p)))
    BY <2>2
  <2>4. IsPrefix(Prefix(Name(p)), Prefix(Name(q))) \/ IsPrefix(Prefix(Name(q)), Prefix(Name(p)))
    BY <1>1, <2>1, <2>3, ClaimsCompare
  <2> QED
    BY <2>1, <2>4 DEF NamesApart
<1> QED
  BY <1>1 DEF Shadowed

(* Whoever claims a name is a plugin with a client.                        *)
LEMMA ClaimantIsClient ==
  ASSUME IInv, NEW name, Claimants(name) # {}
  PROVE  /\ Min(Claimants(name)) \in DOMAIN clients /\ Min(Claimants(name)) \in Plugins
         /\ Claims(Name(Min(Claimants(name))), name)
<1>1. Claimants(name) \in SUBSET Nat
  BY ClientIsEntry, BoundAssumption DEF Claimants, Plugins
<1>2. Min(Claimants(name)) \in Claimants(name)
  BY <1>1, MinIsMember
<1> QED
  BY <1>2, ClientIsEntry DEF Claimants

(* The plugin that is asked is one of those that are left.                 *)
LEMMA CurrentIsLeft ==
  ASSUME IInv, todo # {}
  PROVE  Current \in todo /\ Current \in Kept(entries) /\ Current \in Plugins /\ Name(Current) \in Seq(Letters)
<1>1. todo \subseteq Kept(entries) /\ todo \subseteq Plugins /\ entries \in Configs
  BY NameAssumption DEF IInv, TypeOK, Kept
<1>2. todo \in SUBSET Nat
  BY <1>1, BoundAssumption DEF Plugins
<1>3. Current \in todo
  BY <1>2, MinIsMember DEF Current
<1> QED
  BY <1>1, <1>3, NameAssumption DEF Kept, Name

-----------------------------------------------------------------------------
(* The gateway starts with the invariant.                                  *)
LEMMA InitInv == Init => IInv
<1> SUFFICES ASSUME Init  PROVE IInv
  OBVIOUS
<1> USE DEF Init
<1>1. Core \in Servers /\ Plugins \subseteq Servers /\ DOMAIN clients = {}
  BY DEF Servers
<1>2. TypeOK
  <2>1. entries \in Configs /\ todo \subseteq Kept(entries) /\ DOMAIN clients \subseteq Kept(entries) \ todo
    BY <1>1
  <2>2. fetch.at \in Stages /\ told.capability \in {"unknown", "no", "yes"}
    BY DEF NotTold, Stages
  <2>3. late \in BOOLEAN /\ native \in BOOLEAN
    OBVIOUS
  <2>4. offer[Core] \in CoreOffers /\ (\A p \in Plugins : offer[p] \in PluginOffers) /\ up \subseteq Servers
    OBVIOUS
  <2>5. changes \in 0..MaxChanges
    BY BoundAssumption
  <2>6. \A t \in told.tools \cup told.resources : t.by \in Servers \cup {Native}
    BY DEF NotTold
  <2>7. last.method \in Methods /\ last.reply \in Replies /\ last.to \in Servers \cup {Native, Gateway}
    BY DEF NotAsked, Methods, Replies
  <2> QED
    BY <2>1, <2>2, <2>3, <2>4, <2>5, <2>6, <2>7 DEF TypeOK
<1>3. ShapeInv
  BY DEF ShapeInv, NotTold
<1>4. ListedInv
  BY <1>1 DEF ListedInv, ToolsNamed
<1>5. ToldInv
  BY DEF ToldInv, NotTold, Serving
<1> QED
  BY <1>2, <1>3, <1>4, <1>5 DEF IInv

-----------------------------------------------------------------------------
(* Steps that leave the plugins' clients alone.                            *)

LastOK == last.method \in Methods /\ last.reply \in Replies /\ last.to \in Servers \cup {Native, Gateway}
WorldOK ==
  /\ offer \in [Servers -> CoreOffers \cup PluginOffers]
  /\ offer[Core] \in CoreOffers /\ \A p \in Plugins : offer[p] \in PluginOffers
  /\ up \subseteq Servers
  /\ changes \in 0..MaxChanges
ToldOK ==
  /\ told = [tools |-> told.tools, resources |-> told.resources, capability |-> told.capability]
  /\ told.capability \in {"unknown", "no", "yes"}
  /\ \A t \in told.tools \cup told.resources : t.by \in Servers \cup {Native}

(* As long as what is told is right, the rest is not touched.              *)
LEMMA StartKept ==
  ASSUME IInv, UNCHANGED start, WorldOK', LastOK', ToldOK', ToldInv'
  PROVE  IInv'
<1>1. UNCHANGED <<entries, todo, fetch, late, clients, native>>
  BY DEF start
<1>2. TypeOK'
  BY <1>1 DEF IInv, TypeOK, WorldOK, LastOK, ToldOK
<1>3. ShapeInv'
  BY <1>1 DEF IInv, ShapeInv, WorldOK, ToldOK
<1>4. ListedInv'
  BY <1>1 DEF IInv, ListedInv, ToolsNamed, Name
<1> QED
  BY <1>2, <1>3, <1>4 DEF IInv

(* Nor is anything if nothing is told.                                     *)
LEMMA NothingTold ==
  ASSUME IInv, UNCHANGED <<start, told>>, WorldOK', LastOK'
  PROVE  IInv'
<1>1. UNCHANGED <<entries, todo, fetch, late, clients, native, told>>
  BY DEF start
<1>2. ToldInv'
  BY <1>1 DEF IInv, ToldInv, FromCore, FromNative, FromPlugin, HasResources, Name,
         Serving, PluginTools
<1>3. ToldOK'
  BY <1>1 DEF IInv, TypeOK, ShapeInv, ToldOK
<1> QED
  BY <1>2, <1>3, StartKept

(* The parts of the invariant again.                                       *)
LEMMA Parts == IInv => WorldOK /\ LastOK /\ ToldOK
BY DEF IInv, TypeOK, ShapeInv, WorldOK, LastOK, ToldOK

(* A request that tells nothing.                                           *)
LEMMA RequestInv ==
  ASSUME IInv, NEW headers, Request(headers), UNCHANGED told, LastOK'
  PROVE  IInv'
<1>1. UNCHANGED start /\ UNCHANGED <<offer, up, changes>>
  BY DEF Request, world
<1>2. WorldOK'
  BY <1>1, Parts DEF WorldOK
<1> QED
  BY <1>1, <1>2, NothingTold

(* Every answer is one.                                                    *)
LEMMA AnswersAreReplies ==
  ASSUME NEW p, NEW able \in BOOLEAN
  PROVE  Answer(p, able) \in Replies /\ CoreAnswer(able) \in Replies
BY DEF Answer, CoreAnswer, Replies

(* Who was asked, and how, has its type.                                   *)
LEMMA AskedOK ==
  ASSUME NEW method \in Methods, NEW name, NEW to \in Servers \cup {Native, Gateway}, NEW as,
         NEW reply \in Replies, NEW uri, NEW headers, Asked(method, name, to, as, reply, uri, headers)
  PROVE  LastOK'
BY DEF Asked, LastOK

(* Calls, reads and everything that is only passed on.                     *)
LEMMA PassedOnInv ==
  ASSUME IInv, NEW headers, NEW name,
         \/ CallNative(headers) \/ CallPlugin(name, headers) \/ CallCore(name, headers)
         \/ ReadPlugin(name, headers) \/ ReadCore(name, headers)
         \/ Forward(headers) \/ FetchAsset(headers) \/ RefuseToken(headers) \/ RefuseHost(headers)
  PROVE  IInv'
<1> USE AnswersAreReplies
<1>0. /\ Core \in Servers \cup {Native, Gateway} /\ Native \in Servers \cup {Native, Gateway}
      /\ Gateway \in Servers \cup {Native, Gateway} /\ Plugins \subseteq Servers \cup {Native, Gateway}
      /\ {"call", "read", "other", "asset"} \subseteq Methods
      /\ {"result", "error", "not found", "refused", "misdirected"} \subseteq Replies
  BY DEF Servers, Methods, Replies
<1>1. Request(headers) /\ UNCHANGED told
  BY DEF CallNative, CallPlugin, CallCore, ReadPlugin, ReadCore, Forward, FetchAsset, RefuseToken,
         RefuseHost, Refuse
<1>2. LastOK'
  <2>1. CASE CallNative(headers)
    BY <1>0, <2>1, AskedOK DEF CallNative, NativeAnswers
  <2>2. CASE CallPlugin(name, headers)
    <3> DEFINE p == Min(Claimants(name))
               as == Stripped(Name(p), name)
               able == as \in OfferNames(offer[p])
    <3>1. p \in Servers \cup {Native, Gateway} /\ able \in BOOLEAN
      <4>1. Claimants(name) # {}
        BY <2>2 DEF CallPlugin
      <4>2. p \in Plugins
        BY <4>1, ClaimantIsClient
      <4>3. able \in BOOLEAN
        OBVIOUS
      <4> HIDE DEF p, able
      <4> QED
        BY <1>0, <4>2, <4>3
    <3>2. \/ Asked("call", name, p, as, Answer(p, able), NoUri, ToPlugin(p))
          \/ Asked("call", name, Gateway, as, "not found", NoUri, {})
      BY <2>2 DEF CallPlugin, CallTool, NotFound
    <3> HIDE DEF p, as, able
    <3>3. Answer(p, able) \in Replies
      BY <3>1
    <3> QED
      BY <1>0, <3>1, <3>2, <3>3, AskedOK
  <2>3. CASE CallCore(name, headers)
    <3> DEFINE able == name \in OfferNames(offer[Core])
    <3>1. Asked("call", name, Core, name, CoreAnswer(able), NoUri, ToCore(headers)) /\ able \in BOOLEAN
      BY <2>3 DEF CallCore
    <3> HIDE DEF able
    <3>2. CoreAnswer(able) \in Replies
      BY <3>1
    <3> QED
      BY <1>0, <3>1, <3>2 DEF Asked, LastOK
  <2>4. CASE ReadPlugin(name, headers)
    <3> DEFINE p == Min(Claimants(name))
               as == Stripped(Name(p), name)
               able == as \in offer[p].resources
               reply == Answer(p, able)
    <3>1. p \in Servers \cup {Native, Gateway} /\ able \in BOOLEAN
      <4>1. Claimants(name) # {}
        BY <2>4 DEF ReadPlugin
      <4>2. p \in Plugins
        BY <4>1, ClaimantIsClient
      <4>3. able \in BOOLEAN
        OBVIOUS
      <4> HIDE DEF p, able
      <4> QED
        BY <1>0, <4>2, <4>3
    <3>2. \/ Asked("read", name, p, as, reply, ContentsUri(p, as, reply), ToPlugin(p))
          \/ Asked("read", name, Gateway, as, "not found", NoUri, {})
      BY <2>4 DEF ReadPlugin, ReadResource, NotFound
    <3>3. reply \in Replies
      <4> HIDE DEF p, able
      <4> QED
        BY <3>1
    <3> HIDE DEF p, as, reply
    <3> QED
      BY <1>0, <3>1, <3>2, <3>3, AskedOK
  <2>5. CASE ReadCore(name, headers)
    <3> DEFINE able == name \in offer[Core].resources
               reply == CoreAnswer(able)
               uri == IF reply = "result" THEN name ELSE NoUri
    <3>1. Asked("read", name, Core, name, reply, uri, ToCore(headers)) /\ able \in BOOLEAN
      BY <2>5 DEF ReadCore
    <3>2. reply \in Replies
      <4> HIDE DEF able
      <4> QED
        BY <3>1
    <3> HIDE DEF reply, uri
    <3> QED
      BY <1>0, <3>1, <3>2 DEF Asked, LastOK
  <2>6. CASE Forward(headers)
    BY <1>0, <2>6, AskedOK DEF Forward
  <2>7. CASE FetchAsset(headers)
    BY <1>0, <2>7, AskedOK, ClientIsEntry DEF FetchAsset, GetAsset
  <2>8. CASE RefuseToken(headers) \/ RefuseHost(headers)
    BY <1>0, <2>8, AskedOK DEF RefuseToken, RefuseHost, Refuse
  <2> QED
    BY <2>1, <2>2, <2>3, <2>4, <2>5, <2>6, <2>7, <2>8
<1> QED
  BY <1>1, <1>2, RequestInv

(* initialize: no resources are promised to be none only if there are none. *)
LEMMA InitializeInv ==
  ASSUME IInv, NEW headers, AskInitialize(headers)
  PROVE  IInv'
<1>1. Request(headers)
  BY DEF AskInitialize
<1>0. PICK able \in BOOLEAN :
        Asked("initialize", NoUri, Core, NoUri, CoreAnswer(able), NoUri, ToCore(headers))
  BY DEF AskInitialize
<1>2. \/ told' = told
      \/ told' = [told EXCEPT !.capability = "yes"]
      \/ told' = [told EXCEPT !.capability = "no"] /\ ~HasResources
  BY DEF AskInitialize
<1>3. UNCHANGED start /\ UNCHANGED <<entries, todo, fetch, late, clients, native, offer, up, changes>> /\ Serving
  BY <1>1 DEF Request, start, world
<1>4. /\ told = [tools |-> told.tools, resources |-> told.resources, capability |-> told.capability]
      /\ told.capability \in {"unknown", "no", "yes"}
  BY Parts DEF ToldOK
<1>5. /\ told' = [tools |-> told.tools, resources |-> told.resources, capability |-> told'.capability]
      /\ told'.tools = told.tools /\ told'.resources = told.resources
      /\ told'.capability \in {"unknown", "no", "yes"}
      /\ told'.capability = "no" => told.capability = "no" \/ ~HasResources
  BY <1>2, <1>4
<1>6. WorldOK'
  BY <1>3, Parts DEF WorldOK
<1>7. LastOK'
  <2>1. CoreAnswer(able) \in Replies /\ "initialize" \in Methods /\ Core \in Servers
    BY AnswersAreReplies DEF Methods, Servers
  <2> QED
    BY <1>0, <2>1 DEF Asked, LastOK
<1>8. ToldOK'
  BY <1>5, Parts DEF ToldOK
<1>9. ToldInv'
  BY <1>3, <1>5 DEF IInv, ToldInv, FromCore, FromNative, FromPlugin, HasResources, Name,
                    Serving, PluginTools
<1> QED
  BY <1>3, <1>6, <1>7, <1>8, <1>9, StartKept

(* The tools of a list come from where it says.                            *)
LEMMA ToolsHaveOrigin ==
  ASSUME IInv, NEW t \in AllTools
  PROVE  t.by \in Servers \cup {Native} /\ (FromCore(t) \/ FromNative(t) \/ FromPlugin(t))
<1>1. CASE \E u \in offer[Core].tools :
             t = [name |-> u.name, by |-> Core, as |-> u.name, link |-> u.link, was |-> NoUri]
  <2>1. PICK u \in offer[Core].tools :
          t = [name |-> u.name, by |-> Core, as |-> u.name, link |-> u.link, was |-> NoUri]
    BY <1>1
  <2>2. Plain(u.name) /\ u.name # NativeTool
    BY OwnNamesArePlain DEF IInv, TypeOK
  <2> QED
    BY <2>1, <2>2 DEF FromCore, Servers
<1>2. CASE t \in NativeTools
  <2>1. PICK registered \in {native} \ {FALSE} :
          t = [name |-> NativeTool, by |-> Native, as |-> NativeTool, link |-> NoUri, was |-> NoUri]
    BY <1>2 DEF NativeTools
  <2>2. native
    BY <2>1 DEF IInv, TypeOK
  <2> QED
    BY <2>1, <2>2 DEF FromNative
<1>3. CASE \E p \in DOMAIN clients : \E u \in clients[p].tools :
             t = [name |-> Prefixed(Name(p), u.name), by |-> p, as |-> u.name,
                  link |-> u.link, was |-> u.was]
  BY <1>3, ClientIsEntry DEF FromPlugin, Servers
<1> QED
  BY <1>1, <1>2, <1>3 DEF AllTools, PluginTools

(* So do its resources.                                                    *)
LEMMA ResourcesHaveOrigin ==
  ASSUME IInv, NEW r \in AllResources
  PROVE  r.by \in Servers /\ (r.by = Core \/ (r.by \in DOMAIN clients /\ HasResources))
<1>1. CASE \E u \in offer[Core].resources : r = [name |-> u, by |-> Core, as |-> u]
  BY <1>1 DEF Servers
<1>2. CASE \E p \in DOMAIN clients : \E u \in clients[p].resources :
             r = [name |-> Prefixed(Name(p), u), by |-> p, as |-> u]
  BY <1>2, ClientIsEntry DEF HasResources, Servers
<1> QED
  BY <1>1, <1>2 DEF AllResources

(* tools/list, resources/list.                                             *)
LEMMA ListInv ==
  ASSUME IInv, NEW headers, AskList(headers)
  PROVE  IInv'
<1>1. Request(headers)
  BY DEF AskList
<1>0. PICK able \in BOOLEAN :
        Asked("list", NoUri, Core, NoUri, CoreAnswer(able), NoUri, ToCore(headers))
  BY DEF AskList
<1>2. \/ told' = told
      \/ told' = [told EXCEPT !.tools = AllTools]
      \/ told' = [told EXCEPT !.resources = AllResources]
  BY DEF AskList
<1>3. UNCHANGED start /\ UNCHANGED <<entries, todo, fetch, late, clients, native, offer, up, changes>> /\ Serving
  BY <1>1 DEF Request, start, world
<1>4. told = [tools |-> told.tools, resources |-> told.resources, capability |-> told.capability]
  BY Parts DEF ToldOK
<1>5. /\ told' = [tools |-> told'.tools, resources |-> told'.resources, capability |-> told.capability]
      /\ told'.capability = told.capability
      /\ told'.tools = told.tools \/ told'.tools = AllTools
      /\ told'.resources = told.resources \/ told'.resources = AllResources
  BY <1>2, <1>4
<1>6. WorldOK'
  BY <1>3, Parts DEF WorldOK
<1>7. LastOK'
  <2>1. CoreAnswer(able) \in Replies /\ "list" \in Methods /\ Core \in Servers
    BY AnswersAreReplies DEF Methods, Servers
  <2> QED
    BY <1>0, <2>1 DEF Asked, LastOK
<1>8. /\ \A t \in told'.tools : t.by \in Servers \cup {Native} /\ (FromCore(t) \/ FromNative(t) \/ FromPlugin(t))
      /\ \A r \in told'.resources : r.by \in Servers \cup {Native} /\ (r.by = Core \/ (r.by \in DOMAIN clients /\ HasResources))
  BY <1>5, ToolsHaveOrigin, ResourcesHaveOrigin DEF IInv, TypeOK, ToldInv
<1>9. ToldOK'
  BY <1>5, <1>8, Parts DEF ToldOK
<1>11. told'.tools = {} \/ PluginTools \subseteq told'.tools
  BY <1>5 DEF IInv, ToldInv, AllTools
<1>10. ToldInv'
  BY <1>3, <1>5, <1>8, <1>11 DEF IInv, ToldInv, FromCore, FromNative, FromPlugin, HasResources, Name,
                                 Serving, PluginTools
<1> QED
  BY <1>3, <1>6, <1>7, <1>9, <1>10, StartKept

-----------------------------------------------------------------------------
(* Steps of the start, and of the servers.                                 *)

(* While the gateway starts nothing has been told.                         *)
LEMMA StillNothingTold ==
  ASSUME IInv, ~Serving, UNCHANGED told, Serving' => todo' = {}
  PROVE  ToldInv'
BY DEF IInv, ToldInv, NotTold

(* The start goes on or begins anew, for this plugin or the next.          *)
LEMMA AttemptInv ==
  ASSUME IInv, ~Serving, UNCHANGED <<entries, clients, native, told>>, WorldOK', LastOK',
         late' \in BOOLEAN, todo' \subseteq todo,
         fetch' = [at |-> fetch'.at, tools |-> fetch'.tools],
         fetch'.at \in Stages, fetch'.at = "serving" => todo' = {}, ToolsNamed(fetch'.tools)
  PROVE  IInv'
<1>2. TypeOK'
  BY DEF IInv, TypeOK, Kept, WorldOK, LastOK
<1>3. ShapeInv'
  BY DEF IInv, ShapeInv, WorldOK
<1>4. ListedInv'
  BY DEF IInv, ListedInv, ToolsNamed, Name
<1> QED
  BY <1>2, <1>3, <1>4, StillNothingTold DEF IInv, Serving

(* Only the stage is another one.                                          *)
LEMMA StageInv ==
  ASSUME IInv, ~Serving, UNCHANGED <<entries, todo, late, clients, native, told>>, WorldOK', LastOK',
         NEW stage \in Stages, fetch' = [fetch EXCEPT !.at = stage], stage = "serving" => todo = {}
  PROVE  IInv'
<1>1. fetch' = [at |-> stage, tools |-> fetch.tools]
  BY DEF IInv, ShapeInv
<1>2. late' \in BOOLEAN /\ todo' \subseteq todo /\ ToolsNamed(fetch.tools)
  BY DEF IInv, TypeOK, ListedInv
<1>3. fetch'.at = stage /\ fetch'.tools = fetch.tools
  BY <1>1
<1> QED
  BY <1>1, <1>2, <1>3, AttemptInv

(* initialize_and_cache_tools, and the loop around it.                     *)
LEMMA ConnectInv ==
  ASSUME IInv, Connect \/ FallsSilent \/ DeadlinePasses
  PROVE  IInv'
<1>0. UNCHANGED <<world, last>> => WorldOK' /\ LastOK'
  BY Parts DEF world, WorldOK, LastOK
<1>7. {"initialize", "tools", "resources", "silent", "broken", "serving"} = Stages
  BY DEF Stages
<1>1. CASE Initialize \/ LogInventory \/ FallsSilent
  <2>1. ~Serving /\ UNCHANGED <<entries, todo, late, clients, native, world, told, last>>
    BY <1>1 DEF Initialize, Answered, LogInventory, FallsSilent, Serving
  <2>2. \E stage \in Stages :
          fetch' = [fetch EXCEPT !.at = stage] /\ (stage = "serving" => todo = {})
    BY <1>1, <1>7 DEF Initialize, LogInventory, FallsSilent
  <2> QED
    BY <1>0, <2>1, <2>2, StageInv
<1>2. CASE FetchTools
  <2>1. /\ todo # {} /\ ~Serving
        /\ UNCHANGED <<entries, todo, late, clients, native, world, told, last>>
        /\ fetch' = [at |-> "resources", tools |-> offer[Current].tools]
    BY <1>2 DEF FetchTools, Answered, Serving
  <2>2. offer[Current] \in PluginOffers
    BY <2>1, CurrentIsLeft DEF IInv, TypeOK
  <2>3. ToolsNamed(offer[Current].tools)
    BY <2>2, NameAssumption DEF ToolsNamed
  <2>4. late' \in BOOLEAN /\ todo' \subseteq todo
    BY <2>1 DEF IInv, TypeOK
  <2>5. fetch'.at = "resources" /\ fetch'.tools = offer[Current].tools
    BY <2>1
  <2> QED
    BY <1>0, <1>7, <2>1, <2>3, <2>4, <2>5, AttemptInv
<1>3. CASE FetchResources
  <2>1. /\ todo # {} /\ ~Serving /\ UNCHANGED <<entries, native, offer, up, changes, told, last>>
        /\ todo' = todo \ {Current} /\ fetch' = Begin /\ late' = FALSE
    BY <1>3 DEF FetchResources, Answered, Serving, world
  <2>2. PICK seen \in {offer[Current].resources, {}} :
          clients' = [p \in DOMAIN clients \cup {Current} |->
                     IF p # Current THEN clients[p]
                     ELSE [tools |-> {[name |-> t.name, link |-> Linked(Name(p), t.link, seen \ {NoUri}),
                                       was |-> IF t.link \in seen \ {NoUri} THEN t.link ELSE NoUri] :
                                        t \in fetch.tools},
                           resources |-> seen \ {NoUri}]]
    BY <1>3 DEF FetchResources
  <2>3. Current \in todo /\ Current \in Kept(entries) /\ Current \in Plugins
    BY <2>1, CurrentIsLeft
  <2>4. offer[Current].resources \subseteq Seq(Letters)
    <3>1. offer[Current] \in PluginOffers
      BY <2>3 DEF IInv, TypeOK
    <3> QED
      BY <3>1, NameAssumption
  <2>5. DOMAIN clients' = DOMAIN clients \cup {Current}
    BY <2>2
  <2>6. TypeOK'
    BY <1>7, <2>1, <2>3, <2>5 DEF IInv, TypeOK, Begin, Kept
  <2>7. ShapeInv'
    BY <2>1 DEF IInv, ShapeInv, Begin
  <2>8. ASSUME NEW p \in DOMAIN clients'
        PROVE  /\ ToolsNamed(clients'[p].tools)
               /\ clients'[p].resources \subseteq Seq(Letters) \ {NoUri}
               /\ \A t \in clients'[p].tools :
                    t.was # NoUri => t.was \in clients'[p].resources /\ t.link = Prefixed(Name(p), t.was)
    <3>1. CASE p # Current
      <4>1. p \in DOMAIN clients /\ clients'[p] = clients[p]
        BY <2>2, <2>5, <3>1
      <4> QED
        BY <4>1 DEF IInv, ListedInv
    <3>2. CASE p = Current
      <4> DEFINE uris == seen \ {NoUri}
      <4>1. /\ clients'[p].resources = uris
            /\ clients'[p].tools = {[name |-> t.name, link |-> Linked(Name(p), t.link, uris),
                                     was |-> IF t.link \in uris THEN t.link ELSE NoUri] :
                                      t \in fetch.tools}
        BY <2>2, <2>5, <3>2
      <4>2. uris \subseteq Seq(Letters) \ {NoUri}
        BY <2>4
      <4> HIDE DEF uris
      <4>3. ToolsNamed(clients'[p].tools)
        BY <4>1 DEF IInv, ListedInv, ToolsNamed
      <4>4. \A t \in clients'[p].tools :
              t.was # NoUri => t.was \in uris /\ t.link = Prefixed(Name(p), t.was)
        BY <4>1 DEF Linked
      <4> QED
        BY <4>1, <4>2, <4>3, <4>4
    <3> QED
      BY <3>1, <3>2
  <2>9. ListedInv'
    <3>1. ToolsNamed(fetch'.tools)
      BY <2>1 DEF Begin, ToolsNamed
    <3>2. \A p : Name(p)' = Name(p)
      BY <2>1 DEF Name
    <3> QED
      BY <2>8, <3>1, <3>2 DEF ListedInv, ToolsNamed
  <2> QED
    <3>1. ~Serving'
      BY <2>1 DEF Begin, Serving
    <3> QED
      BY <2>1, <2>6, <2>7, <2>9, <3>1, StillNothingTold DEF IInv
<1>4. CASE AttemptFails
  <2>1. /\ ~Serving
        /\ UNCHANGED <<entries, clients, native, world, told, last>> /\ fetch' = Begin
    BY <1>4 DEF AttemptFails, IInv, ToldInv
  <2>2. late' \in BOOLEAN /\ todo' \subseteq todo
    BY <1>4 DEF AttemptFails, IInv, TypeOK
  <2>3. fetch'.at = "initialize" /\ fetch'.tools = {} /\ fetch' = [at |-> "initialize", tools |-> {}]
    BY <2>1 DEF Begin
  <2>4. ToolsNamed(fetch'.tools)
    BY <2>3 DEF ToolsNamed
  <2> QED
    BY <1>0, <1>7, <2>1, <2>2, <2>3, <2>4, AttemptInv
<1>5. CASE DeadlinePasses
  <2>1. /\ ~Serving /\ late' = TRUE
        /\ UNCHANGED <<entries, todo, fetch, clients, native, world, told, last>>
    BY <1>5 DEF DeadlinePasses, IInv, ToldInv
  <2>2. /\ fetch' = [at |-> fetch'.at, tools |-> fetch'.tools] /\ ToolsNamed(fetch'.tools)
        /\ fetch'.at \in Stages /\ fetch'.at # "serving"
    BY <2>1 DEF IInv, TypeOK, ShapeInv, ListedInv, Serving
  <2> QED
    BY <1>0, <2>1, <2>2, AttemptInv
<1> QED
  BY <1>1, <1>2, <1>3, <1>4, <1>5 DEF Connect

(* Servers change, stop and return.                                        *)
LEMMA ServerInv ==
  ASSUME IInv, NEW s \in Servers, ServerChanges(s) \/ ServerStops(s) \/ ServerReturns(s)
  PROVE  IInv'
<1>1. UNCHANGED <<entries, todo, late, clients, native, told>> /\ UNCHANGED last
  BY DEF ServerChanges, ServerStops, ServerReturns, start
<1>2. changes' \in 0..MaxChanges
  BY BoundAssumption DEF IInv, TypeOK, ServerChanges, ServerStops, ServerReturns
<1>3. up' \subseteq Servers
  BY DEF IInv, TypeOK, ServerChanges, ServerStops, ServerReturns
<1>4. /\ offer' \in [Servers -> CoreOffers \cup PluginOffers]
      /\ offer'[Core] \in CoreOffers /\ \A p \in Plugins : offer'[p] \in PluginOffers
  <2>1. CASE offer' = offer
    BY <2>1 DEF IInv, TypeOK, ShapeInv
  <2>2. CASE ServerChanges(s)
    <3>1. PICK o \in CoreOffers \cup PluginOffers : Offers(s, o) /\ offer' = [offer EXCEPT ![s] = o]
      BY <2>2 DEF ServerChanges
    <3>2. o \in CoreOffers \/ s # Core
      BY <3>1 DEF Offers
    <3>3. o \in PluginOffers \/ s = Core
      BY <3>1 DEF Offers
    <3>4. Core \in Servers /\ Core \notin Plugins /\ Plugins \subseteq Servers
      BY BoundAssumption DEF Core, Plugins, Servers
    <3>5. offer \in [Servers -> CoreOffers \cup PluginOffers]
      BY DEF IInv, ShapeInv
    <3>6. offer'[s] = o /\ \A q \in Servers \ {s} : offer'[q] = offer[q]
      BY <3>1, <3>5
    <3>7. offer' \in [Servers -> CoreOffers \cup PluginOffers]
      BY <3>1, <3>5
    <3>8. offer'[Core] \in CoreOffers
      BY <3>2, <3>4, <3>6 DEF IInv, TypeOK
    <3>9. \A p \in Plugins : offer'[p] \in PluginOffers
      BY <3>3, <3>4, <3>6 DEF IInv, TypeOK
    <3> QED
      BY <3>7, <3>8, <3>9
  <2> QED
    BY <2>1, <2>2 DEF ServerStops, ServerReturns
<1>5. WorldOK' /\ LastOK'
  BY <1>1, <1>2, <1>3, <1>4, Parts DEF WorldOK, LastOK
<1>6. CASE UNCHANGED fetch
  BY <1>1, <1>5, <1>6, NothingTold DEF start
<1>7. CASE ~UNCHANGED fetch
  <2>1. fetch.at = "silent" /\ fetch' = [fetch EXCEPT !.at = "broken"]
    BY <1>7 DEF ServerChanges, ServerStops, ServerReturns, start
  <2>2. ~Serving /\ "broken" \in Stages
    BY <2>1 DEF Serving, Stages
  <2> QED
    BY <1>1, <1>5, <2>1, <2>2, StageInv
<1> QED
  BY <1>6, <1>7

-----------------------------------------------------------------------------
(* Every step keeps the invariant.                                         *)
LEMMA NextInv == IInv /\ [Next]_vars => IInv'
<1> SUFFICES ASSUME IInv, [Next]_vars  PROVE IInv'
  OBVIOUS
<1>1. CASE Connect \/ FallsSilent \/ DeadlinePasses
  BY <1>1, ConnectInv
<1>2. CASE Serve
  <2>1. PICK headers \in HeaderSets :
          \/ AskInitialize(headers) \/ AskList(headers) \/ CallNative(headers)
          \/ \E name \in Names : CallPlugin(name, headers) \/ CallCore(name, headers)
          \/ \E uri \in Names : ReadPlugin(uri, headers) \/ ReadCore(uri, headers)
          \/ Forward(headers) \/ FetchAsset(headers)
          \/ RefuseToken(headers) \/ RefuseHost(headers)
    BY <1>2 DEF Serve
  <2> QED
    BY <2>1, InitializeInv, ListInv, PassedOnInv
<1>3. CASE \E s \in Servers : ServerChanges(s) \/ ServerStops(s) \/ ServerReturns(s)
  BY <1>3, ServerInv
<1>4. CASE UNCHANGED vars
  <2>1. UNCHANGED <<start, told>> /\ UNCHANGED <<offer, up, changes>> /\ UNCHANGED last
    BY <1>4 DEF vars, world
  <2>2. WorldOK' /\ LastOK'
    BY <2>1, Parts DEF WorldOK, LastOK
  <2> QED
    BY <2>1, <2>2, NothingTold
<1> QED
  BY <1>1, <1>2, <1>3, <1>4 DEF Next

(* The invariant holds for any number of plugins, whatever they offer.     *)
THEOREM Invariance == Spec => []IInv
<1>1. Init => IInv
  BY InitInv
<1>2. IInv /\ [Next]_vars => IInv'
  BY NextInv
<1> QED
  BY <1>1, <1>2, PTL DEF Spec

(* Every variable of the router keeps its type.                            *)
THEOREM TypeCorrect == Spec => []TypeOK
<1>1. IInv => TypeOK
  BY DEF IInv
<1> QED
  BY <1>1, Invariance, PTL

(* A client that was told there are no resources is shown none of a plugin. *)
THEOREM HonestCapability == Spec => []CapabilityIsHonest
<1>1. IInv => CapabilityIsHonest
  BY DEF IInv, ToldInv, CapabilityIsHonest
<1> QED
  BY <1>1, Invariance, PTL

-----------------------------------------------------------------------------
(* Where calls and reads lead.                                             *)

(* What a request leaves behind.                                           *)
LEMMA AskedSays ==
  ASSUME NEW method, NEW name, NEW to, NEW as, NEW reply, NEW uri, NEW headers,
         Asked(method, name, to, as, reply, uri, headers)
  PROVE  /\ last'.method = method /\ last'.name = name /\ last'.to = to /\ last'.as = as
         /\ last'.reply = reply /\ last'.uri = uri /\ last'.headers = headers
BY DEF Asked

(* The name a plugin's tool is listed under is claimed by that plugin, and *)
(* stripped it is the tool's own.                                          *)
LEMMA ToolIsClaimed ==
  ASSUME IInv, NEW t \in told.tools, FromPlugin(t)
  PROVE  /\ t.by \in DOMAIN clients /\ t.name \in Seq(Letters) /\ Claims(Name(t.by), t.name)
         /\ Stripped(Name(t.by), t.name) = t.as
<1>1. PICK u \in clients[t.by].tools : t.as = u.name /\ t.name = Prefixed(Name(t.by), u.name)
  BY DEF FromPlugin
<1>2. t.by \in DOMAIN clients /\ u.name \in Seq(Letters) /\ u.name # <<>>
  BY <1>1 DEF FromPlugin, IInv, ListedInv, ToolsNamed
<1>3. Name(t.by) \in Seq(Letters)
  BY <1>2, ClientIsEntry
<1> QED
  BY <1>1, <1>2, <1>3, StripPrefixed

(* So is the link of such a tool, if it was rewritten.                     *)
LEMMA LinkIsClaimed ==
  ASSUME IInv, NEW t \in told.tools, t.was # NoUri
  PROVE  /\ t.by \in DOMAIN clients /\ t.link \in Seq(Letters) /\ Claims(Name(t.by), t.link)
         /\ Stripped(Name(t.by), t.link) = t.was
         /\ t.was \in clients[t.by].resources /\ t.link = Prefixed(Name(t.by), t.was)
<1>1. FromPlugin(t)
  BY DEF IInv, ToldInv, FromCore, FromNative
<1>2. t.by \in DOMAIN clients /\ t.was \in clients[t.by].resources /\ t.link = Prefixed(Name(t.by), t.was)
  BY <1>1 DEF FromPlugin, IInv, ListedInv
<1>3. t.was \in Seq(Letters) /\ t.was # <<>>
  BY <1>2 DEF IInv, ListedInv, NoUri
<1>4. Name(t.by) \in Seq(Letters)
  BY <1>2, ClientIsEntry
<1> QED
  BY <1>2, <1>3, <1>4, StripPrefixed

(* Plain names are claimed by nobody.                                      *)
LEMMA PlainIsUnclaimed ==
  ASSUME IInv, NEW name \in Seq(Letters), Plain(name)
  PROVE  Claimants(name) = {}
BY ClaimedIsNotPlain, ClientIsEntry DEF Claimants

(* What a plugin knows has been listed, if anything has.                   *)
LEMMA KnownIsListed ==
  ASSUME IInv, told.tools # {}, NEW p \in DOMAIN clients, NEW as, Knows(p, as)
  PROVE  \E u \in told.tools : u.name = Prefixed(Name(p), as) /\ u.by = p
<1>1. PICK t \in clients[p].tools : t.name = as
  BY DEF Knows
<1> DEFINE u == [name |-> Prefixed(Name(p), t.name), by |-> p, as |-> t.name,
                 link |-> t.link, was |-> t.was]
<1>2. u \in PluginTools
  BY DEF PluginTools
<1>3. u \in told.tools
  BY <1>2 DEF IInv, ToldInv
<1>4. u.name = Prefixed(Name(p), as) /\ u.by = p
  BY <1>1
<1> HIDE DEF u
<1> QED
  BY <1>3, <1>4

(* A claimed name is the prefix and what is left without it.               *)
LEMMA PrefixStripped ==
  ASSUME NEW c \in Seq(Letters), NEW name \in Seq(Letters), Claims(c, name)
  PROVE  Prefixed(c, Stripped(c, name)) = name
<1> DEFINE p == Prefix(c)
<1>1. p \in Seq(Letters) /\ Len(p) \in Nat /\ Len(name) \in Nat /\ Len(p) <= Len(name)
  <2>1. Prefix(c) \in Seq(Letters) /\ Len(Prefix(c)) <= Len(name)
    BY PrefixShape, ClaimedBegins
  <2> QED
    BY <2>1
<1>2. \A i \in 1..Len(p) : name[i] = p[i]
  BY ClaimedBegins
<1> HIDE DEF p
<1> DEFINE rest == SubSeq(name, Len(p) + 1, Len(name))
<1>3. /\ rest \in Seq(Letters) /\ Len(rest) = Len(name) - Len(p)
      /\ \A i \in 1..(Len(name) - Len(p)) : rest[i] = name[Len(p) + i]
  <2>1. \A i \in (Len(p) + 1)..Len(name) : name[i] \in Letters
    BY <1>1
  <2>2. /\ SubSeq(name, Len(p) + 1, Len(name)) \in Seq(Letters)
        /\ Len(SubSeq(name, Len(p) + 1, Len(name))) =
             IF Len(p) + 1 <= Len(name) THEN Len(name) - (Len(p) + 1) + 1 ELSE 0
    BY <1>1, <2>1, SubSeqProperties
  <2>3. \A i \in 1..(Len(name) - Len(p)) : rest[i] = name[Len(p) + i]
    BY <1>1
  <2> QED
    BY <1>1, <2>2, <2>3
<1> HIDE DEF rest
<1>4. /\ p \o rest \in Seq(Letters)
      /\ Len(p \o rest) = Len(p) + Len(rest)
      /\ \A i \in 1..(Len(p) + Len(rest)) :
           (p \o rest)[i] = IF i <= Len(p) THEN p[i] ELSE rest[i - Len(p)]
  BY <1>1, <1>3, ConcatProperties
<1>5. Len(p \o rest) = Len(name)
  BY <1>1, <1>3, <1>4
<1>6. ASSUME NEW i \in 1..Len(name)  PROVE (p \o rest)[i] = name[i]
  <2>1. CASE i <= Len(p)
    BY <1>1, <1>2, <1>3, <1>4, <2>1
  <2>2. CASE ~(i <= Len(p))
    <3>1. i - Len(p) \in 1..(Len(name) - Len(p)) /\ Len(p) + (i - Len(p)) = i
      BY <1>1, <2>2
    <3>2. i \in 1..(Len(p) + Len(rest))
      BY <1>1, <1>3
    <3> QED
      BY <1>3, <1>4, <2>2, <3>1, <3>2
  <2> QED
    BY <2>1, <2>2
<1>7. p \o rest = name
  BY <1>4, <1>5, <1>6, SeqEqual
<1> QED
  BY <1>7 DEF Prefixed, Stripped, p, rest

(* Where a call leads that has the name of a listed tool.                  *)
LEMMA CallsLead ==
  ASSUME IInv, NEW headers, NEW name, NEW t \in told.tools, t.name = last'.name,
         CallNative(headers) \/ (name \in Names /\ (CallPlugin(name, headers) \/ CallCore(name, headers)))
  PROVE  \/ t.by = last'.to /\ t.as = last'.as
         \/ /\ t.by \in Plugins /\ Shadowed(t.by, t.name)
            /\ last'.to = Gateway \/ \E u \in told.tools : u.name = last'.name /\ u.by = last'.to
<1>0. FromCore(t) \/ FromNative(t) \/ FromPlugin(t)
  BY DEF IInv, ToldInv
<1>1. NativeTool \in Seq(Letters) /\ Plain(NativeTool) /\ (name \in Names => name \in Seq(Letters))
  BY NameAssumption, OwnNamesArePlain
<1>2. CASE CallNative(headers)
  <2>1. last'.name = NativeTool /\ last'.to = Native /\ last'.as = NativeTool
    BY <1>2 DEF CallNative, Asked
  <2>2. ~FromCore(t)
    BY <2>1 DEF FromCore
  <2>3. ~FromPlugin(t)
    <3>1. Claimants(NativeTool) = {}
      BY <1>1, PlainIsUnclaimed
    <3> QED
      BY <2>1, <3>1, ToolIsClaimed DEF Claimants
  <2> QED
    BY <1>0, <2>1, <2>2, <2>3 DEF FromNative
<1>3. CASE name \in Names /\ CallPlugin(name, headers)
  <2> DEFINE p == Min(Claimants(name))
             as == Stripped(Name(p), name)
             able == as \in OfferNames(offer[p])
  <2>1. Claimants(name) # {} /\ ~(native /\ name = NativeTool)
    BY <1>3 DEF CallPlugin
  <2>2. \/ Knows(p, as) /\ Asked("call", name, p, as, Answer(p, able), NoUri, ToPlugin(p))
        \/ ~Knows(p, as) /\ Asked("call", name, Gateway, as, "not found", NoUri, {})
    BY <1>3 DEF CallPlugin, CallTool, NotFound
  <2>3. /\ last'.name = name /\ last'.as = as
        /\ Knows(p, as) => last'.to = p
        /\ ~Knows(p, as) => last'.to = Gateway
    <3> HIDE DEF p, as, able
    <3>1. CASE Knows(p, as) /\ Asked("call", name, p, as, Answer(p, able), NoUri, ToPlugin(p))
      BY <3>1, AskedSays
    <3>2. CASE ~Knows(p, as) /\ Asked("call", name, Gateway, as, "not found", NoUri, {})
      BY <3>2, AskedSays
    <3> QED
      BY <2>2, <3>1, <3>2
  <2> HIDE DEF able
  <2>4. ~FromCore(t)
    BY <1>1, <1>3, <2>1, <2>3, PlainIsUnclaimed DEF FromCore
  <2>5. ~FromNative(t)
    BY <2>1, <2>3 DEF FromNative
  <2>6. FromPlugin(t)
    BY <1>0, <2>4, <2>5
  <2>7. t.by \in DOMAIN clients /\ Claims(Name(t.by), name) /\ Stripped(Name(t.by), name) = t.as
    BY <2>3, <2>6, ToolIsClaimed
  <2>8. CASE Shadowed(t.by, t.name)
    <3>1. t.by \in Plugins
      BY <2>7, ClientIsEntry
    <3>2. p \in DOMAIN clients /\ Claims(Name(p), name) /\ Name(p) \in Seq(Letters)
      BY <2>1, ClaimantIsClient, ClientIsEntry
    <3>3. Prefixed(Name(p), as) = name
      BY <1>1, <1>3, <3>2, PrefixStripped
    <3>4. Knows(p, as) => \E u \in told.tools : u.name = name /\ u.by = p
      <4> HIDE DEF p, as
      <4> QED
        BY <3>2, <3>3, KnownIsListed
    <3> HIDE DEF p, as
    <3> QED
      BY <2>3, <2>8, <3>1, <3>4
  <2>9. CASE ~Shadowed(t.by, t.name)
    <3>1. p = t.by
      BY <2>3, <2>7, <2>9, FirstClaimant
    <3>2. as = t.as
      BY <2>7, <3>1
    <3>3. Knows(p, as)
      BY <2>6, <3>1, <3>2 DEF FromPlugin, Knows
    <3> QED
      BY <2>3, <3>1, <3>2, <3>3
  <2> QED
    BY <2>8, <2>9
<1>4. CASE name \in Names /\ CallCore(name, headers)
  <2>1. /\ Claimants(name) = {} /\ ~(native /\ name = NativeTool)
        /\ last'.name = name /\ last'.to = Core /\ last'.as = name
    BY <1>4 DEF CallCore, Asked
  <2>2. ~FromNative(t)
    BY <2>1 DEF FromNative
  <2>3. ~FromPlugin(t)
    BY <2>1, ToolIsClaimed DEF Claimants
  <2> QED
    BY <1>0, <2>1, <2>2, <2>3 DEF FromCore
<1> QED
  BY <1>2, <1>3, <1>4

(* A read of a link reaches the resource it was made of.                   *)
LEMMA ReadsLead ==
  ASSUME IInv, NEW headers, NEW uri \in Names, NEW t \in told.tools,
         t.was # NoUri, t.link = last'.name, ~Shadowed(t.by, t.link),
         ReadPlugin(uri, headers) \/ ReadCore(uri, headers)
  PROVE  /\ last'.to = t.by /\ last'.as = t.was
         /\ last'.reply = "result" => last'.uri = t.link
<1>1. last'.name = uri
  <2> DEFINE p == Min(Claimants(uri))
             as == Stripped(Name(p), uri)
             reply == Answer(p, as \in offer[p].resources)
             answer == CoreAnswer(uri \in offer[Core].resources)
             contents == IF answer = "result" THEN uri ELSE NoUri
  <2>1. \/ Asked("read", uri, p, as, reply, ContentsUri(p, as, reply), ToPlugin(p))
        \/ Asked("read", uri, Gateway, as, "not found", NoUri, {})
        \/ Asked("read", uri, Core, uri, answer, contents, ToCore(headers))
    BY DEF ReadPlugin, ReadCore, ReadResource, NotFound
  <2> HIDE DEF p, as, reply, answer, contents
  <2>2. CASE Asked("read", uri, p, as, reply, ContentsUri(p, as, reply), ToPlugin(p))
    BY <2>2, AskedSays
  <2>3. CASE Asked("read", uri, Gateway, as, "not found", NoUri, {})
    BY <2>3, AskedSays
  <2>4. CASE Asked("read", uri, Core, uri, answer, contents, ToCore(headers))
    BY <2>4, AskedSays
  <2> QED
    BY <2>1, <2>2, <2>3, <2>4
<1>2. /\ t.by \in DOMAIN clients /\ uri \in Seq(Letters) /\ Claims(Name(t.by), uri)
      /\ Stripped(Name(t.by), uri) = t.was
      /\ t.was \in clients[t.by].resources /\ t.link = Prefixed(Name(t.by), t.was)
  BY <1>1, LinkIsClaimed
<1>3. Claimants(uri) # {} /\ Min(Claimants(uri)) = t.by
  BY <1>1, <1>2, FirstClaimant
<1> DEFINE reply == Answer(t.by, t.was \in offer[t.by].resources)
<1>4. Asked("read", uri, t.by, t.was, reply, ContentsUri(t.by, t.was, reply), ToPlugin(t.by))
  BY <1>2, <1>3 DEF ReadPlugin, ReadCore, ReadResource
<1> HIDE DEF reply
<1>5. /\ last'.to = t.by /\ last'.as = t.was /\ last'.reply = reply
      /\ last'.uri = ContentsUri(t.by, t.was, reply)
  BY <1>4 DEF Asked
<1> QED
  BY <1>2, <1>5 DEF ContentsUri

(* What a call says, and with which headers it goes where.                 *)
LEMMA CallSays ==
  ASSUME NEW headers, NEW name, CallPlugin(name, headers) \/ CallCore(name, headers)
  PROVE  /\ last'.method = "call"
         /\ \/ last'.headers = ToCore(headers) /\ last'.to = Core
            \/ /\ Claimants(name) # {} /\ last'.to = Min(Claimants(name))
               /\ last'.headers = ToPlugin(Min(Claimants(name)))
            \/ last'.headers = {}
<1> DEFINE p == Min(Claimants(name))
           as == Stripped(Name(p), name)
           reply == Answer(p, as \in OfferNames(offer[p]))
           answer == CoreAnswer(name \in OfferNames(offer[Core]))
<1>1. \/ Claimants(name) # {} /\ Asked("call", name, p, as, reply, NoUri, ToPlugin(p))
      \/ Asked("call", name, Gateway, as, "not found", NoUri, {})
      \/ Asked("call", name, Core, name, answer, NoUri, ToCore(headers))
  BY DEF CallPlugin, CallCore, CallTool, NotFound
<1> HIDE DEF as, reply, answer
<1>2. CASE Claimants(name) # {} /\ Asked("call", name, p, as, reply, NoUri, ToPlugin(p))
  BY <1>2, AskedSays
<1>3. CASE Asked("call", name, Gateway, as, "not found", NoUri, {})
  BY <1>3, AskedSays
<1>4. CASE Asked("call", name, Core, name, answer, NoUri, ToCore(headers))
  BY <1>4, AskedSays
<1> QED
  BY <1>1, <1>2, <1>3, <1>4

(* What a read says, and with which headers it goes where.                 *)
LEMMA ReadSays ==
  ASSUME NEW headers, NEW uri, ReadPlugin(uri, headers) \/ ReadCore(uri, headers)
  PROVE  /\ last'.method = "read" /\ last'.name = uri
         /\ \/ last'.headers = ToCore(headers) /\ last'.to = Core
            \/ /\ Claimants(uri) # {} /\ last'.to = Min(Claimants(uri))
               /\ last'.headers = ToPlugin(Min(Claimants(uri)))
            \/ last'.headers = {}
<1> DEFINE p == Min(Claimants(uri))
           as == Stripped(Name(p), uri)
           reply == Answer(p, as \in offer[p].resources)
           answer == CoreAnswer(uri \in offer[Core].resources)
           contents == IF answer = "result" THEN uri ELSE NoUri
<1>1. \/ Claimants(uri) # {} /\ Asked("read", uri, p, as, reply, ContentsUri(p, as, reply), ToPlugin(p))
      \/ Asked("read", uri, Gateway, as, "not found", NoUri, {})
      \/ Asked("read", uri, Core, uri, answer, contents, ToCore(headers))
  BY DEF ReadPlugin, ReadCore, ReadResource, NotFound
<1> HIDE DEF as, reply, answer, contents
<1>2. CASE Claimants(uri) # {} /\ Asked("read", uri, p, as, reply, ContentsUri(p, as, reply), ToPlugin(p))
  BY <1>2, AskedSays
<1>3. CASE Asked("read", uri, Gateway, as, "not found", NoUri, {})
  BY <1>3, AskedSays
<1>4. CASE Asked("read", uri, Core, uri, answer, contents, ToCore(headers))
  BY <1>4, AskedSays
<1> QED
  BY <1>1, <1>2, <1>3, <1>4

(* A step is a request that calls, one that reads, another one, or none,   *)
(* and the first two tell nothing.                                         *)
LEMMA StepKinds ==
  ASSUME IInv, [Next]_vars
  PROVE  \/ UNCHANGED <<entries, told, last>> /\ (UNCHANGED clients \/ told.tools = {})
         \/ UNCHANGED entries /\ last'.method \notin {"call", "read"}
         \/ /\ UNCHANGED <<entries, told, clients>> /\ last'.method = "call"
            /\ \E headers : \/ CallNative(headers)
                           \/ \E name \in Names : CallPlugin(name, headers) \/ CallCore(name, headers)
         \/ /\ UNCHANGED <<entries, told, clients>> /\ last'.method = "read"
            /\ \E headers : \E uri \in Names : ReadPlugin(uri, headers) \/ ReadCore(uri, headers)
<1>1. CASE Connect \/ FallsSilent \/ DeadlinePasses
  <2>1. CASE FetchResources
    <3>1. todo # {} /\ UNCHANGED <<entries, told, last>>
      BY <2>1 DEF FetchResources, Answered
    <3>2. told = NotTold
      BY <3>1 DEF IInv, ToldInv
    <3> QED
      BY <3>1, <3>2 DEF NotTold
  <2>2. CASE (Connect /\ ~FetchResources) \/ FallsSilent \/ DeadlinePasses
    BY <2>2 DEF Connect, Initialize, FetchTools, AttemptFails, LogInventory, FallsSilent,
                DeadlinePasses, Answered
  <2> QED
    BY <1>1, <2>1, <2>2
<1>2. CASE \E s \in Servers : ServerChanges(s) \/ ServerStops(s) \/ ServerReturns(s)
  BY <1>2 DEF ServerChanges, ServerStops, ServerReturns, start
<1>3. CASE UNCHANGED vars
  BY <1>3 DEF vars, start
<1>4. CASE Serve
  <2>1. PICK headers \in HeaderSets :
          \/ AskInitialize(headers) \/ AskList(headers) \/ CallNative(headers)
          \/ \E name \in Names : CallPlugin(name, headers) \/ CallCore(name, headers)
          \/ \E uri \in Names : ReadPlugin(uri, headers) \/ ReadCore(uri, headers)
          \/ Forward(headers) \/ FetchAsset(headers)
          \/ RefuseToken(headers) \/ RefuseHost(headers)
    BY <1>4 DEF Serve
  <2>2. CASE AskInitialize(headers) \/ AskList(headers)
    <3>1. last'.method \in {"initialize", "list"}
      BY <2>2, AskedSays DEF AskInitialize, AskList
    <3>2. UNCHANGED entries
      BY <2>2 DEF AskInitialize, AskList, Request, start
    <3> QED
      BY <3>1, <3>2
  <2>3. CASE Forward(headers) \/ FetchAsset(headers) \/ RefuseToken(headers) \/ RefuseHost(headers)
    <3>1. last'.method \in {"other", "asset"}
      BY <2>3, AskedSays DEF Forward, FetchAsset, GetAsset, RefuseToken, RefuseHost, Refuse
    <3>2. UNCHANGED entries
      BY <2>3 DEF Forward, FetchAsset, RefuseToken, RefuseHost, Refuse, Request, start
    <3> QED
      BY <3>1, <3>2
  <2>4. CASE CallNative(headers)
    <3>1. last'.method = "call"
      BY <2>4, AskedSays DEF CallNative
    <3>2. UNCHANGED <<entries, told, clients>>
      BY <2>4 DEF CallNative, Request, start
    <3> QED
      BY <2>4, <3>1, <3>2
  <2>5. CASE \E name \in Names : CallPlugin(name, headers) \/ CallCore(name, headers)
    <3>1. PICK name \in Names : CallPlugin(name, headers) \/ CallCore(name, headers)
      BY <2>5
    <3>2. UNCHANGED <<entries, told, clients>>
      BY <3>1 DEF CallPlugin, CallCore, Request, start
    <3>3. last'.method = "call"
      BY <3>1, CallSays
    <3> QED
      BY <3>1, <3>2, <3>3
  <2>6. CASE \E uri \in Names : ReadPlugin(uri, headers) \/ ReadCore(uri, headers)
    <3>1. PICK uri \in Names : ReadPlugin(uri, headers) \/ ReadCore(uri, headers)
      BY <2>6
    <3>2. UNCHANGED <<entries, told, clients>>
      BY <3>1 DEF ReadPlugin, ReadCore, Request, start
    <3>3. last'.method = "read"
      BY <3>1, ReadSays
    <3> QED
      BY <3>1, <3>2, <3>3
  <2> QED
    BY <2>1, <2>2, <2>3, <2>4, <2>5, <2>6
<1> QED
  BY <1>1, <1>2, <1>3, <1>4 DEF Next

(* A listed tool is called where it was listed, for any plugins, unless an *)
(* earlier one's prefix begins its name, and then nobody else is called    *)
(* who has not listed it.                                                  *)
THEOREM ListedToolsAreReached == Spec => []RoutedBack
<1>1. Init => RoutedBack
  BY DEF Init, RoutedBack, NotTold
<1>2. IInv /\ RoutedBack /\ [Next]_vars => RoutedBack'
  <2> SUFFICES ASSUME IInv, RoutedBack, [Next]_vars  PROVE RoutedBack'
    OBVIOUS
  <2>1. CASE UNCHANGED <<entries, told, last>> /\ (UNCHANGED clients \/ told.tools = {})
    BY <2>1 DEF RoutedBack, Shadowed, Name
  <2>2. CASE last'.method # "call"
    BY <2>2 DEF RoutedBack
  <2>3. CASE /\ UNCHANGED <<entries, told, clients>>
             /\ \E headers :
                  \/ CallNative(headers)
                  \/ \E name \in Names : CallPlugin(name, headers) \/ CallCore(name, headers)
    <3>1. \A p, name : Shadowed(p, name)' = Shadowed(p, name)
      BY <2>3 DEF Shadowed, Name
    <3>2. \A t \in told.tools :
            t.name = last'.name =>
              \/ t.by = last'.to /\ t.as = last'.as
              \/ /\ t.by \in Plugins /\ Shadowed(t.by, t.name)
                 /\ last'.to = Gateway \/ \E u \in told.tools : u.name = last'.name /\ u.by = last'.to
      BY <2>3, CallsLead
    <3> QED
      BY <2>3, <3>1, <3>2 DEF RoutedBack
  <2> QED
    BY <2>1, <2>2, <2>3, StepKinds
<1> QED
  BY <1>1, <1>2, Invariance, PTL DEF Spec

(* What the design says of the prefixes is so if no name with the          *)
(* separator begins another's, as a name of letters and digits never does. *)
THEOREM NamesApartSuffice == Spec => [](NamesApart => PrefixLeadsBack)
<1>1. IInv /\ RoutedBack => (NamesApart => PrefixLeadsBack)
  <2> SUFFICES ASSUME IInv, RoutedBack, NamesApart, last.method = "call",
                      NEW t \in told.tools, t.name = last.name
               PROVE  last.to = t.by /\ last.as = t.as
    BY DEF PrefixLeadsBack
  <2>1. CASE FromPlugin(t)
    <3>1. ~Shadowed(t.by, t.name)
      BY <2>1, ToolIsClaimed, ApartIsNotShadowed
    <3> QED
      BY <3>1 DEF RoutedBack
  <2>2. CASE FromCore(t) \/ FromNative(t)
    <3>1. t.by \notin Plugins
      BY <2>2, BoundAssumption DEF FromCore, FromNative, Core, Native, Plugins
    <3> QED
      BY <3>1 DEF RoutedBack
  <2> QED
    BY <2>1, <2>2 DEF IInv, ToldInv
<1> QED
  BY <1>1, Invariance, ListedToolsAreReached, PTL

(* A link that was listed is read where it leads, and reads as itself.     *)
THEOREM ListedLinksAreReached == Spec => []LinksLead
<1>1. Init => LinksLead
  BY DEF Init, LinksLead, NotTold
<1>2. IInv /\ LinksLead /\ [Next]_vars => LinksLead'
  <2> SUFFICES ASSUME IInv, LinksLead, [Next]_vars  PROVE LinksLead'
    OBVIOUS
  <2>1. CASE UNCHANGED <<entries, told, last>> /\ (UNCHANGED clients \/ told.tools = {})
    BY <2>1 DEF LinksLead, Shadowed, Name
  <2>2. CASE last'.method # "read"
    BY <2>2 DEF LinksLead
  <2>3. CASE /\ UNCHANGED <<entries, told, clients>>
             /\ \E headers : \E uri \in Names : ReadPlugin(uri, headers) \/ ReadCore(uri, headers)
    <3>1. \A p, name : Shadowed(p, name)' = Shadowed(p, name)
      BY <2>3 DEF Shadowed, Name
    <3>2. \A t \in told.tools :
            t.was # NoUri /\ t.link = last'.name /\ ~Shadowed(t.by, t.link) =>
              /\ last'.to = t.by /\ last'.as = t.was
              /\ last'.reply = "result" => last'.uri = t.link
      BY <2>3, ReadsLead
    <3> QED
      BY <2>3, <3>1, <3>2 DEF LinksLead
  <2> QED
    BY <2>1, <2>2, <2>3, StepKinds
<1> QED
  BY <1>1, <1>2, Invariance, PTL DEF Spec

-----------------------------------------------------------------------------
(* Credentials.                                                            *)

(* Headers that may go to a server.                                        *)
MayGo(headers, to) ==
  /\ \A h \in headers :
       /\ h.name = "authorization" => h.by = "gateway" /\ to \in Plugins
       /\ h.name = "x-brain3-upstream-secret" /\ h.by = "gateway" => to = Core
  /\ to = Core => \A h \in headers : h.name = "x-brain3-upstream-secret" => h.by = "gateway"

(* Each filter makes headers that may go where they are sent.              *)
LEMMA FiltersApart ==
  /\ \A names : MayGo(ToCore(names), Core)
  /\ \A p \in Plugins : MayGo(ToPlugin(p), p)
  /\ \A names : \A p \in Plugins : MayGo(ToAssets(names), p)
  /\ \A to : MayGo({}, to)
<1>1. \A p \in Plugins : p # Core
  BY BoundAssumption DEF Plugins, Core
<1>2. ASSUME NEW names  PROVE MayGo(ToCore(names), Core)
  BY DEF MayGo, ToCore, By
<1>3. ASSUME NEW p \in Plugins  PROVE MayGo(ToPlugin(p), p)
  BY <1>1 DEF MayGo, ToPlugin, By
<1>4. ASSUME NEW names, NEW p \in Plugins  PROVE MayGo(ToAssets(names), p)
  BY <1>1 DEF MayGo, ToAssets, By
<1>5. ASSUME NEW to  PROVE MayGo({}, to)
  BY DEF MayGo
<1> QED
  BY <1>2, <1>3, <1>4, <1>5

(* No request carries credentials to a server they are not for.            *)
THEOREM CredentialsStayApart == Spec => []CredentialsApart
<1>0. CredentialsApart <=> MayGo(last.headers, last.to)
  BY DEF CredentialsApart, MayGo
<1>1. Init => CredentialsApart
  BY DEF Init, CredentialsApart, NotAsked
<1>2. IInv /\ CredentialsApart /\ [Next]_vars => CredentialsApart'
  <2> SUFFICES ASSUME IInv, MayGo(last.headers, last.to), [Next]_vars
               PROVE  MayGo(last'.headers, last'.to)
    BY DEF CredentialsApart, MayGo
  <2>1. CASE UNCHANGED last
    BY <2>1
  <2>2. CASE Serve
    <3>1. PICK headers \in HeaderSets :
            \/ AskInitialize(headers) \/ AskList(headers) \/ CallNative(headers)
            \/ \E name \in Names : CallPlugin(name, headers) \/ CallCore(name, headers)
            \/ \E uri \in Names : ReadPlugin(uri, headers) \/ ReadCore(uri, headers)
            \/ Forward(headers) \/ FetchAsset(headers)
            \/ RefuseToken(headers) \/ RefuseHost(headers)
      BY <2>2 DEF Serve
    <3>2. \/ \E names : last'.headers = ToCore(names) /\ last'.to = Core
          \/ \E p \in Plugins : last'.headers = ToPlugin(p) /\ last'.to = p
          \/ \E names : \E p \in Plugins : last'.headers = ToAssets(names) /\ last'.to = p
          \/ last'.headers = {}
      <4>1. CASE AskInitialize(headers) \/ AskList(headers) \/ Forward(headers)
        <5>1. last'.headers = ToCore(headers) /\ last'.to = Core
          BY <4>1, AskedSays DEF AskInitialize, AskList, Forward
        <5> QED
          BY <5>1
      <4>2. CASE CallNative(headers) \/ RefuseToken(headers) \/ RefuseHost(headers)
        BY <4>2, AskedSays DEF CallNative, RefuseToken, RefuseHost, Refuse
      <4>3. CASE \E name \in Names : CallPlugin(name, headers) \/ CallCore(name, headers)
        BY <4>3, CallSays, ClaimantIsClient
      <4>4. CASE \E uri \in Names : ReadPlugin(uri, headers) \/ ReadCore(uri, headers)
        BY <4>4, ReadSays, ClaimantIsClient
      <4>5. CASE FetchAsset(headers)
        <5>1. PICK p \in DOMAIN clients : GetAsset(p, headers)
          BY <4>5 DEF FetchAsset
        <5>2. p \in Plugins
          BY ClientIsEntry
        <5>3. last'.headers = ToAssets(headers) /\ last'.to = p
          BY <5>1, AskedSays DEF GetAsset
        <5> QED
          BY <5>2, <5>3
      <4> QED
        BY <3>1, <4>1, <4>2, <4>3, <4>4, <4>5
    <3> QED
      BY <3>2, FiltersApart
  <2>3. CASE Connect \/ FallsSilent \/ DeadlinePasses \/ UNCHANGED vars
           \/ \E s \in Servers : ServerChanges(s) \/ ServerStops(s) \/ ServerReturns(s)
    BY <2>1, <2>3 DEF Connect, Initialize, FetchTools, FetchResources, AttemptFails, DeadlinePasses,
                      LogInventory, FallsSilent, Answered, ServerChanges, ServerStops, ServerReturns, vars
  <2> QED
    BY <2>2, <2>3 DEF Next
<1> QED
  BY <1>1, <1>2, Invariance, PTL DEF Spec
=============================================================================
