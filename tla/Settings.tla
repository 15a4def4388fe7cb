------------------------------ MODULE Settings ----------------------------
(***************************************************************************)
(* What a process makes of its seed before it crawls: ScopedSeed.          *)
(* setupConfig (util/seeds.ts), the documents of seeds it starts from      *)
(* (models/seed.ts, seeddata.ts), the custom behaviours it collects        *)
(* (util/file_reader.ts) and the proxy it asks for (util/proxy.ts).  These *)
(* are computed from their inputs; what waits for something is in          *)
(* ProcessLife.                                                            *)
(***************************************************************************)
EXTENDS Integers, FiniteSets

CONSTANTS
  None,           \* no value: null, undefined or the empty string
  Devices,        \* the names of the table of devices, each with a user agent
  Chrome,         \* the user agent of the browser itself
  UnlimitedDepth, \* MAX_DEPTH of a seed without a limit
  PageOpTimeout,  \* PAGE_OP_TIMEOUT_SECS
  MaxLevels       \* MAX_DEPTH of file_reader.ts

Schemes == {"http", "socks", "ssh", "other"}

ASSUME SettingsAssumption ==
  /\ None \notin Devices \cup Schemes \cup {Chrome}
  /\ UnlimitedDepth \in Nat
  /\ PageOpTimeout \in Nat \ {0}
  /\ MaxLevels \in Nat

\* A source of custom behaviours is a URL or a path; it is there or not, and
\* has files, each some directories below it.
Source == [online : BOOLEAN, there : BOOLEAN,
           files : SUBSET [level : Nat, js : BOOLEAN]]

\* Of the options of a seed, those that setupConfig reads.  A URL is one of
\* http or not; include is whether includeStr has a pattern.
SeedDefaults ==
  [validUrl |-> TRUE, scopeType |-> "any", include |-> FALSE,
   pageLimit |-> 0, maxPageLimit |-> 0, depth |-> -1, extraHops |-> 0,
   netIdleWait |-> -1, enableBehaviors |-> FALSE, behaviors |-> {},
   mobileDevice |-> None, userAgent |-> None, userAgentSuffix |-> None,
   proxyServer |-> None, customBehaviors |-> {},
   pageLoadTimeout |-> 90, behaviorTimeout |-> 90, pageExtraDelay |-> 0]

\* The seeds that the schema of the documents admits.
IsSeed(s) ==
  /\ DOMAIN s = DOMAIN SeedDefaults
  /\ {s.validUrl, s.include, s.enableBehaviors} \subseteq BOOLEAN
  /\ s.pageLimit \in Nat /\ s.maxPageLimit \in Nat
  /\ s.pageLoadTimeout \in Nat /\ s.behaviorTimeout \in Nat /\ s.pageExtraDelay \in Nat
  /\ s.depth \in Int /\ s.extraHops \in Nat /\ s.netIdleWait \in Int
  /\ s.proxyServer \in Schemes \cup {None}
  /\ \A src \in s.customBehaviors : src \in Source

\* The seed that each start of the program writes to MongoDB.
SampleSeed ==
  [SeedDefaults EXCEPT !.scopeType = "custom", !.include = TRUE, !.pageLimit = 10]

---------------------------------------------------------------------------
Behaviors(s) ==
  IF s.enableBehaviors /\ s.behaviors # {}
  THEN s.behaviors \cup {"log", "startEarly"} ELSE {}

UnknownDevice(s) == s.mobileDevice # None /\ s.mobileDevice \notin Devices

IdleWait(s) ==
  CASE s.netIdleWait # -1                    -> s.netIdleWait
    [] s.scopeType \in {"page", "page-spa"}  -> 15
    [] OTHER                                 -> 2

ScopeType(s) ==
  CASE s.scopeType # None -> s.scopeType
    [] s.include          -> "custom"
    [] OTHER              -> "prefix"

Depth(s) == IF ScopeType(s) = "page" THEN s.extraHops ELSE s.depth

DepthLimit(s) == IF Depth(s) < 0 THEN UnlimitedDepth ELSE Depth(s)

\* Mutant: zero, for no limit, is the smaller of the two.
PageLimitSmaller(s) ==
  IF s.pageLimit < s.maxPageLimit THEN s.pageLimit ELSE s.maxPageLimit

\* The smaller of the two limits that are set.
PageLimit(s) ==
  IF s.maxPageLimit # 0 /\ (s.pageLimit = 0 \/ s.maxPageLimit < s.pageLimit)
  THEN s.maxPageLimit ELSE s.pageLimit

\* How long a worker waits for a page; a lock of the crawl state lasts as long.
MaxPageTime(s) ==
  s.pageLoadTimeout + s.behaviorTimeout + 2 * PageOpTimeout + s.pageExtraDelay

\* A user agent that is given replaces that of the device and has no suffix.
UserAgent(s) ==
  CASE s.userAgent # None    -> [base |-> s.userAgent, suffix |-> None]
    [] s.mobileDevice # None -> [base |-> s.mobileDevice, suffix |-> s.userAgentSuffix]
    [] OTHER                 -> [base |-> Chrome, suffix |-> s.userAgentSuffix]

---------------------------------------------------------------------------
\* A URL that cannot be read is logged and has none; a path that does not
\* exist is an error that nobody catches.
SourceThrows(src) == ~src.online /\ ~src.there

Collected(src) ==
  {f \in src.files : src.there /\ f.js /\ f.level < MaxLevels}

CollectCustomBehaviors(srcs) == UNION {Collected(src) : src \in srcs}

---------------------------------------------------------------------------
\* The proxy of the seed, or else that of the environment.
AskedProxy(s, env) == IF s.proxyServer # None THEN s.proxyServer ELSE env

\* What fetch goes through: "direct" is an agent without a proxy.
Dispatcher(proxy) == IF proxy \in {"http", "socks"} THEN proxy ELSE "direct"

\* The settings of the crawl.
SettingsOf(s) ==
  [pageLimit   |-> PageLimit(s),
   scopeType   |-> ScopeType(s),
   depth       |-> Depth(s),
   maxDepth    |-> DepthLimit(s),
   netIdleWait |-> IdleWait(s),
   behaviors   |-> Behaviors(s),
   custom      |-> CollectCustomBehaviors(s.customBehaviors),
   gotoTimeout |-> s.pageLoadTimeout,
   maxPageTime |-> MaxPageTime(s),
   userAgent   |-> UserAgent(s)]
===========================================================================
