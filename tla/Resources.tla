----------------------------- MODULE Resources ----------------------------
(***************************************************************************)
(* What DataCrawler does with the requests of pages and with what they     *)
(* load: request listeners decide which requests go on, a list of          *)
(* resources, one for all pages of a process, collects what was loaded or  *)
(* is named in documents and stylesheets, and after each page everything   *)
(* on that list is written to the archive, while the next page is loaded.  *)
(***************************************************************************)
EXTENDS Naturals, FiniteSets, FiniteSetsExt

CONSTANTS
  Pages,       \* crawled pages, numbered in the order in which they start
  Urls,        \* URLs of documents and of what they use
  Home,        \* the URL of each page
  Redirect,    \* where a URL redirects to, or Nothing
  Links,       \* what a document or stylesheet names, a set of URLs for each
  Own,         \* URLs of the origin of the pages; all pages are of one origin
  Ads,         \* URLs of the hosts in ad-hosts.json
  TypeOf,      \* resource type of each URL
  Paths,       \* file names in the archive
  PathOf,      \* getResourcePath: host and query of a URL are not in it
  DirOf,       \* the directory of a file if a file could have its name, or Nothing
  Settings,    \* blockAds of the seed, and the window of each page
  Nothing,
  Fragile      \* bound: URLs whose downloads may fail by themselves

Types == {"document", "script", "stylesheet", "image", "other"}

ASSUME ResourcesAssumption ==
  /\ Pages \subseteq Nat
  /\ Home \in [Pages -> Own] /\ Own \subseteq Urls /\ Ads \subseteq Urls
  /\ \A p \in Pages : TypeOf[Home[p]] = "document"
  /\ Redirect \in [Urls -> Urls \cup {Nothing}]
  /\ Links \in [Urls -> SUBSET Urls]
  /\ TypeOf \in [Urls -> Types]
  /\ PathOf \in [Urls -> Paths]
  /\ Settings \subseteq BOOLEAN \X [Pages -> Pages]
  /\ DirOf \in [Paths -> Paths \cup {Nothing}]
  /\ {Nothing, "absent", "missing", "dir"} \cap Urls = {} /\ Nothing \notin Paths \cup {"dir"}
  /\ Fragile \subseteq Urls

VARIABLES
  blockAds,   \* blockAds of the seed
  windowOf,   \* the window of each page: worker.ts uses one for several pages
  process,    \* of the process: "up", or "unhandled" rejection
  at,         \* where crawlPage of each page is
  request,    \* the requests of each page
  resources,  \* this.resources: absent, missing its response, or whose it has
  collect,    \* downloadAllResources of each page, and stylesheets to be read
  jobs,       \* files on their way to the archive
  file,       \* the archive: whose bytes a file holds, or Dir, or Nothing
  wanted,     \* history: what the documents and stylesheets of a page named
  failed      \* history: URLs for which an error was logged

assetVars == <<blockAds, windowOf, process, at, request, resources, collect, jobs, file,
          wanted, failed>>

Absent == "absent"
Missing == "missing"
Dir == "dir"

Job == [page : Pages, url : Urls, body : Urls, main : BOOLEAN,
        pc : {"get", "write"}]

\* The variables hold values of their types; what the main file of a page is
\* waited for belongs to a page that waits.
AssetsTypeOK ==
  /\ blockAds \in BOOLEAN
  /\ windowOf \in [Pages -> Pages]
  /\ process \in {"up", "unhandled"}
  /\ at \in [Pages -> {"idle", "goto", "save", "read", "done", "failed"}]
  /\ request \in [Pages -> [Urls -> {"none", "sent", "answered", "stopped", "hangs"}]]
  /\ resources \in [Urls -> Urls \cup {Absent, Missing}]
  /\ collect \in [Pages -> [pc : {"none", "evaluate", "css", "files"},
                            css : SUBSET Urls]]
  /\ jobs \subseteq Job
  /\ file \in [Paths -> Urls \cup {Dir, Nothing}]
  /\ wanted \in [Pages -> SUBSET Urls]
  /\ failed \subseteq Urls
  /\ \A j \in jobs : j.main => at[j.page] = "save"

AssetsInit ==
  /\ \E s \in Settings : blockAds = s[1] /\ windowOf = s[2]
  /\ process = "up"
  /\ at = [p \in Pages |-> "idle"]
  /\ request = [p \in Pages |-> [u \in Urls |-> "none"]]
  /\ resources = [u \in Urls |-> Absent]
  /\ collect = [p \in Pages |-> [pc |-> "none", css |-> {}]]
  /\ jobs = {}
  /\ file = [f \in Paths |-> Nothing]
  /\ wanted = [p \in Pages |-> {}]
  /\ failed = {}

---------------------------------------------------------------------------
(* Requests: setupPage, AdBlockRules and the listener of crawlPage. *)

\* Every page that started in the window of p has a listener there.
Listeners(p) == {q \in Pages : q <= p /\ windowOf[q] = windowOf[p] /\ at[q] # "idle"}

Kept == {"document", "script", "stylesheet", "image"}

\* The listener that page q added: its own URL goes on, and what is of its
\* origin and of a type to keep.  It acts at once.
OwnVerdict(q, u) ==
  [now |-> TRUE,
   act |-> IF u = Home[q] \/ (u \in Own /\ TypeOf[u] \in Kept)
             THEN "continue" ELSE "abort"]

\* Mutant: requests of other origins are not the listener's business.
OwnVerdictsPassing(p, u) ==
  IF u \in Own THEN {OwnVerdict(Min(Listeners(p)), u)} ELSE {}

\* The first of them in a window decides.
OwnVerdicts(p, u) == {OwnVerdict(Min(Listeners(p)), u)}

\* handleRequest of AdBlockRules: it gives a priority, so that it decides
\* only if nobody acts at once.
AdVerdict(u) == [now |-> FALSE,
                 act |-> IF u \in Ads THEN "abort" ELSE "continue"]

\* setupPage puts them before the listeners.  The other rules it would put
\* there, blockRuleOpts and originOverrideOpts, are null: the constructor of
\* a seed empties the options they are made from.
AdVerdicts(u) == IF blockAds THEN {AdVerdict(u)} ELSE {}

\* The handlers of a request run one after the other.  The first that acts at
\* once decides, errors of later ones are caught; without one of them, what a
\* handler with a priority said; without any, the request is held for ever.
Outcome(p, u) ==
  LET now == {v \in AdVerdicts(u) : v.now} \cup OwnVerdicts(p, u)
        said == IF now # {} THEN now ELSE AdVerdicts(u)
  IN {v.act : v \in said}

\* The window shows, or loads, the page p.
Shown(p) == at[p] # "idle" /\ \A q \in Pages : q > p /\ windowOf[q] = windowOf[p] =>
                                                 at[q] = "idle"

\* What a URL leads to, and the document of a page.
Served(u) == IF Redirect[u] = Nothing THEN u ELSE Redirect[u]
Doc(p) == Served(Home[p])

\* A request the browser makes: the page's URL, then where it redirects to,
\* then what the document names.
Due(p, u) ==
  \/ u = Home[p]
  \/ (u = Doc(p) /\ request[p][Home[p]] = "answered")
  \/ (u \in Links[Doc(p)] /\ request[p][Doc(p)] = "answered")

\* A URL that every listener but that of its own page puts on the list, even
\* if another has decided before.
Intercept(p, u) ==
  /\ Shown(p) /\ at[p] # "failed" /\ request[p][u] = "none" /\ Due(p, u)
  /\ request' = [request EXCEPT ![p][u] =
       CASE Outcome(p, u) = {"continue"} -> "sent"
         [] Outcome(p, u) = {"abort"} -> "stopped"
         [] OTHER -> "hangs"]
  /\ resources' =
       IF /\ u \in Own /\ TypeOf[u] \in Kept
          /\ resources[u] = Absent
          /\ \E q \in Listeners(p) : u # Home[q]
         THEN [resources EXCEPT ![u] = Missing] ELSE resources
  /\ UNCHANGED <<blockAds, windowOf, process, at, collect, jobs, file, wanted, failed>>

\* Mutant: the response is put where one is missing.
ListedAny(u) == {v \in Urls : resources[v] = Missing}

\* Where resources.find looks for the request of a response.
Listed(u) == {v \in {u} : resources[v] # Absent}

\* A response arrives; scripts, stylesheets and images of the origin have it
\* noted on the list.
Answer(p, u) ==
  /\ request[p][u] = "sent"
  /\ request' = [request EXCEPT ![p][u] = "answered"]
  /\ IF u \in Own /\ TypeOf[u] \in Kept \ {"document"} /\ Listed(u) # {}
       THEN \E v \in Listed(u) : resources' = [resources EXCEPT ![v] = u]
       ELSE UNCHANGED resources
  /\ UNCHANGED <<blockAds, windowOf, process, at, collect, jobs, file, wanted, failed>>

---------------------------------------------------------------------------
(* crawlPage *)

\* A page starts when the one before has left its window.
Start(p) ==
  /\ at[p] = "idle"
  /\ \A q \in Pages : q < p => at[q] # "idle"
  /\ \A q \in Pages : q < p /\ windowOf[q] = windowOf[p] => at[q] \in {"done", "failed"}
  /\ at' = [at EXCEPT ![p] = "goto"]
  /\ UNCHANGED <<blockAds, windowOf, process, request, resources, collect, jobs, file,
                 wanted, failed>>

\* page.goto returns the response of the document, whose bytes are written
\* under the name of the URL that was asked for.
DocumentArrives(p) ==
  /\ at[p] = "goto" /\ request[p][Doc(p)] = "answered"
  /\ at' = [at EXCEPT ![p] = "save"]
  /\ jobs' = jobs \cup {[page |-> p, url |-> Home[p], body |-> Doc(p),
                         main |-> TRUE, pc |-> "get"]}
  /\ UNCHANGED <<blockAds, windowOf, process, request, resources, collect, file,
                 wanted, failed>>

\* Until the main file is written or has failed; then everything else, which
\* nobody waits for, with page.evaluate under way.
MainSaved(p) ==
  /\ at[p] = "save" /\ \A j \in jobs : ~(j.page = p /\ j.main)
  /\ at' = [at EXCEPT ![p] = "read"]
  /\ collect' = [collect EXCEPT ![p].pc = "evaluate"]
  /\ UNCHANGED <<blockAds, windowOf, process, request, resources, jobs, file,
                 wanted, failed>>

\* title and content, answered after the evaluate that was sent before them.
ReadReturns(p) ==
  /\ at[p] = "read" /\ collect[p].pc # "evaluate"
  /\ at' = [at EXCEPT ![p] = "done"]
  /\ UNCHANGED <<blockAds, windowOf, process, request, resources, collect, jobs, file,
                 wanted, failed>>

\* page.goto, the response's buffer, title or content fail.
PageThrows(p) ==
  /\ at[p] = "goto" \/ (at[p] = "read" /\ collect[p].pc # "evaluate")
  /\ at' = [at EXCEPT ![p] = "failed"]
  /\ UNCHANGED <<blockAds, windowOf, process, request, resources, collect, jobs, file,
                 wanted, failed>>

---------------------------------------------------------------------------
(* downloadAllResources and collectLinkAssets *)

\* What the document names in its tags, if it is of the origin.
DomLinks(p) == {u \in Links[Doc(p)] : u \in Own /\ TypeOf[u] \in Kept \ {"document"}}

\* Adds those that are not on the list; r is the response they come with.
Push(us, r) == [u \in Urls |-> IF u \in us /\ resources[u] = Absent
                                 THEN r ELSE resources[u]]

\* The links of the document; then the stylesheets that are on the list.
Evaluate(p) ==
  /\ collect[p].pc = "evaluate"
  /\ resources' = Push(DomLinks(p), Missing)
  /\ collect' = [collect EXCEPT ![p] =
       [pc |-> "css", css |-> {u \in Urls : /\ resources'[u] # Absent
                                            /\ TypeOf[u] = "stylesheet"}]]
  /\ wanted' = [wanted EXCEPT ![p] = DomLinks(p)]
  /\ UNCHANGED <<blockAds, windowOf, process, at, request, jobs, file, failed>>

\* The window is lost: nobody handles the rejection of downloadAllResources.
EvaluateFails(p) ==
  /\ collect[p].pc = "evaluate"
  /\ process' = "unhandled"
  /\ UNCHANGED <<blockAds, windowOf, at, request, resources, collect, jobs, file,
                 wanted, failed>>

\* A stylesheet is fetched; what it names gets the stylesheet's response.
ReadStylesheet(p, c) ==
  /\ collect[p].pc = "css" /\ c \in collect[p].css
  /\ collect' = [collect EXCEPT ![p].css = @ \ {c}]
  /\ resources' = Push(Links[c], resources[c])
  /\ wanted' = [wanted EXCEPT ![p] = @ \cup Links[c]]
  /\ UNCHANGED <<blockAds, windowOf, process, at, request, jobs, file, failed>>

\* Its fetch fails, and is passed over.
StylesheetFails(p, c) ==
  /\ collect[p].pc = "css" /\ c \in collect[p].css
  /\ collect' = [collect EXCEPT ![p].css = @ \ {c}]
  /\ UNCHANGED <<blockAds, windowOf, process, at, request, resources, jobs, file,
                 wanted, failed>>

\* Mutant: what has no response is left to the next page.
DownloadsAnswered == {u \in Urls : resources[u] \in Urls}

\* missingLinks and the others.
Downloads == {u \in Urls : resources[u] # Absent}

\* Everything on the list, of whatever page: its response, or its URL.
StartDownloads(p) ==
  /\ collect[p].pc = "css" /\ collect[p].css = {}
  /\ collect' = [collect EXCEPT ![p].pc = "files"]
  /\ jobs' = jobs \cup
       {[page |-> p, url |-> u, main |-> FALSE, pc |-> "get",
         body |-> IF resources[u] = Missing THEN Served(u) ELSE resources[u]]
        : u \in Downloads}
  /\ UNCHANGED <<blockAds, windowOf, process, at, request, resources, file, wanted,
                 failed>>

---------------------------------------------------------------------------
(* downloadResource and downloadResourceFromUrl *)

Step(j, pc) == jobs' = (jobs \ {j}) \cup {[j EXCEPT !.pc = pc]}

UnchangedCrawl == UNCHANGED <<blockAds, windowOf, process, at, request, resources,
                              collect, wanted>>

\* An error that is logged, and forgotten.
Fail(j) == jobs' = jobs \ {j} /\ failed' = failed \cup {j.url}

\* The URL, fetched for want of a response or of its buffer, gives no answer.
GetFails(j) ==
  /\ j.pc = "get" /\ j.url \in Fragile
  /\ Fail(j)
  /\ UnchangedCrawl /\ UNCHANGED file

Blocked(j) == DirOf[PathOf[j.url]] # Nothing /\ file[DirOf[PathOf[j.url]]] \in Urls

\* The bytes are there; mkdir, and the test whether the name is taken, by a file or a directory.
Check(j) ==
  LET path == PathOf[j.url] IN
  /\ j.pc = "get"
  /\ IF Blocked(j)
       THEN Fail(j) /\ UNCHANGED file
       ELSE /\ IF file[path] = Nothing THEN Step(j, "write") ELSE jobs' = jobs \ {j}
            /\ file' = IF DirOf[path] = Nothing THEN file
                       ELSE [file EXCEPT ![DirOf[path]] = Dir]
            /\ UNCHANGED failed
  /\ UnchangedCrawl

\* writeFile, over a file that another job has written since the test: the
\* bytes of the response or, if it had none or its buffer was gone, those that
\* the URL was fetched with.
Write(j) ==
  LET path == PathOf[j.url] IN
  /\ j.pc = "write"
  /\ IF file[path] = Dir
       THEN Fail(j) /\ UNCHANGED file
       ELSE /\ \E b \in {j.body, Served(j.url)} : file' = [file EXCEPT ![path] = b]
            /\ jobs' = jobs \ {j}
            /\ UNCHANGED failed
  /\ UnchangedCrawl

---------------------------------------------------------------------------
CrawlPage(p) ==
  \/ Start(p) \/ DocumentArrives(p) \/ MainSaved(p) \/ ReadReturns(p) \/ PageThrows(p)
  \/ \E u \in Urls : Intercept(p, u) \/ Answer(p, u)

CollectAssets(p) ==
  \/ Evaluate(p) \/ EvaluateFails(p) \/ StartDownloads(p)
  \/ \E c \in Urls : ReadStylesheet(p, c) \/ StylesheetFails(p, c)

SaveFile(j) == GetFails(j) \/ Check(j) \/ Write(j)

AssetsNext ==
  /\ process = "up"
  /\ \/ \E p \in Pages : CrawlPage(p) \/ CollectAssets(p)
     \/ \E j \in jobs : SaveFile(j)

AssetsSpec == AssetsInit /\ [][AssetsNext]_assetVars

---------------------------------------------------------------------------
(* Properties *)

\* Every request a page makes is decided, with the rules for advertisements
\* and listeners of earlier pages before it, and goes on only if it is the
\* page's own URL or of its origin and of a type to keep.
RequestsDecided ==
  \A p \in Pages, u \in Urls :
    /\ request[p][u] # "hangs"
    /\ request[p][u] \in {"sent", "answered"} =>
         u = Home[p] \/ (u \in Own /\ TypeOf[u] \in Kept)

\* The stylesheet c names u, or imports one that does, or one that imports one
\* and so on: u is in every set of URLs with what c names that lacks nothing
\* its stylesheets name.
Complete(S) == \A c \in S : TypeOf[c] = "stylesheet" => Links[c] \subseteq S
LeadsTo(c, u) ==
  /\ TypeOf[c] = "stylesheet"
  /\ \A S \in SUBSET Urls : Links[c] \subseteq S /\ Complete(S) => u \in S

\* Bytes that may be taken for those of u.
Belongs(b, u) == b \in {u, Served(u)} \/ LeadsTo(b, u)

\* A file holds what a URL of its name leads to: its own bytes, those it
\* redirects to, or those of a stylesheet that leads to it; whatever pages load
\* at once and in what order responses and writes come.  What a stylesheet names
\* gets the stylesheet's response, which may be that of the one it came with.
BytesBelong ==
  \A f \in Paths : file[f] \in Urls =>
    \E u \in Urls : PathOf[u] = f /\ Belongs(file[f], u)

\* When the downloads of a page are over, what its document and the stylesheets
\* that could be read named is in the archive, or an error was logged for it.
NothingMissed ==
  \A p \in Pages :
    collect[p].pc = "files" /\ (\A j \in jobs : j.page # p) =>
      \A u \in wanted[p] : file[PathOf[u]] # Nothing \/ u \in failed

---------------------------------------------------------------------------
(* What these rest on. *)

\* What is noted for a URL, and what a job carries, may be taken for its bytes.
Noted ==
  \A u \in Urls : \/ resources[u] \in {Absent, Missing, u}
                  \/ LeadsTo(resources[u], u)
Carried == \A j \in jobs : Belongs(j.body, j.url)

\* The stylesheets still to be read are on the list.
SheetsListed ==
  \A p \in Pages : collect[p].css \subseteq {u \in Urls : /\ TypeOf[u] = "stylesheet"
                                                          /\ resources[u] # Absent}

\* What was named is on the list; from StartDownloads on it is in the archive, on
\* its way there, or has failed.
WantedKept ==
  \A p \in Pages : \A u \in wanted[p] :
    /\ collect[p].pc = "css" => resources[u] # Absent
    /\ collect[p].pc = "files" => \/ file[PathOf[u]] # Nothing \/ u \in failed
                                  \/ \E j \in jobs : j.page = p /\ j.url = u

AssetInv ==
  /\ AssetsTypeOK /\ RequestsDecided /\ BytesBelong
  /\ Noted /\ Carried /\ SheetsListed /\ WantedKept
=============================================================================
