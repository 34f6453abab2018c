---------------------------- MODULE MiniAppProofs ---------------------------
(***************************************************************************)
(* The Mini App for any pages, readers, channels, lists and number of      *)
(* changes.  Visits: Back leads to where the taps began.  BlockList: the   *)
(* list of blocks has no gap.  Live: no mined transaction stays on the     *)
(* live list, and a page that is up to date shows the list.  Events: the   *)
(* types, that a change never goes unannounced, and that no render from    *)
(* before an announced change is served but for one put late.              *)
(***************************************************************************)
EXTENDS Visits, BlockList, Live, Events, FiniteSetTheorems, SequenceTheorems, TLAPS

-----------------------------------------------------------------------------
(* From page to page: what a request says of the tab its reader started    *)
(* from, the page that answers it says too, whoever had it rendered.       *)

Lists == {"blocks", "addresses"}
Paths == {"block", "tx", "address", "miner", "mempool"} \cup Lists
Ids == {"", "hash", "height", "tx", "address", "miner"}
Froms == Panels \cup {"", "mempool"}
Urls == [path : Paths, id : Ids, from : Froms, down : BOOLEAN]
Asked == [path : Paths \cup {"search"}, id : Ids, from : Froms, down : BOOLEAN]

\* What may be made of a path's id, with the node or without.
ShownAs(path) ==
    CASE path = "tx" -> {"failed", "block", "tx"}
      [] path = "address" -> {"failed", "figures", "address", "notAddress"}
      [] OTHER -> {path}

\* A page of details, in memory or shown, says what its URL says, for any reader.
Details(p) ==
    /\ p.url \in Urls /\ p.url.path \notin Lists
    /\ p.shows \in ShownAs(p.url.path) /\ p.from = Origin(p.url) /\ p.back = BackOf(p.url)

\* What answers a request leads back to where its taps began.
Leads(url, began) == url.path \notin Lists => BackOf(url).from = began

RequestOK(r) ==
    /\ r.url \in Asked /\ r.began \in Panels /\ r.lost \in BOOLEAN
    /\ ~r.lost => Leads(Redirected(r.url), r.began)

SlotOK(s) ==
    LET c == content[s] IN
    /\ c.lost \in BOOLEAN /\ SlotOf(c.page.url) = s
    /\ \/ c.page.shows = "list" /\ c.page.url \in Urls /\ c.page.url.path \in Lists
       \/ /\ Details(c.page) /\ c.page.lang = ReaderLang /\ c.began \in Panels
          /\ ~c.lost => Leads(c.page.url, c.began)

VisitsInv ==
    /\ panel \in Panels
    /\ DOMAIN content = Slots /\ \A s \in Slots : SlotOK(s)
    /\ \A p \in held : Details(p)
    /\ \A r \in waiting : RequestOK(r)

LEMMA OriginIs == ASSUME NEW url \in Urls PROVE Origin(url) \in Panels /\ SlotOf(url) \in Slots
BY DEF Urls, Origin, Panel, TabOf, SlotOf, Panels, Slots

\* A URL has the parts it is made of.
LEMMA UrlIn ==
    \A path \in Paths, id \in Ids, from \in Froms, down \in BOOLEAN : Url(path, id, from, down) \in Urls
BY DEF Url, Urls

LEMMA UrlAsked ==
    \A path \in Paths \cup {"search"}, id \in Ids, from \in Froms, down \in BOOLEAN :
        Url(path, id, from, down) \in Asked
BY DEF Url, Asked

\* Where Back on a page goes, and from what tab it says it does.
LEMMA BackIs ==
    ASSUME NEW url \in Urls, url.path \notin Lists
    PROVE  /\ url.path = "tx" /\ url.from = "mempool" =>
                 /\ BackOf(url) = Url("mempool", "", "", FALSE)
                 /\ BackOf(url).from = "" /\ BackOf(url).path = "mempool"
           /\ ~(url.path = "tx" /\ url.from = "mempool") =>
                 /\ BackOf(url).from \in Panels /\ BackOf(url).path \in Lists
                 /\ url.path # "mempool" => BackOf(url).from = Origin(url)
           /\ BackOf(url) \in Urls
<1>0. /\ "" \in Ids /\ "" \in Froms /\ "mempool" \in Paths /\ Panels \subseteq Froms
      /\ FALSE \in BOOLEAN /\ url.down \in BOOLEAN /\ Origin(url) \in Panels
  BY OriginIs DEF Ids, Froms, Paths, Urls
<1>01. "blocks" \in Paths /\ "addresses" \in Paths /\ "blocks" \in Lists /\ "addresses" \in Lists
  BY DEF Paths, Lists
<1>02. PICK d : d = url.down /\ d \in BOOLEAN
  BY <1>0
<1>1. CASE url.path = "tx" /\ url.from = "mempool"
  <2>1. BackOf(url) = Url("mempool", "", "", FALSE)
    BY <1>1 DEF BackOf
  <2>2. BackOf(url) \in Urls /\ BackOf(url).from = "" /\ BackOf(url).path = "mempool"
    <3>1. "mempool" \in Paths /\ "" \in Ids /\ "" \in Froms /\ FALSE \in BOOLEAN
      BY <1>0, <1>01, <1>02
    <3>2. Url("mempool", "", "", FALSE) \in Urls
      BY <3>1, UrlIn
    <3>3. Url("mempool", "", "", FALSE).path = "mempool" /\ Url("mempool", "", "", FALSE).from = ""
      BY DEF Url
    <3> QED
      BY <2>1, <3>2, <3>3, Zenon
  <2> QED
    BY <1>1, <2>1, <2>2
<1>2. CASE ~(url.path = "tx" /\ url.from = "mempool") /\ SlotOf(url) = "addrpanel"
  <2>1. BackOf(url) = Url("addresses", "", Origin(url), d)
    BY <1>02, <1>2, Zenon DEF BackOf, BackToAddrList
  <2>2. BackOf(url) \in Urls /\ BackOf(url).path = "addresses" /\ BackOf(url).from = Origin(url)
    <3>1. "addresses" \in Paths /\ "" \in Ids /\ Origin(url) \in Froms /\ d \in BOOLEAN
      BY <1>0, <1>01, <1>02
    <3>2. Url("addresses", "", Origin(url), d) \in Urls
      BY <3>1, UrlIn
    <3>3. Url("addresses", "", Origin(url), d).path = "addresses" /\ Url("addresses", "", Origin(url), d).from = Origin(url)
      BY DEF Url
    <3> QED
      BY <2>1, <3>2, <3>3, Zenon
  <2> QED
    BY <1>0, <1>01, <1>02, <1>2, <2>2
<1>3. CASE ~(url.path = "tx" /\ url.from = "mempool") /\ SlotOf(url) # "addrpanel"
  <2> DEFINE f == IF url.path = "mempool" THEN Panel(url.from, "home") ELSE Origin(url)
  <2>1. BackOf(url) = Url("blocks", "", f, d)
    BY <1>02, <1>3, Zenon DEF BackOf, BackToList
  <2>2. f \in Panels
    BY <1>0 DEF Panel, Panels
  <2>3. url.path # "mempool" => f = Origin(url)
    OBVIOUS
  <2> HIDE DEF f
  <2>4. BackOf(url) \in Urls /\ BackOf(url).path = "blocks" /\ BackOf(url).from = f
    <3>1. "blocks" \in Paths /\ "" \in Ids /\ f \in Froms /\ d \in BOOLEAN
      BY <1>0, <1>01, <1>02, <2>2
    <3>2. Url("blocks", "", f, d) \in Urls
      BY <3>1, UrlIn
    <3>3. Url("blocks", "", f, d).path = "blocks" /\ Url("blocks", "", f, d).from = f
      BY DEF Url
    <3> QED
      BY <2>1, <3>2, <3>3, Zenon
  <2> QED
    BY <1>3, <1>01, <2>2, <2>3, <2>4
<1> QED
  BY <1>1, <1>2, <1>3

LEMMA RedirectedIs ==
    ASSUME NEW url \in Asked
    PROVE  /\ Redirected(url) \in Urls
           /\ url.path = "search" =>
                 /\ Redirected(url).path \in {"block", "tx", "address"}
                 /\ Redirected(url).from = Panel(url.from, "home")
           /\ url.path # "search" => Redirected(url) = url
BY DEF Asked, Urls, Redirected, Url, Classified, Paths, Lists, Ids, Froms, Panel, Panels

\* A link that names the tab leads back to it, wherever it leads.
LEMMA NamedLeads ==
    ASSUME NEW url \in Asked, NEW began \in Panels, url.from = began, url.path # "mempool"
    PROVE  Leads(Redirected(url), began)
<1> DEFINE u == Redirected(url)
<1>1. u \in Urls /\ u.from = began /\ u.path # "mempool" /\ began # "mempool"
  BY RedirectedIs DEF Panel, Panels
<1>2. Origin(u) = began
  BY <1>1 DEF Origin, Panel
<1> QED
  BY <1>1, <1>2, BackIs DEF Leads

LEMMA RequestIs ==
    ASSUME NEW url \in Asked, NEW began \in Panels, NEW lost \in BOOLEAN, ~lost => Leads(Redirected(url), began)
    PROVE  RequestOK([url |-> url, began |-> began, lost |-> lost])
<1> DEFINE r == [url |-> url, began |-> began, lost |-> lost]
<1>1. r.url = url /\ r.began = began /\ r.lost = lost
  BY Zenon
<1> QED
  BY <1>1, Zenon DEF RequestOK

LEMMA VisitsInitOK == VisitsInit => VisitsInv
<1> SUFFICES ASSUME VisitsInit PROVE VisitsInv
  OBVIOUS
<1>1. ASSUME NEW s \in Slots PROVE SlotOK(s)
  BY <1>1 DEF VisitsInit, SlotOK, List, Url, SlotOf, Urls, Paths, Lists, Ids, Froms, Slots
<1> QED
  BY <1>1 DEF VisitsInit, VisitsInv

\* What may be tapped on a tab.
LEMMA TabOK == ASSUME VisitsInv, NEW url \in Offered PROVE RequestOK(Request(url, ""))
<1> DEFINE r == Request(url, "")
<1>1. panel \in Panels /\ r = [url |-> url, began |-> panel, lost |-> FALSE]
  BY DEF VisitsInv, Request
<1>2. CASE panel = "home" /\ url = Url("mempool", "", "home", FALSE)
  <2>1. url \in Asked /\ Redirected(url) = url /\ url.path = "mempool" /\ url.from = "home"
    BY <1>2, RedirectedIs DEF Asked, Url, Paths, Ids, Froms, Panels
  <2>2. BackOf(url).from = "home"
    BY <2>1 DEF BackOf, SlotOf, BackToList, Url, Panel, Panels
  <2> QED
    BY <1>1, <1>2, <2>1, <2>2, RequestIs DEF Leads
<1>3. CASE ~(panel = "home" /\ url = Url("mempool", "", "home", FALSE))
  <2>1. url \in Asked /\ url.from = panel /\ url.path # "mempool"
    <3>1. PICK path \in {"search", "tx", "address"}, id \in {"hash", "height", "tx", "address"} : url = Url(path, id, panel, FALSE)
      BY <1>1, <1>3 DEF Offered, Search
    <3>2. path \in Paths \cup {"search"} /\ id \in Ids /\ panel \in Froms /\ FALSE \in BOOLEAN /\ path # "mempool"
      BY <1>1 DEF Paths, Ids, Froms
    <3> QED
      BY <3>1, <3>2, SMT DEF Url, Urls, Asked
  <2>2. Leads(Redirected(url), panel)
    BY <1>1, <2>1, NamedLeads
  <2> QED
    BY <1>1, <2>1, <2>2, RequestIs
<1> QED
  BY <1>2, <1>3

\* What may be tapped in what a slot holds, and Back there.
LEMMA LinkOK ==
    ASSUME VisitsInv, NEW s \in Slots, panel = TabOf(s), NEW url,
           \/ url \in LinksOf(content[s].page)
           \/ content[s].page.shows # "list" /\ url = content[s].page.back
    PROVE  RequestOK(Request(url, s))
<1> DEFINE c == content[s]
           p == content[s].page
           r == Request(url, s)
<1>0. SlotOK(s) /\ panel \in Panels /\ s # ""
  BY DEF VisitsInv, Slots
<1>1. CASE p.shows = "list"
  <2>1. r = [url |-> url, began |-> panel, lost |-> FALSE]
    BY <1>1, <1>0 DEF Request
  <2>2. url \in Asked /\ url.from = "" /\ url.path \in {"address", "block", "miner"} /\ SlotOf(url) = SlotOf(p.url)
    <3>0. {"address", "block", "miner"} \subseteq Paths /\ {"", "address", "height", "miner"} \subseteq Ids
          /\ "" \in Froms /\ TRUE \in BOOLEAN
      BY DEF Paths, Ids, Froms
    <3>1. CASE SlotOf(p.url) = "addrpanel"
      <4>1. url = Url("address", "address", "", TRUE)
        BY <1>1, <1>0, <3>1 DEF LinksOf
      <4> DEFINE u == Url("address", "address", "", TRUE)
      <4>2. u \in Asked
        BY <3>0, UrlAsked
      <4>3. u.path = "address" /\ u.from = ""
        BY DEF Url
      <4> QED
        BY <4>1, <4>2, <4>3, <3>1 DEF SlotOf
    <3>2. CASE SlotOf(p.url) # "addrpanel"
      <4>1. PICK path \in {"block", "miner"}, id \in {"height", "miner"} : url = Url(path, id, "", TRUE)
        BY <1>1, <1>0, <3>2 DEF LinksOf
      <4> DEFINE u == Url(path, id, "", TRUE)
      <4>2. u \in Asked
        BY <3>0, UrlAsked
      <4>3. u.path = path /\ u.from = ""
        BY DEF Url
      <4>4. SlotOf(p.url) = "blocklist"
        BY <3>2 DEF SlotOf
      <4> QED
        BY <4>1, <4>2, <4>3, <4>4 DEF SlotOf
    <3> QED
      BY <3>1, <3>2
  <2>3. SlotOf(url) = s /\ Origin(url) = TabOf(s) /\ Redirected(url) = url /\ url \in Urls
    <3>1. SlotOf(url) = s
      BY <2>2, <1>0 DEF SlotOK
    <3>2. Origin(url) = TabOf(s)
      BY <3>1, <2>2 DEF Origin, Panel, Panels
    <3> QED
      BY <3>1, <3>2, <2>2, RedirectedIs
  <2>4. Leads(url, panel)
    BY <2>2, <2>3, BackIs DEF Leads, Lists
  <2> QED
    BY <1>0, <2>1, <2>2, <2>3, <2>4, RequestIs
<1>2. CASE p.shows # "list"
  <2>1. /\ Details(p) /\ c.began \in Panels /\ c.lost \in BOOLEAN
        /\ ~c.lost => Leads(p.url, c.began)
    BY <1>0, <1>2 DEF SlotOK
  <2>2. p.url \in Urls /\ p.url.path \notin Lists /\ p.from = Origin(p.url) /\ p.back = BackOf(p.url) /\ p.from \in Panels
    BY <2>1, OriginIs DEF Details
  <2> DEFINE l == c.lost \/ url.path = "miner" \/ url.from = "mempool"
  <2>3. r = [url |-> url, began |-> c.began, lost |-> l]
    BY <1>0, <1>2 DEF Request
  <2>5. l \in BOOLEAN
    BY <2>1
  <2>6. CASE url = p.back
    <3>1. url \in Urls /\ url \in Asked /\ Redirected(url) = url /\ url.path \in Lists \cup {"mempool"}
      <4>1. url \in Urls /\ url.path \in Lists \cup {"mempool"}
        BY <2>2, <2>6, BackIs
      <4>2. url \in Asked /\ url.path # "search"
        BY <4>1 DEF Urls, Asked, Lists
      <4> QED
        BY <4>1, <4>2, RedirectedIs
    <3>2. ASSUME ~l, url.path \notin Lists PROVE FALSE
      <4>1. BackOf(p.url).from = "" 
        BY <2>2, <2>6, <3>2, BackIs
      <4> QED
        BY <4>1, <2>1, <2>2, <3>2 DEF Leads, Panels
    <3> QED
      BY <2>1, <2>3, <2>5, <3>1, <3>2, RequestIs DEF Leads
  <2>7. CASE url \in LinksOf(p) /\ url # p.back
    <3>1. p.url.path \in Paths /\ p.shows \in ShownAs(p.url.path)
      BY <2>1 DEF Details, Urls
    <3>2. /\ \E path \in {"search", "tx", "miner"}, id \in Ids, from \in {p.from, "", "mempool"}, down \in BOOLEAN :
                /\ url = Url(path, id, from, down)
                /\ from = "" => path = "miner"
          /\ p.shows \in {"block", "tx", "address", "mempool"}
      <4>1. CASE p.shows \in {"block", "tx", "address", "mempool"}
        <5>1. \/ \E id \in {"hash", "height", "address"} : url = Url("search", id, p.from, FALSE)
              \/ url = Url("tx", "tx", p.from, FALSE)
              \/ url = Url("miner", "miner", "", TRUE)
              \/ url = Url("tx", "tx", "mempool", FALSE)
          BY <2>7, <4>1 DEF LinksOf, Search
        <5>2. p.from # "" /\ {"hash", "height", "address", "tx", "miner"} \subseteq Ids
          BY <2>2 DEF Panels, Ids
        <5> QED
          BY <4>1, <5>1, <5>2
      <4>2. CASE p.shows \notin {"block", "tx", "address", "mempool"}
        BY <2>7, <1>2, <4>2 DEF LinksOf
      <4> QED
        BY <4>1, <4>2
    <3>20. PICK path \in {"search", "tx", "miner"}, id \in Ids, from \in {p.from, "", "mempool"}, down \in BOOLEAN :
                /\ url = Url(path, id, from, down)
                /\ from = "" => path = "miner"
      BY <3>2
    <3>21. /\ url \in Asked /\ url.path # "mempool"
           /\ url.from = p.from \/ url.path = "miner" \/ url.from = "mempool"
      <4>1. path \in Paths \cup {"search"} /\ from \in Froms /\ path # "mempool"
        BY <2>2 DEF Paths, Froms
      <4>2. Url(path, id, from, down) \in Asked
        BY <4>1, UrlAsked
      <4>3. Url(path, id, from, down).path = path /\ Url(path, id, from, down).from = from
        BY DEF Url
      <4>4. url \in Asked /\ url.path = path /\ url.from = from
        BY <3>20, <4>2, <4>3, Zenon
      <4> QED
        BY <3>20, <4>1, <4>4
    <3>22. p.shows = "mempool" => url.from = "mempool"
      <4>1. p.shows = "mempool" => url = Url("tx", "tx", "mempool", FALSE)
        BY <2>7 DEF LinksOf
      <4>2. Url("tx", "tx", "mempool", FALSE).from = "mempool"
        BY DEF Url
      <4> QED
        BY <4>1, <4>2
    <3>3. ASSUME ~l PROVE url.from = p.from /\ p.url.path # "mempool"
      <4>1. url.from = p.from /\ p.shows # "mempool"
        BY <3>3, <3>21, <3>22
      <4> QED
        BY <4>1, <3>1, <3>2 DEF ShownAs
    <3>4. ASSUME ~l PROVE p.from = c.began
      <4>1. BackOf(p.url).from = c.began
        BY <2>1, <2>2, <3>4 DEF Leads
      <4>2. ~(p.url.path = "tx" /\ p.url.from = "mempool")
        BY <4>1, <2>1, <2>2, BackIs DEF Panels
      <4> QED
        BY <4>1, <4>2, <3>3, <3>4, <2>2, BackIs
    <3>5. ASSUME ~l PROVE Leads(Redirected(url), c.began)
      BY <3>21, <3>3, <3>4, <3>5, <2>1, NamedLeads
    <3> QED
      BY <2>1, <2>3, <2>5, <3>21, <3>5, RequestIs
  <2> QED
    BY <1>2, <2>6, <2>7
<1> QED
  BY <1>1, <1>2

\* A page rendered, or found in memory, is of the URL that was asked and in its language.
LEMMA RenderedIs ==
    ASSUME VisitsInv, NEW lang, NEW url \in Urls, NEW p \in Rendered(lang, url)
    PROVE  /\ p.url = url /\ p.lang = lang
           /\ url.path \in Lists => p.shows = "list"
           /\ url.path \notin Lists => Details(p)
<1>1. CASE Memorable(url) /\ HeldFor(lang, url) # {}
  <2>1. p \in held /\ Key(p.lang, p.url) = Key(lang, url)
    BY <1>1 DEF Rendered, HeldFor
  <2> QED
    BY <1>1, <2>1 DEF VisitsInv, Key, Memorable, Lists
<1>2. CASE ~(Memorable(url) /\ HeldFor(lang, url) # {}) /\ url.path \in Lists
  BY <1>2 DEF Rendered, List, Lists
<1>3. CASE ~(Memorable(url) /\ HeldFor(lang, url) # {}) /\ url.path \notin Lists
  <2>1. PICK shows \in Shown(url) : p = Page(lang, url, shows)
    BY <1>3 DEF Rendered, Lists
  <2>2. shows \in ShownAs(url.path)
    BY DEF Shown, ShownAs, TxShows, AddrShows
  <2> QED
    BY <1>3, <2>1, <2>2 DEF Page, Details
<1> QED
  BY <1>1, <1>2, <1>3

\* What is kept in memory is pages of details.
LEMMA KeepOK ==
    ASSUME VisitsInv, NEW p, Memorable(p.url) => Details(p), Keep(p)
    PROVE  \A q \in held' : Details(q)
BY DEF VisitsInv, Keep

LEMMA AnswerKeeps == ASSUME VisitsInv, Answer PROVE VisitsInv'
<1>1. PICK r \in waiting : \E p \in Rendered(ReaderLang, Redirected(r.url)) :
            /\ content' = [content EXCEPT ![SlotOf(Redirected(r.url))] = [page |-> p, began |-> r.began, lost |-> r.lost]]
            /\ panel' = IF Redirected(r.url).path \in {"blocks", "addresses"}
                        THEN Panel(Redirected(r.url).from, TabOf(SlotOf(Redirected(r.url))))
                        ELSE TabOf(SlotOf(Redirected(r.url)))
            /\ Keep(p) /\ waiting' = waiting \ {r} /\ UNCHANGED <<taps, nodeUp, nodeStops>>
  BY Zenon DEF Answer
<1> DEFINE url == Redirected(r.url)
<1>2. PICK p \in Rendered(ReaderLang, url) :
            /\ content' = [content EXCEPT ![SlotOf(url)] = [page |-> p, began |-> r.began, lost |-> r.lost]]
            /\ panel' = IF url.path \in {"blocks", "addresses"} THEN Panel(url.from, TabOf(SlotOf(url)))
                        ELSE TabOf(SlotOf(url))
            /\ Keep(p) /\ waiting' = waiting \ {r}
  BY <1>1
<1>3. RequestOK(r)
  BY DEF VisitsInv
<1>4. url \in Urls /\ r.began \in Panels /\ r.lost \in BOOLEAN /\ (~r.lost => Leads(url, r.began))
  BY <1>3, RedirectedIs DEF RequestOK
<1>5. /\ p.url = url /\ p.lang = ReaderLang
      /\ url.path \in Lists => p.shows = "list"
      /\ url.path \notin Lists => Details(p)
  BY <1>4, RenderedIs
<1> HIDE DEF url
<1>6. panel' \in Panels
  BY <1>2 DEF Panel, TabOf, Panels
<1>7. \A q \in held' : Details(q)
  BY <1>2, <1>5, KeepOK DEF Memorable, Lists
<1>8. \A q \in waiting' : RequestOK(q)
  BY <1>2 DEF VisitsInv
<1>9. DOMAIN content' = Slots
  BY <1>2 DEF VisitsInv
<1>10. ASSUME NEW s \in Slots PROVE SlotOK(s)'
  <2>1. CASE s = SlotOf(url)
    <3>1. content'[s] = [page |-> p, began |-> r.began, lost |-> r.lost]
      BY <1>2, <2>1 DEF VisitsInv
    <3>2. SlotOf(p.url) = s
      BY <1>5, <2>1
    <3> QED
      BY <3>1, <3>2, <1>4, <1>5 DEF SlotOK
  <2>2. CASE s # SlotOf(url)
    <3>1. content'[s] = content[s]
      BY <1>2, <2>2 DEF VisitsInv
    <3>2. SlotOK(s)
      BY DEF VisitsInv
    <3> QED
      BY <3>1, <3>2 DEF SlotOK
  <2> QED
    BY <2>1, <2>2
<1> QED
  BY <1>6, <1>7, <1>8, <1>9, <1>10 DEF VisitsInv

LEMMA AnotherKeeps == ASSUME VisitsInv, AnotherReads PROVE VisitsInv'
<1>1. PICK r \in waiting, lang \in ReaderLangs, from \in Panels :
        \E p \in Rendered(lang, Redirected([r.url EXCEPT !.from = IF @ \in Panels THEN from ELSE @])) :
            /\ Memorable(Redirected([r.url EXCEPT !.from = IF @ \in Panels THEN from ELSE @]))
            /\ Keep(p)
  BY Zenon DEF AnotherReads
<1> DEFINE a == [r.url EXCEPT !.from = IF @ \in Panels THEN from ELSE @]
<1>2. PICK p \in Rendered(lang, Redirected(a)) : Memorable(Redirected(a)) /\ Keep(p)
  BY <1>1
<1>3. r.url \in Asked
  BY DEF VisitsInv, RequestOK
<1>4. a \in Asked
  BY <1>3 DEF Asked, Froms
<1> HIDE DEF a
<1>5. Redirected(a) \in Urls /\ Redirected(a).path \notin Lists
  BY <1>4, <1>2, RedirectedIs DEF Memorable, Lists
<1>6. Details(p)
  BY <1>5, <1>2, RenderedIs
<1>7. \A q \in held' : Details(q)
  BY <1>2, <1>6, KeepOK
<1> QED
  BY <1>7 DEF AnotherReads, VisitsInv, SlotOK

LEMMA AskKeeps == ASSUME VisitsInv, NEW url, NEW s, Ask1(url, s), RequestOK(Request(url, s)) PROVE VisitsInv'
BY DEF Ask1, VisitsInv, SlotOK

LEMMA VisitsStep == VisitsInv /\ [VisitsNext]_visitVars => VisitsInv'
<1> SUFFICES ASSUME VisitsInv, [VisitsNext]_visitVars PROVE VisitsInv'
  OBVIOUS
<1>1. CASE TapTab
  BY <1>1, TabOK, AskKeeps DEF TapTab
<1>2. CASE TapLink
  BY <1>2, LinkOK, AskKeeps DEF TapLink
<1>3. CASE TapBack
  BY <1>3, LinkOK, AskKeeps DEF TapBack
<1>4. CASE SwitchTab
  BY <1>4 DEF SwitchTab, VisitsInv, SlotOK
<1>5. CASE Answer
  BY <1>5, AnswerKeeps
<1>6. CASE AnotherReads
  BY <1>6, AnotherKeeps
<1>7. CASE Cleared
  BY <1>7 DEF Cleared, VisitsInv, SlotOK
<1>8. CASE NodeFails \/ NodeReturns \/ UNCHANGED visitVars
  BY <1>8 DEF NodeFails, NodeReturns, visitVars, VisitsInv, SlotOK
<1> QED
  BY <1>1, <1>2, <1>3, <1>4, <1>5, <1>6, <1>7, <1>8 DEF VisitsNext

\* Whatever others have had rendered, and in whatever order the answers of one reader
\* come, Back goes to the tab where the taps that led to a page began, unless a link that
\* says nothing of it was among them; and the page is in the reader's language.
THEOREM BackWhereBegan == VisitsSpec => []BackToOrigin
<1>1. VisitsInv => BackToOrigin
  <2> SUFFICES ASSUME VisitsInv, NEW s \in Slots, content[s].page.shows # "list"
               PROVE  content[s].page.lang = ReaderLang
                      /\ (content[s].lost \/ content[s].page.back.from = content[s].began)
    BY DEF BackToOrigin
  <2>1. SlotOK(s)
    BY DEF VisitsInv
  <2> QED
    BY <2>1 DEF SlotOK, Details, Leads
<1> QED
  BY <1>1, VisitsInitOK, VisitsStep, PTL DEF VisitsSpec

-----------------------------------------------------------------------------
(* The list of blocks: an answer is a run of heights, and a list is joined *)
(* to one where they meet.                                                 *)

ListRows == [num : Nat, version : Nat]
Run(part) == part \in Seq(ListRows) /\ \A i \in DOMAIN part : part[i].num = part[1].num + 1 - i

\* What an answer says of its rows, and where they lie from the height it was asked by.
AnswerOK(a) ==
    /\ Run(a.rows) /\ a.top \in Nat /\ a.next \in Nat
    /\ a.rows # <<>> => a.top = a.rows[1].num /\ a.next = a.rows[Len(a.rows)].num /\ a.next >= 1
    /\ a.query.kind = "any" => a.rows # <<>>
    /\ a.query.kind = "before" /\ a.rows # <<>> => a.top = a.query.at - 1
    /\ a.query.kind = "after" /\ a.rows # <<>> /\ ~a.more => a.next = a.query.at + 1
    /\ a.query.kind = "down" /\ a.rows # <<>> => Len(a.rows) >= MaxRows \/ a.next = a.query.at

\* Which requests ask what.
KindsOf(k) == CASE k = "newer" -> {"any", "after"} [] k = "older" -> {"before"} [] k = "whole" -> {"any", "down"}
QueryOK(k, q) ==
    /\ q.kind \in KindsOf(k) /\ q.at \in Nat
    /\ q.kind \in {"before", "down"} => q.at >= 1
    /\ q.kind = "down" => surface = "telegram"

CallOK(k) ==
    \/ call[k] = Idle
    \/ \E q : call[k] = <<q>> /\ QueryOK(k, q)
    \/ \E q, a, new : /\ call[k] = <<q, a, new>> /\ QueryOK(k, a.query) /\ AnswerOK(a)
                      /\ surface = "telegram" /\ a.query.kind = "after" => ~a.more
                      /\ q = AnyBlock => a.query = AnyBlock

PageOK ==
    /\ surface \in {"telegram", "max"} /\ opened \in Nat /\ back \in Nat
    /\ Run(blockRows) /\ DOMAIN mark = {"top", "next", "more"} /\ mark.top \in Nat /\ mark.next \in Nat
    /\ blockRows # <<>> => /\ mark.top = blockRows[1].num /\ mark.next = blockRows[Len(blockRows)].num
                           /\ mark.next >= 1
    /\ RestoredToRow
    /\ surface = "max" => blockRows # <<>> /\ opened = 0
    /\ blockRows = <<>> => /\ call["older"] = Idle
                           /\ call["newer"] = Idle \/ call["newer"][1] = AnyBlock

TableOK == table \in Seq(Nat) /\ Len(table) >= 1 /\ reorgs \in Nat
CallsOK == DOMAIN call = Calls /\ \A k \in Calls : CallOK(k)
KeptOK == \A a \in kept : AnswerOK(a)

\* A gap that the property names has come about, or all of this holds.
ListInv == TableOK /\ (mixed \/ short \/ (PageOK /\ CallsOK /\ KeptOK))

\* The rows of a window of heights, newest first.
LEMMA WindowIs ==
    ASSUME NEW lo \in Nat, NEW hi \in Nat
    PROVE  /\ Cardinality(lo..hi) = IF lo <= hi THEN hi - lo + 1 ELSE 0
           /\ \A i \in 1..Cardinality(lo..hi) : NthNewest(lo..hi, i) = hi + 1 - i
<1>1. Cardinality(lo..hi) = IF lo <= hi THEN hi - lo + 1 ELSE 0
  BY FS_Interval
<1>2. ASSUME NEW i \in 1..Cardinality(lo..hi) PROVE NthNewest(lo..hi, i) = hi + 1 - i
  <2>0. lo <= hi /\ i \in 1..(hi - lo + 1) /\ i \in Nat
    BY <1>1, <1>2
  <2>1. ASSUME NEW h \in lo..hi PROVE Cardinality({g \in lo..hi : g > h}) = hi - h
    <3>1. {g \in lo..hi : g > h} = (h + 1)..hi
      OBVIOUS
    <3>2. h + 1 \in Int /\ hi \in Int /\ Cardinality((h + 1)..hi) = IF h + 1 <= hi THEN hi - (h + 1) + 1 ELSE 0
      BY FS_Interval
    <3>3. h \in Int /\ h <= hi
      OBVIOUS
    <3>4. Cardinality((h + 1)..hi) = hi - h
      BY <3>2, <3>3
    <3> QED
      BY <3>1, <3>4
  <2>2. hi + 1 - i \in lo..hi /\ hi - (hi + 1 - i) = i - 1
    BY <2>0
  <2>3. \A h \in lo..hi : Cardinality({g \in lo..hi : g > h}) = i - 1 <=> h = hi + 1 - i
    <3>1. ASSUME NEW h \in lo..hi PROVE hi - h = i - 1 <=> h = hi + 1 - i
      BY <2>0
    <3> QED
      BY <2>1, <3>1
  <2> QED
    BY <2>2, <2>3 DEF NthNewest
<1> QED
  BY <1>1, <1>2

\* What a query selects of the table is a window of heights.
LEMMA SelectedIs ==
    ASSUME TableOK, NEW q, q.at \in Nat, q.kind \in {"any", "before", "after", "down"},
           q.kind = "before" => q.at >= 1 /\ Len(table) >= q.at - 1,
           q.kind = "down" => q.at >= 1
    PROVE  \E lo, hi \in Nat :
              /\ Selected(q) = lo..hi /\ lo >= 1 /\ hi <= Len(table)
              /\ q.kind = "any" => lo = 1 /\ hi = Len(table)
              /\ q.kind = "before" => hi = q.at - 1
              /\ q.kind = "after" => lo = q.at + 1
              /\ q.kind = "down" => lo = q.at
<1>0. Len(table) \in Nat /\ DOMAIN table = 1..Len(table)
  BY DEF TableOK
<1>1. CASE q.kind = "any"
  <2>1. Selected(q) = 1..Len(table)
    BY <1>0, <1>1 DEF Selected
  <2>2. 1 \in Nat /\ Len(table) \in Nat /\ 1 >= 1 /\ Len(table) <= Len(table)
    BY <1>0
  <2> QED
    BY <1>1, <2>1, <2>2, Zenon
<1>2. CASE q.kind = "before"
  <2>1. Selected(q) = 1..(q.at - 1) /\ q.at - 1 \in Nat
    BY <1>0, <1>2 DEF Selected
  <2> QED
    BY <1>0, <1>2, <2>1
<1>3. CASE q.kind = "after"
  <2>1. Selected(q) = (q.at + 1)..Len(table)
    BY <1>0, <1>3 DEF Selected
  <2> QED
    BY <1>0, <1>3, <2>1
<1>4. CASE q.kind = "down"
  <2>1. Selected(q) = q.at..Len(table)
    BY <1>0, <1>4 DEF Selected
  <2>2. q.at \in Nat /\ Len(table) \in Nat /\ q.at >= 1 /\ Len(table) <= Len(table)
    BY <1>0, <1>4
  <2> QED
    BY <1>4, <2>1, <2>2, Zenon
<1> QED
  BY <1>1, <1>2, <1>3, <1>4

LEMMA BlocksOK ==
    ASSUME TableOK, NEW q, q.at \in Nat, q.kind \in {"any", "before", "after", "down"},
           q.kind = "before" => q.at >= 1 /\ Len(table) >= q.at - 1,
           q.kind = "down" => q.at >= 1
    PROVE  AnswerOK(Blocks(q)) /\ Blocks(q).query = q
<1> DEFINE found == Cardinality(Selected(q))
           n == IF found < Limit(q) THEN found ELSE Limit(q)
           a == Blocks(q)
<1>1. PICK lo \in Nat, hi \in Nat :
              /\ Selected(q) = lo..hi /\ lo >= 1 /\ hi <= Len(table)
              /\ q.kind = "any" => lo = 1 /\ hi = Len(table)
              /\ q.kind = "before" => hi = q.at - 1
              /\ q.kind = "after" => lo = q.at + 1
              /\ q.kind = "down" => lo = q.at
  BY SelectedIs
<1>2. found = (IF lo <= hi THEN hi - lo + 1 ELSE 0) /\ \A i \in 1..found : NthNewest(Selected(q), i) = hi + 1 - i
  BY <1>1, WindowIs
<1>3. Limit(q) \in Nat /\ Limit(q) >= 1 /\ (q.kind = "down" => Limit(q) = MaxRows)
  BY BlockListConstants DEF Limit
<1>4. found \in Nat /\ n \in Nat /\ n <= found /\ n <= Limit(q) /\ (n = 0 <=> found = 0) /\ (n < Limit(q) => n = found)
  BY <1>2, <1>3
<1>5. /\ a.query = q /\ a.rows = [i \in 1..n |-> BlockRow(NthNewest(Selected(q), i))]
      /\ a.top = IF n > 0 THEN NthNewest(Selected(q), 1) ELSE IF q.kind = "after" THEN q.at ELSE 0
      /\ a.next = IF n > 0 THEN NthNewest(Selected(q), n) ELSE 0
      /\ q.kind = "after" => (a.more <=> found > n)
  BY DEF Blocks
<1> HIDE DEF a, n, found
<1>6. ASSUME NEW i \in 1..n PROVE a.rows[i] \in ListRows /\ a.rows[i].num = hi + 1 - i
  <2>1. NthNewest(Selected(q), i) = hi + 1 - i /\ hi + 1 - i \in 1..Len(table)
    BY <1>1, <1>2, <1>4, <1>6
  <2>2. a.rows[i] = [num |-> hi + 1 - i, version |-> table[hi + 1 - i]]
    BY <1>5, <1>6, <2>1 DEF BlockRow
  <2>3. table[hi + 1 - i] \in Nat
    BY <2>1 DEF TableOK
  <2> QED
    BY <2>1, <2>2, <2>3 DEF ListRows
<1>7. a.rows \in Seq(ListRows) /\ Len(a.rows) = n /\ DOMAIN a.rows = 1..n /\ (a.rows = <<>> <=> n = 0)
  BY <1>4, <1>5, <1>6
<1>8. Run(a.rows)
  <2>1. CASE n = 0
    BY <1>7, <2>1 DEF Run
  <2>2. CASE n >= 1
    <3>1. a.rows[1].num = hi
      BY <1>6, <2>2, <1>4
    <3> QED
      BY <3>1, <1>6, <1>7 DEF Run
  <2> QED
    BY <1>4, <2>1, <2>2
<1>9. ASSUME n >= 1
      PROVE /\ a.top = hi /\ a.next = hi + 1 - n /\ a.next >= 1
            /\ a.rows[1].num = hi /\ a.rows[n].num = hi + 1 - n
            /\ n < Limit(q) => a.next = lo
            /\ found = n => a.next = lo
  <2>1. 1 \in 1..n /\ n \in 1..n /\ 1 \in 1..found /\ n \in 1..found
    BY <1>4, <1>9
  <2>2. NthNewest(Selected(q), 1) = hi /\ NthNewest(Selected(q), n) = hi + 1 - n
    BY <1>2, <2>1
  <2>3. a.top = hi /\ a.next = hi + 1 - n
    BY <1>4, <1>5, <1>9, <2>2
  <2>4. a.rows[1].num = hi /\ a.rows[n].num = hi + 1 - n
    BY <1>6, <2>1
  <2>5. hi + 1 - found = lo /\ lo >= 1
    BY <1>1, <1>2, <1>4, <1>9
  <2> QED
    BY <1>4, <2>3, <2>4, <2>5
<1>10. a.top \in Nat /\ a.next \in Nat
  BY <1>4, <1>5, <1>9
<1>11. q.kind = "any" => n >= 1
  BY <1>1, <1>2, <1>4 DEF TableOK
<1>12. q.kind = "after" /\ n >= 1 /\ ~a.more => a.next = q.at + 1
  BY <1>1, <1>4, <1>5, <1>9
<1>13. q.kind = "down" /\ n >= 1 => n >= MaxRows \/ a.next = q.at
  BY <1>1, <1>3, <1>4, <1>9, BlockListConstants
<1>14. q.kind = "before" /\ n >= 1 => a.top = q.at - 1
  BY <1>1, <1>9
<1>15. a.rows # <<>> => a.top = a.rows[1].num /\ a.next = a.rows[Len(a.rows)].num /\ a.next >= 1
  BY <1>4, <1>7, <1>9
<1>16. AnswerOK(a)
  <2>1. a.rows # <<>> => n >= 1
    BY <1>4, <1>7
  <2>2. a.query.kind = "any" => a.rows # <<>>
    BY <1>4, <1>5, <1>7, <1>11
  <2>3. a.query.kind = "before" /\ a.rows # <<>> => a.top = a.query.at - 1
    BY <1>5, <1>14, <2>1
  <2>4. a.query.kind = "after" /\ a.rows # <<>> /\ ~a.more => a.next = a.query.at + 1
    BY <1>5, <1>12, <2>1
  <2>5. a.query.kind = "down" /\ a.rows # <<>> => Len(a.rows) >= MaxRows \/ a.next = a.query.at
    BY <1>5, <1>7, <1>13, <2>1
  <2> QED
    BY <1>8, <1>10, <1>15, <2>2, <2>3, <2>4, <2>5, Zenon DEF AnswerOK
<1> QED
  BY <1>5, <1>16 DEF a

\* What is put above or below a run where it ends is one with it.
LEMMA JoinRuns ==
    ASSUME NEW p, NEW q, Run(p), Run(q), p # <<>>, q # <<>>, q[1].num = p[Len(p)].num - 1
    PROVE  /\ Run(p \o q) /\ Len(p \o q) = Len(p) + Len(q) /\ p \o q # <<>>
           /\ (p \o q)[1] = p[1] /\ (p \o q)[Len(p \o q)] = q[Len(q)]
           /\ \A i \in DOMAIN p : (p \o q)[i] = p[i]
           /\ \A i \in DOMAIN q : Len(p) + i \in DOMAIN (p \o q) /\ (p \o q)[Len(p) + i] = q[i]
<1> DEFINE r == p \o q
<1>1. p \in Seq(ListRows) /\ q \in Seq(ListRows) /\ Len(p) \in Nat /\ Len(q) \in Nat /\ Len(p) >= 1 /\ Len(q) >= 1
  BY DEF Run
<1>2. /\ r \in Seq(ListRows) /\ Len(r) = Len(p) + Len(q) /\ DOMAIN r = 1..(Len(p) + Len(q))
      /\ \A i \in 1..Len(p) : r[i] = p[i]
      /\ \A i \in 1..Len(q) : r[Len(p) + i] = q[i]
      /\ \A i \in DOMAIN r : i \in 1..Len(p) \/ (i - Len(p) \in 1..Len(q) /\ r[i] = q[i - Len(p)])
  BY <1>1
<1> HIDE DEF r
<1>3. p[1].num \in Nat /\ q[1].num \in Nat
  <2>1. p[1] \in ListRows /\ q[1] \in ListRows
    BY <1>1
  <2> QED
    BY <2>1 DEF ListRows
<1>10. DOMAIN p = 1..Len(p) /\ DOMAIN q = 1..Len(q)
  BY <1>1
<1>4. q[1].num = p[1].num - Len(p)
  <2>1. Len(p) \in DOMAIN p
    BY <1>1, <1>10
  <2>2. p[Len(p)].num = p[1].num + 1 - Len(p)
    BY <2>1 DEF Run
  <2> QED
    BY <1>1, <1>3, <2>2
<1>5. ASSUME NEW i \in DOMAIN r PROVE r[i].num = r[1].num + 1 - i
  <2>1. r[1] = p[1]
    BY <1>1, <1>2
  <2>2. CASE i \in 1..Len(p)
    <3>1. r[i] = p[i] /\ p[i].num = p[1].num + 1 - i
      BY <1>1, <1>2, <2>2 DEF Run
    <3> QED
      BY <2>1, <3>1
  <2>3. CASE i - Len(p) \in 1..Len(q) /\ r[i] = q[i - Len(p)]
    <3>1. q[i - Len(p)].num = q[1].num + 1 - (i - Len(p))
      BY <1>1, <2>3 DEF Run
    <3>2. i \in Nat
      BY <1>2
    <3> QED
      BY <1>1, <1>3, <1>4, <2>1, <2>3, <3>1, <3>2
  <2> QED
    BY <1>2, <2>2, <2>3
<1>6. Run(r)
  BY <1>2, <1>5 DEF Run
<1>7. r # <<>> /\ r[1] = p[1] /\ r[Len(r)] = q[Len(q)]
  BY <1>1, <1>2
<1>8. \A i \in DOMAIN p : r[i] = p[i]
  BY <1>2, <1>10
<1>9. \A i \in DOMAIN q : Len(p) + i \in DOMAIN r /\ r[Len(p) + i] = q[i]
  BY <1>1, <1>2
<1> QED
  BY <1>2, <1>6, <1>7, <1>8, <1>9 DEF r

\* All rows of an answer that lies above h are above it.
LEMMA AboveIs ==
    ASSUME NEW part, Run(part), NEW h \in Nat, part # <<>> => part[Len(part)].num > h
    PROVE  Above(part, h) = part
<1>1. part \in Seq(ListRows) /\ Len(part) \in Nat /\ DOMAIN part = 1..Len(part)
  BY DEF Run
<1>2. ASSUME NEW i \in DOMAIN part PROVE part[i].num > h
  <2>1. part[1].num \in Nat /\ part[i].num = part[1].num + 1 - i /\ part[Len(part)].num = part[1].num + 1 - Len(part)
    <3>1. 1 \in DOMAIN part /\ Len(part) \in DOMAIN part
      BY <1>1, <1>2
    <3>2. part[1] \in ListRows
      BY <1>1, <3>1
    <3> QED
      BY <1>2, <3>1, <3>2 DEF Run, ListRows
  <2> QED
    BY <1>1, <2>1
<1>3. {i \in DOMAIN part : part[i].num > h} = 1..Len(part)
  BY <1>1, <1>2
<1>4. Cardinality(1..Len(part)) = Len(part)
  BY <1>1, FS_Interval
<1>5. Above(part, h) = SubSeq(part, 1, Len(part))
  BY <1>3, <1>4 DEF Above
<1> QED
  BY <1>1, <1>5

LEMMA ListInit == BlockListInit => ListInv
<1> SUFFICES ASSUME BlockListInit PROVE ListInv
  OBVIOUS
<1>1. TableOK
  BY BlockListConstants DEF BlockListInit, TableOK
<1> DEFINE a == Blocks(AnyBlock)
<1>2. AnyBlock.kind = "any" /\ AnyBlock.at = 0
  BY DEF AnyBlock, Query
<1>3. AnswerOK(a) /\ a.query = AnyBlock
  BY <1>1, <1>2, BlocksOK
<1>4. a.rows # <<>> /\ a.top = Batch + 1 /\ a.next = 2
  <2>1. Batch \in Nat /\ Batch >= 1 /\ DOMAIN table = 1..(Batch + 1)
    BY BlockListConstants DEF BlockListInit
  <2>2. Selected(AnyBlock) = 1..(Batch + 1)
    BY <1>2, <2>1 DEF Selected
  <2>3. Cardinality(Selected(AnyBlock)) = Batch + 1 /\ \A i \in 1..(Batch + 1) : NthNewest(Selected(AnyBlock), i) = Batch + 2 - i
    <3>1. 1 \in Nat /\ Batch + 1 \in Nat
      BY <2>1
    <3> QED
      BY <2>1, <2>2, <3>1, WindowIs
  <2>4. Limit(AnyBlock) = Batch
    BY <1>2 DEF Limit
  <2>5. a.top = NthNewest(Selected(AnyBlock), 1) /\ a.next = NthNewest(Selected(AnyBlock), Batch)
    BY <2>1, <2>3, <2>4 DEF Blocks
  <2>6. a.rows # <<>>
    BY <1>2, <1>3 DEF AnswerOK
  <2> QED
    BY <2>1, <2>3, <2>5, <2>6
<1> HIDE DEF a
<1>5. blockRows = a.rows /\ mark.top = a.top /\ mark.next = a.next
  BY <1>4 DEF BlockListInit, a
<1>6. PageOK
  BY <1>3, <1>4, <1>5 DEF BlockListInit, PageOK, AnswerOK, RestoredToRow
<1>7. CallsOK /\ KeptOK
  BY DEF BlockListInit, CallsOK, KeptOK, CallOK
<1> QED
  BY <1>1, <1>6, <1>7 DEF ListInv

\* What the property lets off is remembered.
LEMMA BadStays == [BlockListNext]_blockListVars => (mixed => mixed') /\ (short => short')
<1> SUFFICES ASSUME [BlockListNext]_blockListVars PROVE (mixed => mixed') /\ (short => short')
  OBVIOUS
<1>1. CASE UNCHANGED <<mixed, short>>
  BY <1>1
<1>2. ASSUME NEW k \in Calls, ServeBlocks(k) PROVE (mixed => mixed') /\ (short => short')
  BY <1>2, Zenon DEF ServeBlocks
<1>3. ASSUME NEW k \in Calls, Deliver(k) PROVE (mixed => mixed') /\ (short => short')
  <2> DEFINE a == call[k][2]
  <2>1. short' = short
    BY <1>3, Zenon DEF Deliver
  <2>2. AddNewer(a) \/ AddOlder(a) \/ TakeList(k, a)
    BY <1>3 DEF Deliver
  <2>3. CASE AddNewer(a)
    <3>1. IF surface = "max" /\ a.more THEN UNCHANGED <<blockRows, mark, mixed>>
          ELSE mixed' = (mixed \/ a.query.at # mark.top)
      BY <2>3, Zenon DEF AddNewer
    <3>2. mixed => mixed'
      <4>1. CASE surface = "max" /\ a.more
        BY <3>1, <4>1
      <4>2. CASE ~(surface = "max" /\ a.more)
        BY <3>1, <4>2, Zenon
      <4> QED
        BY <4>1, <4>2
    <3> QED
      BY <2>1, <3>2, Zenon
  <2>4. CASE AddOlder(a)
    BY <2>1, <2>4, Zenon DEF AddOlder
  <2>5. CASE TakeList(k, a)
    BY <2>1, <2>5, Zenon DEF TakeList
  <2> QED
    BY <2>2, <2>3, <2>4, <2>5
<1>4. CASE CollectChunk \/ Disconnect \/ Announce \/ Lapse \/ AskNewer \/ AskOlder \/ OpenRow \/ AskBack
           \/ UNCHANGED blockListVars
  <2>1. UNCHANGED <<mixed, short>>
    BY <1>4 DEF blockListVars, tabVars, CollectChunk, Disconnect, Announce, Lapse, AskNewer, AskOlder, OpenRow, AskBack
  <2> QED
    BY <2>1
<1> QED
  BY <1>2, <1>3, <1>4, Zenon DEF BlockListNext

\* Heights are 1 to the length of the table.
LEMMA TableKeeps == TableOK /\ [BlockListNext]_blockListVars => TableOK'
<1> SUFFICES ASSUME TableOK, [BlockListNext]_blockListVars PROVE TableOK'
  OBVIOUS
<1>1. CASE CollectChunk
  <2>1. PICK n \in 1..(MaxHeight - Len(table)) : table' = table \o [i \in 1..n |-> reorgs]
    BY <1>1 DEF CollectChunk
  <2>2. n \in Nat /\ [i \in 1..n |-> reorgs] \in Seq(Nat)
    BY BlockListConstants DEF TableOK
  <2> QED
    BY <1>1, <2>1, <2>2 DEF CollectChunk, TableOK
<1>2. CASE Disconnect
  <2>1. PICK n \in 1..Depth : n < Len(table) /\ table' = SubSeq(table, 1, Len(table) - n)
    BY <1>2 DEF Disconnect
  <2>2. n \in Nat /\ Len(table) - n \in Nat /\ 1 <= Len(table) - n
    BY <2>1, BlockListConstants DEF TableOK
  <2> QED
    BY <1>2, <2>1, <2>2 DEF Disconnect, TableOK
<1>3. CASE ~CollectChunk /\ ~Disconnect
  BY <1>3 DEF TableOK, BlockListNext, blockListVars, tableVars, tabVars, Announce, Lapse, AskNewer, AskOlder,
       OpenRow, AskBack, ServeBlocks, Deliver
<1> QED
  BY <1>1, <1>2, <1>3

\* The requests that were not touched are as they were.
LEMMA OthersOK ==
    ASSUME CallsOK, NEW k \in Calls, surface' = surface, NEW v, call' = [call EXCEPT ![k] = v], CallOK(k)'
    PROVE  CallsOK'
<1>1. ASSUME NEW c \in Calls, c # k PROVE CallOK(c)'
  <2>1. CallOK(c) /\ call'[c] = call[c]
    BY <1>1 DEF CallsOK
  <2> QED
    BY <2>1 DEF CallOK, QueryOK
<1> QED
  BY <1>1 DEF CallsOK

LEMMA IdleOK == ASSUME NEW k \in Calls, call'[k] = Idle PROVE CallOK(k)'
BY DEF CallOK

LEMMA AskedOK == ASSUME NEW k \in Calls, NEW q, call'[k] = <<q>>, QueryOK(k, q)' PROVE CallOK(k)'
BY DEF CallOK

LEMMA AskKeepsList ==
    ASSUME PageOK, CallsOK, KeptOK, NEW k \in Calls, NEW q, call[k] = Idle, AskFor(k, q), QueryOK(k, q),
           UNCHANGED <<tableVars, kept, surface, blockRows, mark, opened, opens, back, mixed, short>>,
           blockRows = <<>> => k # "older" /\ (k = "newer" => q = AnyBlock)
    PROVE  PageOK' /\ CallsOK' /\ KeptOK'
<1>1. call' = [call EXCEPT ![k] = <<q>>] /\ call'[k] = <<q>> /\ \A c \in Calls \ {k} : call'[c] = call[c]
  BY DEF AskFor, CallsOK
<1>2. CallsOK'
  <2>1. QueryOK(k, q)'
    BY DEF QueryOK
  <2>2. CallOK(k)'
    BY <1>1, <2>1, AskedOK
  <2> QED
    BY <1>1, <2>2, OthersOK
<1>3. PageOK'
  <2>1. blockRows = <<>> => call'["older"] = Idle /\ (call'["newer"] = Idle \/ call'["newer"][1] = AnyBlock)
    BY <1>1 DEF PageOK, Calls
  <2> QED
    BY <2>1 DEF PageOK, RestoredToRow
<1> QED
  BY <1>2, <1>3 DEF KeptOK

LEMMA AsksOK ==
    ASSUME PageOK, CallsOK, KeptOK, AskNewer \/ AskOlder \/ AskBack
    PROVE  PageOK' /\ CallsOK' /\ KeptOK'
<1>0. {"newer", "older", "whole"} = Calls
  BY DEF Calls
<1>1. CASE AskNewer
  <2> DEFINE q == IF blockRows = <<>> THEN AnyBlock ELSE Query("after", mark.top)
  <2>1. QueryOK("newer", q)
    BY DEF QueryOK, KindsOf, AnyBlock, Query, PageOK
  <2> QED
    BY <1>0, <1>1, <2>1, AskKeepsList DEF AskNewer
<1>2. CASE AskOlder
  <2> DEFINE q == Query("before", mark.next)
  <2>1. QueryOK("older", q)
    BY <1>2 DEF QueryOK, KindsOf, Query, PageOK, AskOlder
  <2> QED
    BY <1>0, <1>2, <2>1, AskKeepsList DEF AskOlder
<1>3. CASE AskBack
  <2> DEFINE q == Query("down", opened)
  <2>1. QueryOK("whole", q)
    BY <1>3 DEF QueryOK, KindsOf, Query, PageOK, AskBack
  <2> QED
    BY <1>0, <1>3, <2>1, AskKeepsList DEF AskBack
<1> QED
  BY <1>1, <1>2, <1>3

LEMMA OpenOK ==
    ASSUME PageOK, CallsOK, KeptOK, OpenRow
    PROVE  PageOK' /\ CallsOK' /\ KeptOK'
<1>1. PICK i \in DOMAIN blockRows : opened' = blockRows[i].num
  BY DEF OpenRow
<1>2. opened' \in Nat
  <2>1. blockRows[i] \in ListRows
    BY DEF PageOK, Run
  <2> QED
    BY <1>1, <2>1 DEF ListRows
<1>3. blockRows' = <<>> /\ surface = "telegram" /\ call' = [k \in Calls |-> Idle]
      /\ UNCHANGED <<tableVars, kept, surface, mark, back, mixed, short>>
  BY DEF OpenRow
<1>4. Run(<<>>)
  BY DEF Run
<1>5. CallsOK'
  BY <1>3, IdleOK DEF CallsOK
<1>6. call'["older"] = Idle /\ call'["newer"] = Idle
  BY <1>3 DEF Calls
<1> QED
  BY <1>2, <1>3, <1>4, <1>5, <1>6 DEF PageOK, RestoredToRow, KeptOK

LEMMA QuietOK ==
    ASSUME PageOK, CallsOK, KeptOK, CollectChunk \/ Disconnect \/ Announce \/ Lapse
    PROVE  PageOK' /\ CallsOK' /\ KeptOK'
<1>1. UNCHANGED tabVars /\ (kept' = kept \/ kept' = {})
  BY DEF CollectChunk, Disconnect, Announce, Lapse
<1>2. UNCHANGED <<surface, blockRows, mark, opened, call, back>>
  BY <1>1 DEF tabVars
<1>3. PageOK'
  BY <1>2 DEF PageOK, RestoredToRow
<1>4. CallsOK'
  BY <1>2 DEF CallsOK, CallOK, QueryOK
<1> QED
  BY <1>1, <1>3, <1>4 DEF KeptOK

LEMMA KindsAre ==
    ASSUME NEW k \in Calls, NEW q, QueryOK(k, q)
    PROVE  /\ q.kind \in {"any", "before", "after", "down"} /\ q.at \in Nat
           /\ q.kind = "after" => k = "newer"
           /\ q.kind = "before" => k = "older" /\ q.at >= 1
           /\ q.kind = "down" => q.at >= 1 /\ surface = "telegram"
BY DEF QueryOK, KindsOf, Calls

LEMMA ServeOK ==
    ASSUME TableOK, PageOK, CallsOK, KeptOK, NEW k \in Calls, ServeBlocks(k), ~short'
    PROVE  PageOK' /\ CallsOK' /\ KeptOK'
<1>1. PICK q : call[k] = <<q>> /\ QueryOK(k, q)
  <2>1. CallOK(k) /\ Len(call[k]) = 1
    BY DEF CallsOK, ServeBlocks
  <2>2. call[k] # Idle
    BY <2>1 DEF Idle
  <2>3. ASSUME NEW p, NEW a, NEW new, call[k] = <<p, a, new>> PROVE FALSE
    BY <2>1, <2>3
  <2> QED
    BY <2>1, <2>2, <2>3, Zenon DEF CallOK
<1>2. q.at \in Nat /\ q.kind \in {"any", "before", "after", "down"} /\ call[k][1] = q
      /\ (q.kind = "after" => k = "newer") /\ (q.kind \in {"before", "down"} => q.at >= 1)
  BY <1>1, KindsAre
<1>3. q.kind = "before" => Len(table) >= q.at - 1
  <2>1. short' = (short \/ (q.kind = "before" /\ Len(table) < q.at - 1))
    BY <1>2, Zenon DEF ServeBlocks
  <2>2. ~(q.kind = "before" /\ Len(table) < q.at - 1)
    BY <2>1, Zenon
  <2> QED
    BY <1>2, <2>2 DEF TableOK
<1>4. PICK a \in Answers(k, q) :
        call' = [call EXCEPT ![k] =
            <<@[1], IF surface = "telegram" /\ a.query.kind = "after" /\ a.more THEN Blocks(AnyBlock) ELSE a,
              a \notin kept /\ a.query.kind # "after">>]
  BY <1>2, Zenon DEF ServeBlocks
<1>5. AnswerOK(a) /\ a.query = q
  <2>1. CASE a \in Held(q)
    BY <2>1 DEF Held, KeptOK
  <2>2. CASE a = Blocks(q)
    BY <1>2, <1>3, <2>2, BlocksOK
  <2> QED
    BY <1>4, <2>1, <2>2 DEF Answers
<1>6. AnyBlock.kind = "any" /\ AnyBlock.at = 0
  BY DEF AnyBlock, Query
<1>7. AnswerOK(Blocks(AnyBlock)) /\ Blocks(AnyBlock).query = AnyBlock
  BY <1>6, BlocksOK
<1>17. \E b, new :
          /\ call' = [call EXCEPT ![k] = <<q, b, new>>]
          /\ IF surface = "telegram" /\ a.query.kind = "after" /\ a.more THEN b = Blocks(AnyBlock) ELSE b = a
  <2>1. call' = [call EXCEPT ![k] =
            <<q, IF surface = "telegram" /\ a.query.kind = "after" /\ a.more THEN Blocks(AnyBlock) ELSE a,
              a \notin kept /\ a.query.kind # "after">>]
    BY <1>2, <1>4, Zenon
  <2> QED
    BY <2>1, Zenon
<1>10. PICK b, new :
          /\ call' = [call EXCEPT ![k] = <<q, b, new>>]
          /\ IF surface = "telegram" /\ a.query.kind = "after" /\ a.more THEN b = Blocks(AnyBlock) ELSE b = a
  BY <1>17, Zenon
<1>8. /\ AnswerOK(b) /\ (surface = "telegram" /\ b.query.kind = "after" => ~b.more)
      /\ (q = AnyBlock => b.query = AnyBlock)
  <2>1. CASE surface = "telegram" /\ a.query.kind = "after" /\ a.more
    <3>1. b = Blocks(AnyBlock)
      BY <1>10, <2>1
    <3>2. b.query.kind # "after"
      BY <1>6, <1>7, <3>1
    <3> QED
      BY <1>7, <3>1, <3>2, Zenon
  <2>2. CASE ~(surface = "telegram" /\ a.query.kind = "after" /\ a.more)
    <3>1. b = a
      BY <1>10, <2>2
    <3> QED
      BY <1>5, <2>2, <3>1, Zenon
  <2> QED
    BY <2>1, <2>2
<1>9. QueryOK(k, b.query)
  <2>1. CASE surface = "telegram" /\ a.query.kind = "after" /\ a.more
    <3>1. b = Blocks(AnyBlock) /\ k = "newer"
      BY <1>2, <1>5, <1>10, <2>1
    <3>2. QueryOK("newer", AnyBlock)
      BY <1>6 DEF QueryOK, KindsOf
    <3> QED
      BY <1>7, <3>1, <3>2, Zenon
  <2>2. CASE ~(surface = "telegram" /\ a.query.kind = "after" /\ a.more)
    <3>1. b = a
      BY <1>10, <2>2
    <3> QED
      BY <1>1, <1>5, <3>1, Zenon
  <2> QED
    BY <2>1, <2>2
<1>11. UNCHANGED <<tableVars, kept, surface, blockRows, mark, opened, opens, back, mixed>>
  BY DEF ServeBlocks
<1>12. call'[k] = <<q, b, new>> /\ \A c \in Calls \ {k} : call'[c] = call[c]
  BY <1>10 DEF CallsOK
<1>13. CallOK(k)'
  <2>1. QueryOK(k, b.query)'
    BY <1>9, <1>11 DEF QueryOK
  <2>2. surface' = surface
    BY <1>11
  <2> QED
    BY <1>8, <1>12, <2>1, <2>2, Zenon DEF CallOK
<1>14. CallsOK'
  BY <1>10, <1>11, <1>13, OthersOK
<1>15. PageOK'
  <2>1. blockRows = <<>> => call'["older"] = Idle /\ (call'["newer"] = Idle \/ call'["newer"][1] = AnyBlock)
    <3>1. ASSUME blockRows = <<>> PROVE call["older"] = Idle /\ (call["newer"] = Idle \/ call["newer"][1] = AnyBlock)
      BY <3>1 DEF PageOK
    <3>2. call[k] # Idle /\ call'[k][1] = call[k][1]
      BY <1>1, <1>12 DEF Idle
    <3> QED
      BY <1>12, <3>1, <3>2 DEF Calls
  <2> QED
    BY <1>11, <2>1 DEF PageOK, RestoredToRow
<1> QED
  BY <1>11, <1>14, <1>15 DEF KeptOK

\* The list with rows put on top of it, or below it, or as it was.
LEMMA JoinKeepsPage ==
    ASSUME PageOK, blockRows # <<>>, blockRows' # <<>>, Run(blockRows'), UNCHANGED <<surface, opened, back>>,
           DOMAIN mark' = {"top", "next", "more"},
           mark'.top = blockRows'[1].num, mark'.next = blockRows'[Len(blockRows')].num,
           mark'.top \in Nat, mark'.next \in Nat, mark'.next >= 1,
           Len(blockRows') >= Len(blockRows),
           \A i \in DOMAIN blockRows : \E j \in DOMAIN blockRows' : blockRows'[j] = blockRows[i]
    PROVE  PageOK'
<1>1. RestoredToRow'
  <2>1. ASSUME back # 0 PROVE Len(blockRows') >= MaxRows \/ \E i \in DOMAIN blockRows' : blockRows'[i].num = back
    <3>1. Len(blockRows) >= MaxRows \/ \E i \in DOMAIN blockRows : blockRows[i].num = back
      BY <2>1 DEF PageOK, RestoredToRow
    <3>2. MaxRows \in Nat
      BY BlockListConstants
    <3>3. blockRows \in Seq(ListRows) /\ blockRows' \in Seq(ListRows)
      BY DEF PageOK, Run
    <3>4. Len(blockRows) \in Nat /\ Len(blockRows') \in Nat
      BY <3>3
    <3> QED
      BY <3>1, <3>2, <3>4
  <2> QED
    BY <2>1 DEF RestoredToRow
<1> QED
  BY <1>1 DEF PageOK

LEMMA TakeOK ==
    ASSUME PageOK, CallsOK, NEW k \in Calls, NEW a, QueryOK(k, a.query), AnswerOK(a), a.query.kind \in {"any", "down"},
           TakeList(k, a), surface' = surface
    PROVE  PageOK' /\ CallsOK'
<1>1. /\ blockRows' = a.rows /\ mark' = [top |-> a.top, next |-> a.next, more |-> a.more] /\ opened' = 0
      /\ back' = (IF a.query.kind = "down" THEN a.query.at ELSE 0)
      /\ call' = IF surface = "telegram" THEN [c \in Calls |-> Idle] ELSE [call EXCEPT ![k] = Idle]
  BY DEF TakeList
<1>2. surface \in {"telegram", "max"} /\ (a.query.kind = "down" => surface = "telegram") /\ a.query.at \in Nat
  BY KindsAre DEF PageOK
<1>3. surface = "telegram" => call'["older"] = Idle /\ call'["newer"] = Idle
  BY <1>1 DEF Calls
<1>4. surface = "max" => a.rows # <<>>
  BY <1>2 DEF AnswerOK
<1>5. RestoredToRow'
  <2>1. ASSUME back' # 0, a.rows # <<>>
        PROVE Len(a.rows) >= MaxRows \/ \E i \in DOMAIN a.rows : a.rows[i].num = back'
    <3>1. a.query.kind = "down" /\ back' = a.query.at
      BY <1>1, <2>1
    <3>2. Len(a.rows) \in DOMAIN a.rows
      BY <2>1 DEF AnswerOK, Run
    <3> QED
      BY <2>1, <3>1, <3>2 DEF AnswerOK
  <2> QED
    BY <1>1, <2>1 DEF RestoredToRow
<1>6. back' \in Nat
  BY <1>1, <1>2
<1>7. /\ DOMAIN mark' = {"top", "next", "more"} /\ mark'.top = a.top /\ mark'.next = a.next
  BY <1>1
<1>8. PageOK'
  <2>1. Run(a.rows) /\ a.top \in Nat /\ a.next \in Nat
        /\ (a.rows # <<>> => a.top = a.rows[1].num /\ a.next = a.rows[Len(a.rows)].num /\ a.next >= 1)
    BY DEF AnswerOK
  <2>2. a.rows = <<>> => surface = "telegram"
    BY <1>2, <1>4
  <2> QED
    BY <1>1, <1>2, <1>3, <1>4, <1>5, <1>6, <1>7, <2>1, <2>2 DEF PageOK
<1>9. CallsOK'
  <2>1. CASE surface = "telegram"
    <3>1. DOMAIN call' = Calls /\ \A c \in Calls : call'[c] = Idle
      BY <1>1, <2>1
    <3> QED
      BY <3>1, IdleOK DEF CallsOK
  <2>2. CASE surface # "telegram"
    <3>1. call' = [call EXCEPT ![k] = Idle] /\ call'[k] = Idle
      BY <1>1, <2>2 DEF CallsOK
    <3>2. CallOK(k)'
      BY <3>1, IdleOK
    <3> QED
      BY <3>1, <3>2, OthersOK
  <2> QED
    BY <2>1, <2>2
<1> QED
  BY <1>8, <1>9

LEMMA OlderOK ==
    ASSUME PageOK, CallsOK, NEW a, QueryOK("older", a.query), AnswerOK(a), call["older"] # Idle,
           AddOlder(a), surface' = surface, ~mixed'
    PROVE  PageOK' /\ CallsOK'
<1>0. "older" \in Calls /\ a.query.kind = "before" /\ a.query.at \in Nat /\ a.query.at >= 1
  BY DEF Calls, QueryOK, KindsOf
<1>1. /\ blockRows' = blockRows \o a.rows
      /\ mark' = [mark EXCEPT !.next = IF a.rows = <<>> THEN @ ELSE a.next, !.more = a.more]
      /\ call' = [call EXCEPT !["older"] = Idle] /\ opened' = opened /\ back' = back
  BY DEF AddOlder
<1>2. a.query.at = mark.next
  <2>1. mixed' = (mixed \/ a.query.at # mark.next)
    BY Zenon DEF AddOlder
  <2> QED
    BY <2>1, Zenon
<1>3. blockRows # <<>> /\ Run(blockRows) /\ Run(a.rows)
  BY DEF PageOK, AnswerOK
<1>4. blockRows \in Seq(ListRows) /\ a.rows \in Seq(ListRows) /\ Len(blockRows) \in Nat /\ Len(a.rows) \in Nat
  BY <1>3 DEF Run
<1>5. /\ mark.top = blockRows[1].num /\ mark.next = blockRows[Len(blockRows)].num /\ mark.next >= 1
      /\ mark.top \in Nat /\ mark.next \in Nat /\ DOMAIN mark = {"top", "next", "more"}
  BY <1>3 DEF PageOK
<1>6. DOMAIN mark' = {"top", "next", "more"} /\ mark'.top = mark.top
      /\ mark'.next = IF a.rows = <<>> THEN mark.next ELSE a.next
  BY <1>1, <1>5
<1>7. PageOK'
  <2>1. CASE a.rows = <<>>
    <3>1. blockRows' = blockRows
      BY <1>1, <1>4, <2>1
    <3> QED
      BY <1>1, <1>3, <1>4, <1>5, <1>6, <2>1, <3>1, JoinKeepsPage
  <2>2. CASE a.rows # <<>>
    <3>1. a.rows[1].num = blockRows[Len(blockRows)].num - 1 /\ a.next = a.rows[Len(a.rows)].num /\ a.next >= 1 /\ a.next \in Nat
      BY <1>0, <1>2, <1>5, <2>2 DEF AnswerOK
    <3>2. /\ Run(blockRows') /\ Len(blockRows') = Len(blockRows) + Len(a.rows) /\ blockRows' # <<>>
          /\ blockRows'[1] = blockRows[1] /\ blockRows'[Len(blockRows')] = a.rows[Len(a.rows)]
          /\ \A i \in DOMAIN blockRows : blockRows'[i] = blockRows[i]
      BY <1>1, <1>3, <2>2, <3>1, JoinRuns
    <3>3. \A i \in DOMAIN blockRows : i \in DOMAIN blockRows'
      <4>1. blockRows' \in Seq(ListRows)
        BY <3>2 DEF Run
      <4> QED
        BY <1>4, <3>2, <4>1
    <3> QED
      BY <1>1, <1>3, <1>4, <1>5, <1>6, <2>2, <3>1, <3>2, <3>3, JoinKeepsPage
  <2> QED
    BY <2>1, <2>2
<1>8. CallsOK'
  <2>1. call'["older"] = Idle
    BY <1>0, <1>1 DEF CallsOK
  <2>2. CallOK("older")'
    BY <1>0, <2>1, IdleOK
  <2> QED
    BY <1>0, <1>1, <2>2, OthersOK
<1> QED
  BY <1>7, <1>8

LEMMA NewerOK ==
    ASSUME PageOK, CallsOK, NEW a, QueryOK("newer", a.query), AnswerOK(a), a.query.kind = "after",
           blockRows # <<>>, surface = "telegram" => ~a.more, AddNewer(a), surface' = surface, ~mixed'
    PROVE  PageOK' /\ CallsOK'
<1> DEFINE part == IF surface = "telegram" THEN a.rows ELSE Above(a.rows, blockRows[1].num)
           restarts == surface = "max" /\ a.more
<1>0. "newer" \in Calls /\ "whole" \in Calls /\ a.query.at \in Nat
  BY DEF Calls, QueryOK
<1>1. /\ IF restarts THEN UNCHANGED <<blockRows, mark, mixed>>
         ELSE /\ blockRows' = part \o blockRows
              /\ mark' = [mark EXCEPT !.top = IF part = <<>> THEN @ ELSE part[1].num]
              /\ mixed' = (mixed \/ a.query.at # mark.top)
      /\ call' = [call EXCEPT !["newer"] = Idle, !["whole"] = IF restarts /\ @ = Idle THEN <<AnyBlock>> ELSE @]
      /\ opened' = opened /\ back' = back
  BY DEF AddNewer
<1> HIDE DEF part, restarts
<1>2. CallsOK'
  <2>1. /\ DOMAIN call' = Calls /\ call'["newer"] = Idle /\ call'["older"] = call["older"]
        /\ call'["whole"] = call["whole"] \/ call'["whole"] = <<AnyBlock>>
    BY <1>0, <1>1 DEF CallsOK, Calls
  <2>2. CallOK("newer")'
    BY <1>0, <2>1, IdleOK
  <2>3. ASSUME NEW c \in Calls, call'[c] = call[c] PROVE CallOK(c)'
    <3>1. CallOK(c)
      BY DEF CallsOK
    <3> QED
      BY <2>3, <3>1 DEF CallOK, QueryOK
  <2>4. CASE call'["whole"] = <<AnyBlock>>
    <3>1. QueryOK("whole", AnyBlock)'
      BY DEF QueryOK, KindsOf, AnyBlock, Query
    <3> QED
      BY <1>0, <2>1, <2>2, <2>3, <2>4, <3>1, AskedOK DEF CallsOK, Calls
  <2>5. CASE call'["whole"] = call["whole"]
    BY <1>0, <2>1, <2>2, <2>3, <2>5 DEF CallsOK, Calls
  <2> QED
    BY <2>1, <2>4, <2>5
<1>3. blockRows \in Seq(ListRows) /\ Run(blockRows) /\ Len(blockRows) \in Nat /\ Len(blockRows) >= 1
  <2>1. Run(blockRows) /\ blockRows \in Seq(ListRows)
    BY DEF PageOK, Run
  <2> QED
    BY <2>1
<1>4. /\ mark.top = blockRows[1].num /\ mark.next = blockRows[Len(blockRows)].num /\ mark.next >= 1
      /\ mark.top \in Nat /\ mark.next \in Nat /\ DOMAIN mark = {"top", "next", "more"}
  BY DEF PageOK
<1>5. CASE restarts
  <2>1. blockRows' = blockRows /\ mark' = mark
    BY <1>1, <1>5
  <2> QED
    BY <1>1, <1>2, <1>3, <1>4, <2>1, JoinKeepsPage
<1>6. CASE ~restarts
  <2>1. ~a.more
    BY <1>6 DEF restarts, PageOK
  <2>2. blockRows' = part \o blockRows /\ mark' = [mark EXCEPT !.top = IF part = <<>> THEN @ ELSE part[1].num]
    BY <1>1, <1>6
  <2>3. a.query.at = mark.top
    <3>1. mixed' = (mixed \/ a.query.at # mark.top)
      BY <1>1, <1>6, Zenon
    <3> QED
      BY <3>1, Zenon
  <2>4. Run(a.rows) /\ (a.rows # <<>> => a.rows[Len(a.rows)].num = mark.top + 1)
    BY <2>1, <2>3 DEF AnswerOK
  <2>5. part = a.rows
    <3>1. Above(a.rows, blockRows[1].num) = a.rows
      BY <1>4, <2>4, AboveIs
    <3> QED
      BY <3>1 DEF part
  <2>6. DOMAIN mark' = {"top", "next", "more"} /\ mark'.next = mark.next
        /\ mark'.top = IF part = <<>> THEN mark.top ELSE part[1].num
    BY <1>4, <2>2
  <2>7. CASE a.rows = <<>>
    <3>1. blockRows' = blockRows
      BY <1>3, <2>2, <2>5, <2>7
    <3> QED
      BY <1>1, <1>2, <1>3, <1>4, <2>5, <2>6, <2>7, <3>1, JoinKeepsPage
  <2>8. CASE a.rows # <<>>
    <3>1. blockRows[1].num = a.rows[Len(a.rows)].num - 1
      BY <1>4, <2>4, <2>8
    <3>2. /\ Run(blockRows') /\ Len(blockRows') = Len(a.rows) + Len(blockRows) /\ blockRows' # <<>>
          /\ blockRows'[1] = a.rows[1] /\ blockRows'[Len(blockRows')] = blockRows[Len(blockRows)]
          /\ \A i \in DOMAIN blockRows : Len(a.rows) + i \in DOMAIN blockRows' /\ blockRows'[Len(a.rows) + i] = blockRows[i]
      BY <1>3, <2>2, <2>4, <2>5, <2>8, <3>1, JoinRuns, SMTT(40)
    <3>3. Len(a.rows) \in Nat /\ a.rows[1].num \in Nat
      BY <2>8 DEF AnswerOK
    <3>4. mark'.top = a.rows[1].num
      BY <2>5, <2>6, <2>8
    <3>5. \A i \in DOMAIN blockRows : \E j \in DOMAIN blockRows' : blockRows'[j] = blockRows[i]
      BY <3>2
    <3>6. Len(blockRows') >= Len(blockRows)
      BY <1>3, <3>2, <3>3
    <3>7. /\ mark'.top = blockRows'[1].num /\ mark'.top \in Nat
          /\ mark'.next = blockRows'[Len(blockRows')].num /\ mark'.next \in Nat /\ mark'.next >= 1
      BY <1>4, <2>6, <3>2, <3>3, <3>4
    <3>8. PageOK'
      BY <1>1, <2>6, <3>2, <3>5, <3>6, <3>7, JoinKeepsPage
    <3> QED
      BY <1>2, <3>8
  <2> QED
    BY <2>7, <2>8
<1> QED
  BY <1>5, <1>6

LEMMA DeliverOK ==
    ASSUME PageOK, CallsOK, KeptOK, NEW k \in Calls, Deliver(k), ~mixed'
    PROVE  PageOK' /\ CallsOK' /\ KeptOK'
<1>1. PICK q, a, new : /\ call[k] = <<q, a, new>> /\ QueryOK(k, a.query) /\ AnswerOK(a)
                       /\ surface = "telegram" /\ a.query.kind = "after" => ~a.more
                       /\ q = AnyBlock => a.query = AnyBlock
  <2>1. CallOK(k) /\ Len(call[k]) = 3
    BY DEF CallsOK, Deliver
  <2>2. call[k] # Idle
    BY <2>1 DEF Idle
  <2>3. ASSUME NEW p, call[k] = <<p>> PROVE FALSE
    BY <2>1, <2>3
  <2> QED
    BY <2>1, <2>2, <2>3, Zenon DEF CallOK
<1>2. call[k][1] = q /\ call[k][2] = a /\ call[k] # Idle
  BY <1>1 DEF Idle
<1>3. surface' = surface
  BY DEF Deliver
<1>4. KeptOK'
  <2>1. kept' \subseteq kept \cup {a}
    BY <1>2 DEF Deliver
  <2> QED
    BY <1>1, <2>1 DEF KeptOK
<1>5. (CASE a.query.kind = "after" -> AddNewer(a)
         [] a.query.kind = "before" -> AddOlder(a)
         [] OTHER -> TakeList(k, a))
  BY <1>2, Zenon DEF Deliver
<1>6. /\ a.query.kind \in {"any", "before", "after", "down"}
      /\ a.query.kind = "after" => k = "newer"
      /\ a.query.kind = "before" => k = "older"
  BY <1>1, KindsAre
<1>7. CASE a.query.kind = "after"
  <2>1. AddNewer(a) /\ k = "newer"
    BY <1>5, <1>6, <1>7
  <2>2. blockRows # <<>>
    <3>1. q # AnyBlock
      BY <1>1, <1>7 DEF AnyBlock, Query
    <3> QED
      BY <1>2, <2>1, <3>1 DEF PageOK
  <2> QED
    BY <1>1, <1>3, <1>4, <1>7, <2>1, <2>2, NewerOK
<1>8. CASE a.query.kind = "before"
  <2>1. AddOlder(a) /\ k = "older"
    BY <1>5, <1>6, <1>8
  <2> QED
    BY <1>1, <1>2, <1>3, <1>4, <2>1, OlderOK
<1>9. CASE a.query.kind \in {"any", "down"}
  <2>1. TakeList(k, a)
    BY <1>5, <1>9
  <2> QED
    BY <1>1, <1>3, <1>4, <1>9, <2>1, TakeOK
<1> QED
  BY <1>6, <1>7, <1>8, <1>9

LEMMA ListStep == ListInv /\ [BlockListNext]_blockListVars => ListInv'
<1> SUFFICES ASSUME ListInv, [BlockListNext]_blockListVars PROVE ListInv'
  OBVIOUS
<1>1. TableOK /\ TableOK'
  BY TableKeeps DEF ListInv
<1>2. CASE mixed' \/ short'
  BY <1>1, <1>2, Zenon DEF ListInv
<1>3. CASE ~mixed' /\ ~short'
  <2>1. PageOK /\ CallsOK /\ KeptOK
    BY <1>3, BadStays, Zenon DEF ListInv
  <2>2. CASE CollectChunk \/ Disconnect \/ Announce \/ Lapse
    BY <1>1, <2>1, <2>2, QuietOK, Zenon DEF ListInv
  <2>3. CASE AskNewer \/ AskOlder \/ AskBack
    BY <1>1, <2>1, <2>3, AsksOK, Zenon DEF ListInv
  <2>4. CASE OpenRow
    BY <1>1, <2>1, <2>4, OpenOK, Zenon DEF ListInv
  <2>5. ASSUME NEW k \in Calls, ServeBlocks(k) PROVE ListInv'
    BY <1>1, <1>3, <2>1, <2>5, ServeOK, Zenon DEF ListInv
  <2>6. ASSUME NEW k \in Calls, Deliver(k) PROVE ListInv'
    BY <1>1, <1>3, <2>1, <2>6, DeliverOK, Zenon DEF ListInv
  <2>7. CASE UNCHANGED blockListVars
    <3>1. UNCHANGED <<surface, blockRows, mark, opened, call, back, kept>>
      BY <2>7 DEF blockListVars, tabVars
    <3>2. PageOK'
      BY <2>1, <3>1 DEF PageOK, RestoredToRow
    <3>3. CallsOK' /\ KeptOK'
      BY <2>1, <3>1 DEF CallsOK, CallOK, QueryOK, KeptOK
    <3> QED
      BY <1>1, <3>2, <3>3, Zenon DEF ListInv
  <2> QED
    BY <2>2, <2>3, <2>4, <2>5, <2>6, <2>7, Zenon DEF BlockListNext
<1> QED
  BY <1>2, <1>3, Zenon

\* The list that a page of blocks shows has every height between its first row and its last
\* once, and after Back reaches down to the row that was opened, for any sizes of batches
\* and lists, chunks and reorgs, and whatever is answered from memory and when; but for the
\* two gaps the property names (main.go appBlocks, max/app.html blocklist).
THEOREM ListWhole == BlockListSpec => []ListWithoutGap
<1>1. ListInv => ListWithoutGap
  <2>1. ASSUME PageOK PROVE Contiguous /\ RestoredToRow
    <3>1. Run(blockRows) /\ blockRows \in Seq(ListRows)
      BY <2>1 DEF PageOK, Run
    <3>2. ASSUME NEW i \in 1..(Len(blockRows) - 1) PROVE blockRows[i].num = blockRows[i + 1].num + 1
      <4>1. Len(blockRows) \in Nat /\ DOMAIN blockRows = 1..Len(blockRows) /\ i \in Nat /\ i \in DOMAIN blockRows
            /\ i + 1 \in DOMAIN blockRows /\ 1 \in DOMAIN blockRows
        BY <3>1
      <4>2. blockRows[1] \in ListRows
        BY <3>1, <4>1
      <4>3. blockRows[1].num \in Nat
        BY <4>2 DEF ListRows
      <4>4. blockRows[i].num = blockRows[1].num + 1 - i /\ blockRows[i + 1].num = blockRows[1].num + 1 - (i + 1)
        BY <3>1, <4>1 DEF Run
      <4> QED
        BY <4>1, <4>3, <4>4
    <3> QED
      BY <2>1, <3>2 DEF Contiguous, PageOK
  <2> QED
    BY <2>1, Zenon DEF ListInv, ListWithoutGap
<1> QED
  BY <1>1, ListInit, ListStep, PTL DEF BlockListSpec

-----------------------------------------------------------------------------
(* PutsOnTop of which the newest row comes first.                              *)

Row == [seq : Nat, tx : Nat]

\* The newest row comes first.
Descending(s) == \A i, j \in DOMAIN s : i < j => s[i].seq > s[j].seq /\ s[i].tx > s[j].tx

LEMMA UpTo == ASSUME NEW n \in Nat PROVE IsFiniteSet(1..n) /\ Cardinality(1..n) = n
BY FS_Interval

\* Some of the positions of a finite sequence, all there are up to the last of them.
LEMMA FirstOnes ==
    ASSUME NEW n \in Nat, NEW D \in SUBSET (1..n), \A i \in D, j \in 1..n : j < i => j \in D
    PROVE  /\ Cardinality(D) \in Nat /\ Cardinality(D) <= n
           /\ D = 1..Cardinality(D)
<1> DEFINE k == Cardinality(D)
<1>1. IsFiniteSet(1..n) /\ Cardinality(1..n) = n
  BY FS_Interval
<1>2. IsFiniteSet(D) /\ k <= n
  BY <1>1, FS_Subset
<1>3. k \in Nat
  BY <1>2, FS_CardinalityType
<1>4. \A i \in D : i <= k
  <2> SUFFICES ASSUME NEW i \in D PROVE i <= k
    OBVIOUS
  <2>1. i \in 1..n /\ 1..i \in SUBSET D
    OBVIOUS
  <2>2. Cardinality(1..i) = i
    BY <2>1, FS_Interval
  <2> QED
    BY <1>2, <2>1, <2>2, FS_Subset
<1>5. IsFiniteSet(1..k) /\ Cardinality(1..k) = k
  BY <1>3, FS_Interval
<1>6. D \in SUBSET (1..k)
  BY <1>4
<1>7. D = 1..k
  BY <1>5, <1>6, FS_Subset
<1> QED
  BY <1>2, <1>3, <1>7

\* The rows above one are as many as its place says.
LEMMA PlaceIs ==
    ASSUME NEW s \in Seq(Row), Descending(s), NEW i \in DOMAIN s
    PROVE  Cardinality({r \in Range(s) : r.seq > s[i].seq}) = i - 1
<1> DEFINE A == {r \in Range(s) : r.seq > s[i].seq}
           f == [k \in 1..(i - 1) |-> s[k]]
<1>1. DOMAIN s = 1..Len(s) /\ Len(s) \in Nat /\ i \in 1..Len(s) /\ \A k \in DOMAIN s : s[k] \in Row
  OBVIOUS
<1>2. \A k \in DOMAIN s : s[k].seq \in Nat
  BY <1>1 DEF Row
<1>3. \A k \in 1..(i - 1) : k \in DOMAIN s /\ f[k] \in A
  BY <1>1 DEF Descending, Range
<1>4. f \in Injection(1..(i - 1), A)
  <2>1. \A k, m \in 1..(i - 1) : s[k] = s[m] => k = m
    <3> SUFFICES ASSUME NEW k \in 1..(i - 1), NEW m \in 1..(i - 1), s[k] = s[m], k < m PROVE FALSE
      BY <1>1
    <3>1. s[k].seq > s[m].seq
      BY <1>3 DEF Descending
    <3> QED
      BY <1>2, <1>3, <3>1
  <2>2. f \in [1..(i - 1) -> A]
    BY <1>3
  <2> QED
    BY <2>1, <2>2 DEF Injection, IsInjective
<1>5. f \in Surjection(1..(i - 1), A)
  <2>1. ASSUME NEW r \in A PROVE \E k \in 1..(i - 1) : f[k] = r
    <3>1. PICK k \in DOMAIN s : s[k] = r
      BY DEF Range
    <3>2. s[k].seq > s[i].seq
      BY <3>1
    <3>3. ~(i < k) /\ i # k
      BY <1>1, <1>2, <3>2 DEF Descending
    <3>4. k \in 1..(i - 1)
      BY <1>1, <3>3
    <3> QED
      BY <3>1, <3>4
  <2> QED
    BY <1>4, <2>1 DEF Injection, Surjection
<1>6. ExistsBijection(1..(i - 1), A)
  BY <1>4, <1>5 DEF ExistsBijection, Bijection
<1>7. IsFiniteSet(1..(i - 1)) /\ Cardinality(1..(i - 1)) = i - 1
  <2>1. 1 \in Int /\ i - 1 \in Int /\ i - 1 >= 0
    BY <1>1
  <2>2. IsFiniteSet(1..(i - 1)) /\ Cardinality(1..(i - 1)) = IF 1 > i - 1 THEN 0 ELSE (i - 1) - 1 + 1
    BY <2>1, FS_Interval
  <2> QED
    BY <2>1, <2>2
<1> HIDE DEF A
<1>8. Cardinality(A) = i - 1
  BY <1>6, <1>7, FS_Bijection
<1> QED
  BY <1>8 DEF A

\* A list whose rows another has, and has nothing else above them, is how the other begins.
LEMMA BeginsWith ==
    ASSUME NEW s \in Seq(Row), NEW t \in Seq(Row), Descending(s), Descending(t),
           Range(s) \subseteq Range(t),
           \A r \in Range(t), i \in DOMAIN s : s[i].seq <= r.seq => r \in Range(s)
    PROVE  Len(s) <= Len(t) /\ \A i \in DOMAIN s : t[i] = s[i]
<1>1. ASSUME NEW i \in DOMAIN s PROVE i \in DOMAIN t /\ t[i] = s[i]
  <2>1. PICK j \in DOMAIN t : t[j] = s[i]
    BY DEF Range
  <2>2. {r \in Range(t) : r.seq > t[j].seq} = {r \in Range(s) : r.seq > s[i].seq}
    <3>1. s[i] \in Row /\ \A k \in DOMAIN t : t[k] \in Row
      OBVIOUS
    <3>2. s[i].seq \in Nat /\ \A k \in DOMAIN t : t[k].seq \in Nat
      BY <3>1 DEF Row
    <3>3. \A r \in Range(t) : r.seq \in Nat
      BY <3>2 DEF Range
    <3> QED
      BY <2>1, <3>2, <3>3
  <2>3. j - 1 = i - 1
    BY <2>2, PlaceIs
  <2>4. i \in Int /\ j \in Int
    OBVIOUS
  <2> QED
    BY <2>1, <2>3, <2>4
<1>2. Len(s) <= Len(t)
  <2>1. CASE Len(s) = 0
    BY <2>1
  <2>2. CASE Len(s) # 0
    <3>1. Len(s) \in DOMAIN s
      BY <2>2
    <3> QED
      BY <1>1, <3>1
  <2> QED
    BY <2>1, <2>2
<1> QED
  BY <1>1, <1>2

\* What s has at some of its positions, in its order.
LEMMA PickedIs ==
    ASSUME NEW R, NEW s \in Seq(R), NEW ps \in SUBSET DOMAIN s
    PROVE  /\ Picked(s, ps) \in Seq(R)
           /\ \A i \in DOMAIN Picked(s, ps) : NthOf(ps, i) \in ps /\ Picked(s, ps)[i] = s[NthOf(ps, i)]
           /\ \A i, j \in DOMAIN Picked(s, ps) : i < j => NthOf(ps, i) < NthOf(ps, j)
           /\ \A p \in ps : \E i \in DOMAIN Picked(s, ps) : NthOf(ps, i) = p
<1> DEFINE n == Cardinality(ps)
           Under(p) == {q \in ps : q < p}
           f == [p \in ps |-> Cardinality(Under(p)) + 1]
<1>1. Len(s) \in Nat /\ DOMAIN s = 1..Len(s) /\ ps \subseteq Int
  OBVIOUS
<1>2. IsFiniteSet(ps) /\ n \in Nat
  <2>1. IsFiniteSet(1..Len(s)) /\ ps \in SUBSET (1..Len(s))
    BY <1>1, FS_Interval
  <2>2. IsFiniteSet(ps)
    BY <2>1, FS_Subset
  <2> QED
    BY <2>2, FS_CardinalityType
<1>3. \A p \in ps : IsFiniteSet(Under(p)) /\ Cardinality(Under(p)) \in Nat
  BY <1>2, FS_Subset, FS_CardinalityType
<1>4. ASSUME NEW p \in ps, NEW q \in ps, p < q PROVE Cardinality(Under(p)) < Cardinality(Under(q))
  <2>1. Under(p) \in SUBSET Under(q)
    BY <1>1, <1>4
  <2>2. p \in Under(q) /\ p \notin Under(p)
    BY <1>1, <1>4
  <2>3. Under(p) # Under(q)
    BY <2>2
  <2> HIDE DEF Under
  <2> QED
    BY <1>3, <2>1, <2>3, FS_Subset
<1>5. ASSUME NEW p \in ps PROVE Cardinality(Under(p)) + 1 \in 1..n
  <2>1. Under(p) \in SUBSET ps /\ Under(p) # ps
    BY <1>1
  <2> HIDE DEF Under
  <2> QED
    BY <1>2, <1>3, <2>1, FS_Subset
<1>6. f \in Injection(ps, 1..n)
  <2>1. \A p, q \in ps : f[p] = f[q] => p = q
    <3>1. ASSUME NEW p \in ps, NEW q \in ps, p < q PROVE f[p] # f[q]
      <4>1. f[p] = Cardinality(Under(p)) + 1 /\ f[q] = Cardinality(Under(q)) + 1
        OBVIOUS
      <4> HIDE DEF Under, f
      <4> QED
        BY <1>3, <1>4, <3>1, <4>1
    <3> HIDE DEF f
    <3> QED
      BY <1>1, <3>1
  <2> HIDE DEF Under
  <2> QED
    BY <1>5, <2>1 DEF Injection, IsInjective
<1>7. f \in Surjection(ps, 1..n)
  <2>1. IsFiniteSet(1..n) /\ Cardinality(1..n) = n
    BY <1>2, FS_Interval
  <2> HIDE DEF f
  <2> QED
    BY <1>6, <2>1, FS_Injection
<1>8. ASSUME NEW i \in 1..n PROVE NthOf(ps, i) \in ps /\ f[NthOf(ps, i)] = i
  <2>1. \E p \in ps : f[p] = i
    BY <1>7 DEF Surjection
  <2>2. \A p \in ps : f[p] = Cardinality({q \in ps : q < p}) + 1
    OBVIOUS
  <2>3. \E p \in ps : Cardinality({q \in ps : q < p}) = i - 1
    <3>1. PICK p \in ps : f[p] = i
      BY <2>1
    <3>2. Cardinality(Under(p)) + 1 = i /\ Cardinality(Under(p)) \in Nat
      BY <1>3, <3>1
    <3>3. Cardinality(Under(p)) = i - 1
      <4> HIDE DEF Under
      <4> QED
        BY <3>2
    <3> QED
      BY <3>3
  <2>4. NthOf(ps, i) \in ps /\ Cardinality({q \in ps : q < NthOf(ps, i)}) = i - 1
    BY <2>3 DEF NthOf
  <2> QED
    BY <2>2, <2>4
<1> HIDE DEF f, n
<1>9. \A i \in 1..n : s[NthOf(ps, i)] \in R
  BY <1>8
<1>10. Picked(s, ps) = [i \in 1..n |-> s[NthOf(ps, i)]]
  BY DEF Picked, n
<1>11. Picked(s, ps) \in Seq(R) /\ DOMAIN Picked(s, ps) = 1..n
  BY <1>2, <1>9, <1>10
<1>12. \A i, j \in 1..n : i < j => NthOf(ps, i) < NthOf(ps, j)
  <2> SUFFICES ASSUME NEW i \in 1..n, NEW j \in 1..n, i < j, ~(NthOf(ps, i) < NthOf(ps, j)) PROVE FALSE
    OBVIOUS
  <2> DEFINE p == NthOf(ps, i)
             q == NthOf(ps, j)
  <2>1. p \in ps /\ q \in ps /\ f[p] = i /\ f[q] = j
    BY <1>8
  <2>2. q < p
    <3>1. p # q
      BY <2>1
    <3> QED
      BY <1>1, <2>1, <3>1
  <2> HIDE DEF p, q
  <2>3. f[q] < f[p]
    <3>1. f[p] = Cardinality(Under(p)) + 1 /\ f[q] = Cardinality(Under(q)) + 1
      BY <2>1 DEF f
    <3>2. Cardinality(Under(q)) < Cardinality(Under(p))
      BY <1>4, <2>1, <2>2
    <3> HIDE DEF Under
    <3> QED
      BY <1>3, <2>1, <3>1, <3>2
  <2> QED
    BY <2>1, <2>3
<1>13. \A p \in ps : \E i \in 1..n : NthOf(ps, i) = p
  <2> SUFFICES ASSUME NEW p \in ps PROVE \E i \in 1..n : NthOf(ps, i) = p
    OBVIOUS
  <2>1. f[p] \in 1..n /\ f[NthOf(ps, f[p])] = f[p] /\ NthOf(ps, f[p]) \in ps
    BY <1>6, <1>8 DEF Injection
  <2> QED
    BY <1>6, <2>1 DEF Injection, IsInjective
<1> QED
  BY <1>8, <1>10, <1>11, <1>12, <1>13

-----------------------------------------------------------------------------
(* The live list.                                                          *)

LiveTypes ==
    /\ arrived \in Nat /\ pool \subseteq 1..arrived /\ frames \in Seq(0..arrived)
    /\ seq \in Nat /\ burst \in BOOLEAN
    /\ list \in Seq([seq : Nat, tx : 1..arrived])

Listed(t) == \E i \in DOMAIN list : list[i].tx = t

\* A transaction is published when it arrives and once more when it is mined;
\* it is not listed while the first of its frames is still to be read.
AtMostTwo ==
    \A i, j, k \in DOMAIN frames : i < j /\ j < k /\ frames[i] = frames[j] /\ frames[j] = frames[k] => frames[i] = Coinbase

Unread ==
    /\ \A i \in DOMAIN frames : frames[i] \in pool => ~Listed(frames[i])
    /\ \A i, j \in DOMAIN frames : i < j /\ frames[i] = frames[j] /\ frames[i] # Coinbase =>
          frames[i] \notin pool /\ ~Listed(frames[i])

\* The last frame of a mined transaction is behind its block's coinbase, or the
\* burst that this coinbase began is on.
Marked ==
    \A i \in DOMAIN frames :
        frames[i] = Coinbase \/ frames[i] \in pool \/ burst
        \/ (\E j \in DOMAIN frames : i < j /\ frames[j] = frames[i])
        \/ (\E h \in DOMAIN frames : h < i /\ frames[h] = Coinbase)

ListedOnce == \A i, j \in DOMAIN list : list[i].tx = list[j].tx => i = j

LiveInv == LiveTypes /\ AtMostTwo /\ Unread /\ Marked /\ ListedOnce /\ ListedUnmined

LEMMA LiveInitOK == LiveInit => LiveInv
<1> SUFFICES ASSUME LiveInit PROVE LiveInv
  OBVIOUS
<1>1. arrived = 0 /\ pool = {} /\ frames = <<>> /\ list = <<>> /\ seq = 0 /\ burst \in BOOLEAN
  BY DEF LiveInit
<1>2. LiveTypes
  BY <1>1 DEF LiveTypes
<1> QED
  BY <1>1, <1>2 DEF LiveInv, AtMostTwo, Unread, Marked, ListedOnce, ListedUnmined

\* SetToSeq lists every element of a finite set, once.
LEMMA SetToSeqIs ==
    ASSUME NEW S, IsFiniteSet(S)
    PROVE  /\ SetToSeq(S) \in Seq(S)
           /\ \A i, j \in DOMAIN SetToSeq(S) : SetToSeq(S)[i] = SetToSeq(S)[j] => i = j
           /\ \A x \in S : \E i \in DOMAIN SetToSeq(S) : SetToSeq(S)[i] = x
<1> DEFINE n == Cardinality(S)
           f == SetToSeq(S)
<1>1. n \in Nat /\ ExistsBijection(1..n, S)
  BY FS_CardinalityType
<1>2. \E g \in [1..n -> S] : IsInjective(g)
  BY <1>1 DEF ExistsBijection, Bijection, Injection
<1>3. f \in [1..n -> S] /\ IsInjective(f)
  BY <1>2 DEF SetToSeq
<1>4. f \in Seq(S)
  BY <1>1, <1>3
<1>5. f \in Injection(1..n, S)
  BY <1>3 DEF Injection
<1>6. Cardinality(1..n) = n
  BY <1>1, FS_Interval
<1>7. f \in Surjection(1..n, S)
  BY <1>1, <1>5, <1>6, FS_Injection
<1> QED
  BY <1>3, <1>4, <1>7 DEF IsInjective, Surjection

Rows == [seq : Nat, tx : 1..arrived]

\* A row of the list is of a transaction that has arrived.
LEMMA RowTx == ASSUME LiveTypes, NEW i \in DOMAIN list PROVE list[i].tx \in 1..arrived
<1>1. list \in Seq(Rows)
  BY DEF LiveTypes, Rows
<1>2. list[i] \in Rows
  BY <1>1
<1> QED
  BY <1>2 DEF Rows

\* Removing a listed transaction leaves the others, in their order and once each.
LEMMA WithoutIs ==
    ASSUME LiveTypes, ListedOnce, NEW t, Listed(t)
    PROVE  /\ Without(t) \in Seq(Rows)
           /\ \A i \in DOMAIN Without(t) : Without(t)[i].tx # t /\ Listed(Without(t)[i].tx)
           /\ \A i, j \in DOMAIN Without(t) : Without(t)[i].tx = Without(t)[j].tx => i = j
           /\ Len(Without(t)) = Len(list) - 1
           /\ Range(Without(t)) = {r \in Range(list) : r.tx # t}
           /\ Descending(list) => Descending(Without(t))
<1> DEFINE c == CHOOSE i \in Positions(t) : \A j \in Positions(t) : i <= j
           w == Without(t)
<1>0. list \in Seq(Rows)
  BY DEF LiveTypes, Rows
<1>1. PICK p \in DOMAIN list : list[p].tx = t
  BY DEF Listed
<1>2. p \in Positions(t) /\ \A j \in Positions(t) : p = j
  BY <1>1 DEF Positions, ListedOnce
<1>3. Positions(t) = {p} /\ p \in Int
  BY <1>0, <1>2
<1>4. c = p
  BY <1>3
<1>5. w = SubSeq(list, 1, p - 1) \o SubSeq(list, p + 1, Len(list))
  BY <1>4 DEF Without, RemoveAt
<1>6. /\ w \in Seq(Rows) /\ Len(w) = Len(list) - 1
      /\ \A i \in DOMAIN w : w[i] = IF i < p THEN list[i] ELSE list[i + 1]
  <2> DEFINE a == SubSeq(list, 1, p - 1)
             b == SubSeq(list, p + 1, Len(list))
  <2>1. p \in 1..Len(list) /\ Len(list) \in Nat
    BY <1>0, <1>3
  <2>2. a \in Seq(Rows) /\ Len(a) = p - 1 /\ \A i \in 1..(p - 1) : a[i] = list[i]
    BY <1>0, <2>1
  <2>3. b \in Seq(Rows) /\ Len(b) = Len(list) - p /\ \A i \in 1..(Len(list) - p) : b[i] = list[p + i]
    BY <1>0, <2>1
  <2> HIDE DEF a, b
  <2>4. /\ a \o b \in Seq(Rows) /\ Len(a \o b) = Len(a) + Len(b)
        /\ \A i \in 1..(Len(a) + Len(b)) : (a \o b)[i] = IF i <= Len(a) THEN a[i] ELSE b[i - Len(a)]
    BY <2>2, <2>3, ConcatProperties
  <2>6. w = a \o b
    BY <1>5 DEF a, b
  <2>7. \A i \in 1..(Len(list) - 1) : w[i] = IF i < p THEN list[i] ELSE list[i + 1]
    <3> SUFFICES ASSUME NEW i \in 1..(Len(list) - 1) PROVE w[i] = IF i < p THEN list[i] ELSE list[i + 1]
      OBVIOUS
    <3>1. i \in 1..(Len(a) + Len(b)) /\ w[i] = IF i <= p - 1 THEN a[i] ELSE b[i - (p - 1)]
      <4>1. Len(a) = p - 1 /\ Len(b) = Len(list) - p
        BY <2>2, <2>3
      <4>2. i \in 1..(Len(a) + Len(b))
        BY <2>1, <4>1
      <4>3. w[i] = IF i <= Len(a) THEN a[i] ELSE b[i - Len(a)]
        BY <2>4, <2>6, <4>2
      <4> QED
        BY <4>1, <4>2, <4>3
    <3>2. CASE i < p
      BY <2>1, <2>2, <3>1, <3>2
    <3>3. CASE ~(i < p)
      <4>1. i - (p - 1) \in 1..(Len(list) - p) /\ w[i] = b[i - (p - 1)]
        BY <2>1, <3>1, <3>3
      <4>2. p + (i - (p - 1)) = i + 1
        BY <2>1
      <4>3. w[i] = list[i + 1]
        BY <2>3, <4>1, <4>2
      <4> QED
        BY <3>3, <4>3
    <3> QED
      BY <3>2, <3>3
  <2>8. w \in Seq(Rows) /\ Len(w) = Len(list) - 1
    BY <2>1, <2>2, <2>3, <2>4, <2>6
  <2> QED
    BY <2>7, <2>8
<1>7. \A i \in DOMAIN w : \E q \in DOMAIN list : q # p /\ w[i] = list[q]
  BY <1>0, <1>3, <1>6
<1>8. \A i \in DOMAIN w : w[i].tx # t /\ Listed(w[i].tx)
  BY <1>1, <1>7 DEF ListedOnce, Listed
<1>9. \A i, j \in DOMAIN w : w[i].tx = w[j].tx => i = j
  BY <1>0, <1>3, <1>6 DEF ListedOnce
<1> HIDE DEF w, c
<1>10. Range(w) = {r \in Range(list) : r.tx # t}
  <2>1. ASSUME NEW k \in DOMAIN list, list[k].tx # t PROVE \E i \in DOMAIN w : w[i] = list[k]
    <3>1. k \in 1..Len(list) /\ k # p /\ DOMAIN w = 1..(Len(list) - 1) /\ Len(list) \in Nat /\ p \in 1..Len(list)
      BY <1>0, <1>1, <1>6, <2>1
    <3>2. CASE k < p
      BY <1>6, <3>1, <3>2
    <3>3. CASE k > p
      <4>1. k - 1 \in DOMAIN w /\ ~(k - 1 < p) /\ (k - 1) + 1 = k
        BY <3>1, <3>3
      <4> QED
        BY <1>6, <4>1
    <3> QED
      BY <3>1, <3>2, <3>3
  <2> QED
    BY <1>1, <1>7, <1>8, <2>1 DEF Range
<1>11. Descending(list) => Descending(w)
  <2> SUFFICES ASSUME Descending(list), NEW i \in DOMAIN w, NEW j \in DOMAIN w, i < j
               PROVE  w[i].seq > w[j].seq /\ w[i].tx > w[j].tx
    BY DEF Descending
  <2> DEFINE a == IF i < p THEN i ELSE i + 1
             b == IF j < p THEN j ELSE j + 1
  <2>1. a \in DOMAIN list /\ b \in DOMAIN list /\ a < b
    BY <1>0, <1>3, <1>6
  <2>2. w[i] = list[a] /\ w[j] = list[b]
    BY <1>6
  <2> HIDE DEF a, b
  <2> QED
    BY <2>1, <2>2 DEF Descending
<1> QED
  BY <1>6, <1>8, <1>9, <1>10, <1>11 DEF w

\* What filing a frame does to the list.
LEMMA FileList ==
    ASSUME LiveInv, NEW t \in 0..arrived, File(t), ~burst /\ t # Coinbase => ~Listed(t)
    PROVE  /\ seq' \in Nat /\ burst' \in BOOLEAN /\ list' \in Seq(Rows) /\ ListedOnce'
           /\ \A i \in DOMAIN list' : Listed(list'[i].tx) \/ (list'[i].tx = t /\ ~burst /\ t # Coinbase)
           /\ t # Coinbase /\ burst => \A i \in DOMAIN list' : list'[i].tx # t
           /\ IF t = Coinbase THEN burst' = TRUE ELSE burst' = burst
<1> USE DEF LiveInv, LiveTypes, ListedOnce, Coinbase
<1>0. list \in Seq(Rows) /\ \A i \in DOMAIN list : Listed(list[i].tx)
  BY DEF Rows, Listed
<1>1. CASE t = Coinbase
  BY <1>0, <1>1 DEF File
<1>2. CASE t # Coinbase /\ burst
  <2>1. RemoveMined(t) /\ burst' = burst
    BY <1>2 DEF File
  <2>2. CASE Positions(t) = {}
    <3>1. list' = list /\ seq' = seq /\ \A i \in DOMAIN list : list[i].tx # t
      BY <2>1, <2>2 DEF RemoveMined, Positions
    <3> QED
      BY <1>0, <1>2, <2>1, <3>1
  <2>3. CASE Positions(t) # {}
    <3>1. list' = Without(t) /\ seq' = seq + 1 /\ Listed(t)
      BY <2>1, <2>3 DEF RemoveMined, Positions, Listed
    <3>2. /\ Without(t) \in Seq(Rows)
          /\ \A i \in DOMAIN Without(t) : Without(t)[i].tx # t /\ Listed(Without(t)[i].tx)
          /\ \A i, j \in DOMAIN Without(t) : Without(t)[i].tx = Without(t)[j].tx => i = j
      BY <3>1, WithoutIs
    <3> QED
      BY <1>2, <2>1, <3>1, <3>2
  <2> QED
    BY <2>2, <2>3
<1>3. CASE t # Coinbase /\ ~burst
  <2> DEFINE e == [seq |-> seq + 1, tx |-> t]
             l == <<e>> \o list
  <2>1. ListArrival(t) /\ burst' = burst
    BY <1>3 DEF File
  <2>2. e \in Rows /\ e.tx = t
    BY <1>3 DEF Rows
  <2>3. l \in Seq(Rows) /\ Len(l) = Len(list) + 1 /\ \A i \in DOMAIN l : l[i] = IF i = 1 THEN e ELSE list[i - 1]
    BY <1>0, <2>2
  <2>4. seq' = seq + 1 /\ (list' = l \/ list' = SubSeq(l, 1, Len(l) - 1))
    BY <2>1 DEF ListArrival, Front
  <2>5. /\ list' \in Seq(Rows)
        /\ \A i \in DOMAIN list' : i \in DOMAIN l /\ list'[i] = l[i]
    <3> HIDE DEF l
    <3>1. Len(list) \in Nat
      BY <1>0
    <3>2. CASE list' = l
      BY <2>3, <3>2
    <3>3. CASE list' = SubSeq(l, 1, Len(l) - 1)
      BY <2>3, <3>1, <3>3
    <3> QED
      BY <2>4, <3>2, <3>3
  <2>6. \A i \in DOMAIN l : l[i].tx = t \/ Listed(l[i].tx)
    BY <1>0, <2>2, <2>3
  <2>7. \A i, j \in DOMAIN l : l[i].tx = l[j].tx => i = j
    <3> HIDE DEF l, e
    <3>1. Len(list) \in Nat /\ DOMAIN list = 1..Len(list) /\ DOMAIN l = 1..(Len(list) + 1)
      BY <1>0, <2>3
    <3>2. \A i \in DOMAIN list : list[i].tx # t
      BY <1>3 DEF Listed
    <3>3. \A i \in DOMAIN l : i # 1 => i - 1 \in DOMAIN list /\ l[i] = list[i - 1]
      BY <2>3, <3>1
    <3>4. l[1].tx = t
      <4>1. 1 \in DOMAIN l
        BY <3>1
      <4>2. l[1] = e
        BY <2>3, <4>1
      <4> QED
        BY <2>2, <4>2
    <3>5. ASSUME NEW i \in DOMAIN l, NEW j \in DOMAIN l, l[i].tx = l[j].tx, i # 1 PROVE i = j
      <4>1. j # 1 /\ list[i - 1].tx = list[j - 1].tx
        BY <3>2, <3>3, <3>4, <3>5
      <4>2. i - 1 \in DOMAIN list /\ j - 1 \in DOMAIN list
        BY <3>3, <3>5, <4>1
      <4>3. i - 1 = j - 1
        BY <4>1, <4>2
      <4> QED
        BY <3>1, <4>3
    <3> QED
      BY <3>2, <3>3, <3>4, <3>5
  <2> HIDE DEF l, e
  <2> QED
    BY <1>3, <2>1, <2>4, <2>5, <2>6, <2>7
<1> QED
  BY <1>1, <1>2, <1>3

\* Reading a frame: the others move up by one.
LEMMA RecordKeeps == ASSUME LiveInv, Record PROVE LiveInv'
<1> DEFINE t == Head(frames)
<1> USE DEF LiveInv, Coinbase
<1>0. /\ frames \in Seq(0..arrived) /\ frames # <<>> /\ arrived \in Nat /\ t = frames[1] /\ t \in 0..arrived
      /\ arrived' = arrived /\ pool' = pool /\ File(t)
  BY DEF Record, LiveTypes, coreVars
<1>1. /\ frames' \in Seq(0..arrived) /\ Len(frames) \in Nat /\ DOMAIN frames = 1..Len(frames)
      /\ DOMAIN frames' = 1..(Len(frames) - 1)
      /\ \A i \in DOMAIN frames' : i + 1 \in DOMAIN frames /\ frames'[i] = frames[i + 1]
  BY <1>0 DEF Record
<1> HIDE DEF t
<1>2. 1 \in DOMAIN frames /\ \A i \in DOMAIN frames : i # 1 => i - 1 \in DOMAIN frames' /\ frames'[i - 1] = frames[i]
  BY <1>0, <1>1
<1>3. \A i \in DOMAIN frames' : frames'[i] = t /\ t # 0 => t \notin pool /\ ~Listed(t)
  <2> SUFFICES ASSUME NEW i \in DOMAIN frames', frames'[i] = t, t # 0 PROVE t \notin pool /\ ~Listed(t)
    OBVIOUS
  <2>1. i + 1 \in DOMAIN frames /\ frames[i + 1] = frames[1] /\ 1 < i + 1 /\ 1 \in DOMAIN frames
    BY <1>0, <1>1, <1>2
  <2> QED
    BY <1>0, <2>1 DEF Unread
<1>4. ASSUME ~burst, t # 0, t \notin pool PROVE \E j \in DOMAIN frames : 1 < j /\ frames[j] = t
  <2>1. \/ \E j \in DOMAIN frames : 1 < j /\ frames[j] = frames[1]
        \/ \E h \in DOMAIN frames : h < 1 /\ frames[h] = 0
    BY <1>0, <1>2, <1>4 DEF Marked
  <2>2. \A h \in DOMAIN frames : ~(h < 1)
    BY <1>1
  <2> QED
    BY <1>0, <2>1, <2>2
<1>4a. ~burst /\ t # 0 => ~Listed(t)
  <2> SUFFICES ASSUME ~burst, t # 0 PROVE ~Listed(t)
    OBVIOUS
  <2>1. CASE t \in pool
    BY <1>0, <1>2, <2>1 DEF Unread
  <2>2. CASE t \notin pool
    <3>1. PICK j \in DOMAIN frames : 1 < j /\ frames[j] = t
      BY <1>4, <2>2
    <3>2. j - 1 \in DOMAIN frames' /\ frames'[j - 1] = t
      BY <1>2, <3>1
    <3> QED
      BY <1>3, <2>2, <3>2
  <2> QED
    BY <2>1, <2>2
<1>5. /\ seq' \in Nat /\ burst' \in BOOLEAN /\ list' \in Seq(Rows) /\ ListedOnce'
      /\ \A i \in DOMAIN list' : Listed(list'[i].tx) \/ (list'[i].tx = t /\ ~burst /\ t # 0)
      /\ t # 0 /\ burst => \A i \in DOMAIN list' : list'[i].tx # t
      /\ IF t = 0 THEN burst' = TRUE ELSE burst' = burst
  BY <1>0, <1>4a, FileList
<1>6. LiveTypes'
  BY <1>0, <1>1, <1>5 DEF LiveTypes, Rows
<1>7. AtMostTwo'
  <2> SUFFICES ASSUME NEW i \in DOMAIN frames', NEW j \in DOMAIN frames', NEW k \in DOMAIN frames', i < j, j < k,
                      frames'[i] = frames'[j], frames'[j] = frames'[k]
               PROVE  frames'[i] = 0
    BY DEF AtMostTwo
  <2> QED
    BY <1>1 DEF AtMostTwo
<1>8. ASSUME NEW i \in DOMAIN frames', frames'[i] # t, ~Listed(frames[i + 1]), NEW n \in DOMAIN list' PROVE list'[n].tx # frames'[i]
  <2>1. frames'[i] = frames[i + 1]
    BY <1>1
  <2> QED
    BY <1>5, <1>8, <2>1
<1>9. Unread'
  <2>1. ASSUME NEW i \in DOMAIN frames', frames'[i] \in pool PROVE \A n \in DOMAIN list' : list'[n].tx # frames'[i]
    <3>1. i + 1 \in DOMAIN frames /\ frames[i + 1] \in pool /\ frames'[i] = frames[i + 1] /\ frames'[i] # 0
      BY <1>0, <1>1, <2>1 DEF LiveTypes
    <3>2. ~Listed(frames[i + 1]) /\ frames'[i] # t
      BY <1>3, <2>1, <3>1 DEF Unread
    <3> QED
      BY <1>8, <3>2
  <2>2. ASSUME NEW i \in DOMAIN frames', NEW j \in DOMAIN frames', i < j, frames'[i] = frames'[j], frames'[i] # 0
        PROVE  frames'[i] \notin pool /\ \A n \in DOMAIN list' : list'[n].tx # frames'[i]
    <3>1. /\ i + 1 \in DOMAIN frames /\ j + 1 \in DOMAIN frames /\ 1 \in DOMAIN frames /\ 1 < i + 1 /\ i + 1 < j + 1
          /\ frames[i + 1] = frames[j + 1] /\ frames'[i] = frames[i + 1]
      BY <1>1, <1>2, <2>2
    <3>2. frames'[i] # t
      BY <1>0, <2>2, <3>1 DEF AtMostTwo
    <3>3. frames'[i] \notin pool /\ ~Listed(frames[i + 1])
      BY <2>2, <3>1 DEF Unread
    <3> QED
      BY <1>8, <3>2, <3>3
  <2> QED
    BY <1>0, <2>1, <2>2 DEF Unread, Listed
<1>10. Marked'
  <2> SUFFICES ASSUME NEW i \in DOMAIN frames', frames'[i] # 0, frames'[i] \notin pool, ~burst',
                      ~\E j \in DOMAIN frames' : i < j /\ frames'[j] = frames'[i]
               PROVE  \E h \in DOMAIN frames' : h < i /\ frames'[h] = 0
    BY <1>0 DEF Marked
  <2>1. ~burst /\ t # 0
    BY <1>5
  <2>2. ~\E j \in DOMAIN frames : i + 1 < j /\ frames[j] = frames[i + 1]
    BY <1>1, <1>2
  <2>3. PICK h \in DOMAIN frames : h < i + 1 /\ frames[h] = 0
    BY <1>1, <2>1, <2>2 DEF Marked
  <2>4. h # 1
    BY <1>0, <2>1, <2>3
  <2> QED
    BY <1>1, <1>2, <2>3, <2>4
<1>11. ListedUnmined'
  <2> SUFFICES ASSUME NEW n \in DOMAIN list', list'[n].tx \notin pool
               PROVE  \E j \in DOMAIN frames' : frames'[j] = list'[n].tx
    BY <1>0 DEF ListedUnmined
  <2> DEFINE x == list'[n].tx
  <2>1. CASE x = t /\ ~burst /\ t # 0
    <3>1. \E j \in DOMAIN frames : 1 < j /\ frames[j] = t
      BY <1>0, <1>4, <2>1
    <3> QED
      BY <1>1, <1>2, <2>1, <3>1
  <2>2. CASE ~(x = t /\ ~burst /\ t # 0)
    <3>1. Listed(x)
      BY <1>5, <2>2
    <3>2. PICK j \in DOMAIN frames : frames[j] = x
      BY <3>1 DEF Listed, ListedUnmined
    <3>3. x # 0
      <4>1. PICK m \in DOMAIN list : list[m].tx = x
        BY <3>1 DEF Listed
      <4> QED
        BY <1>0, <4>1, RowTx
    <3>4. CASE j # 1
      BY <1>2, <3>2, <3>4
    <3>5. CASE j = 1
      <4>1. x = t
        BY <1>0, <3>2, <3>5
      <4>2. burst
        BY <2>2, <3>3, <4>1
      <4> QED
        BY <1>5, <3>3, <4>1, <4>2
    <3> QED
      BY <3>4, <3>5
  <2> QED
    BY <2>1, <2>2
<1> QED
  BY <1>5, <1>6, <1>7, <1>9, <1>10, <1>11

\* A transaction that arrives is behind every frame and not listed yet.
LEMMA ArriveKeeps == ASSUME LiveInv, Arrive PROVE LiveInv'
<1> DEFINE n == Len(frames)
           t == arrived + 1
<1> USE DEF LiveInv, Coinbase
<1>0. /\ frames \in Seq(0..arrived) /\ arrived \in Nat /\ pool \subseteq 1..arrived /\ list \in Seq([seq : Nat, tx : 1..arrived])
      /\ seq' = seq /\ burst' = burst /\ list' = list /\ seq \in Nat /\ burst \in BOOLEAN
      /\ arrived' = t /\ pool' = pool \cup {t} /\ frames' = Append(frames, t)
  BY DEF Arrive, LiveTypes, listVars
<1>1. n \in Nat /\ DOMAIN frames = 1..n
  BY <1>0
<1>2. DOMAIN frames' = 1..(n + 1) /\ frames'[n + 1] = t /\ \A i \in DOMAIN frames : frames'[i] = frames[i] /\ frames[i] # t
  BY <1>0
<1> HIDE DEF n
<1>3. LiveTypes'
  <2>1. 0..arrived \subseteq 0..t /\ [seq : Nat, tx : 1..arrived] \subseteq [seq : Nat, tx : 1..t] /\ t \in 0..t /\ pool' \subseteq 1..t
    BY <1>0
  <2>2. frames \in Seq(0..t) /\ list \in Seq([seq : Nat, tx : 1..t])
    <3> DEFINE A == 0..arrived
               B == 0..t
               R == [seq : Nat, tx : 1..arrived]
               Q == [seq : Nat, tx : 1..t]
    <3>1. A \subseteq B /\ R \subseteq Q /\ frames \in Seq(A) /\ list \in Seq(R)
      BY <1>0, <2>1
    <3> HIDE DEF A, B, R, Q
    <3>2. frames \in Seq(B) /\ list \in Seq(Q)
      BY <3>1, SeqMonotonic
    <3> QED
      BY <3>2 DEF B, Q
  <2>3. frames' \in Seq(0..t)
    BY <1>0, <2>1, <2>2
  <2> QED
    BY <1>0, <2>1, <2>2, <2>3 DEF LiveTypes
<1>4. \A i \in DOMAIN list : list[i].tx # t
  BY <1>0, RowTx
<1>5. AtMostTwo'
  <2> SUFFICES ASSUME NEW i \in DOMAIN frames', NEW j \in DOMAIN frames', NEW k \in DOMAIN frames', i < j, j < k,
                      frames'[i] = frames'[j], frames'[j] = frames'[k]
               PROVE  frames'[i] = 0
    BY DEF AtMostTwo
  <2>1. i \in DOMAIN frames /\ j \in DOMAIN frames
    BY <1>1, <1>2
  <2>2. k \in DOMAIN frames
    BY <1>1, <1>2, <2>1
  <2> QED
    BY <1>2, <2>1, <2>2 DEF AtMostTwo
<1>6. Unread'
  <2>1. ASSUME NEW i \in DOMAIN frames', frames'[i] \in pool' PROVE \A m \in DOMAIN list : list[m].tx # frames'[i]
    <3>1. CASE i \in DOMAIN frames
      <4>1. frames[i] \in pool
        BY <1>0, <1>2, <2>1, <3>1
      <4> QED
        BY <1>2, <3>1, <4>1 DEF Unread, Listed
    <3>2. CASE i = n + 1
      BY <1>2, <1>4, <3>2
    <3> QED
      BY <1>1, <1>2, <3>1, <3>2
  <2>2. ASSUME NEW i \in DOMAIN frames', NEW j \in DOMAIN frames', i < j, frames'[i] = frames'[j], frames'[i] # 0
        PROVE  frames'[i] \notin pool' /\ \A m \in DOMAIN list : list[m].tx # frames'[i]
    <3>1. i \in DOMAIN frames
      BY <1>1, <1>2, <2>2
    <3>2. j \in DOMAIN frames
      BY <1>1, <1>2, <2>2, <3>1
    <3>3. frames[i] \notin pool /\ ~Listed(frames[i])
      BY <1>2, <2>2, <3>1, <3>2 DEF Unread
    <3> QED
      BY <1>0, <1>2, <3>1, <3>3 DEF Listed
  <2> QED
    BY <1>0, <2>1, <2>2 DEF Unread, Listed
<1>7. Marked'
  <2> SUFFICES ASSUME NEW i \in DOMAIN frames', frames'[i] # 0, frames'[i] \notin pool', ~burst,
                      ~\E j \in DOMAIN frames' : i < j /\ frames'[j] = frames'[i]
               PROVE  \E h \in DOMAIN frames' : h < i /\ frames'[h] = 0
    BY <1>0 DEF Marked
  <2>1. i \in DOMAIN frames
    BY <1>0, <1>1, <1>2
  <2>2. frames[i] # 0 /\ frames[i] \notin pool /\ ~\E j \in DOMAIN frames : i < j /\ frames[j] = frames[i]
    BY <1>0, <1>1, <1>2, <2>1
  <2>3. PICK h \in DOMAIN frames : h < i /\ frames[h] = 0
    BY <2>1, <2>2 DEF Marked
  <2> QED
    BY <1>1, <1>2, <2>3
<1>8. ListedOnce'
  BY <1>0 DEF ListedOnce
<1>9. ListedUnmined'
  <2> SUFFICES ASSUME NEW m \in DOMAIN list, list[m].tx \notin pool PROVE \E j \in DOMAIN frames' : frames'[j] = list[m].tx
    BY <1>0 DEF ListedUnmined
  <2>1. PICK j \in DOMAIN frames : frames[j] = list[m].tx
    BY DEF ListedUnmined
  <2> QED
    BY <1>1, <1>2, <2>1
<1> QED
  BY <1>3, <1>5, <1>6, <1>7, <1>8, <1>9

\* The frames of a block, behind those that are under way.
LEMMA BlockIs ==
    ASSUME frames \in Seq(0..arrived), arrived \in Nat, NEW S, S \subseteq 1..arrived,
           frames' = frames \o <<Coinbase>> \o SetToSeq(S)
    PROVE  LET n == Len(frames)
               q == SetToSeq(S)
           IN  /\ q \in Seq(S)
               /\ \A i, j \in DOMAIN q : q[i] = q[j] => i = j
               /\ \A x \in S : \E i \in DOMAIN q : q[i] = x
               /\ q \in Seq(0..arrived) /\ Len(q) \in Nat /\ DOMAIN q = 1..Len(q) /\ n \in Nat /\ DOMAIN frames = 1..n
               /\ frames' \in Seq(0..arrived) /\ DOMAIN frames' = 1..(n + 1 + Len(q))
               /\ \A i \in 1..n : frames'[i] = frames[i]
               /\ frames'[n + 1] = 0
               /\ \A i \in 1..Len(q) : frames'[n + 1 + i] = q[i]
<1> USE DEF Coinbase
<1> DEFINE n == Len(frames)
           q == SetToSeq(S)
<1>2. IsFiniteSet(S)
  <2>1. IsFiniteSet(1..arrived) /\ S \in SUBSET (1..arrived)
    BY FS_Interval
  <2> QED
    BY <2>1, FS_Subset
<1>3. /\ q \in Seq(S)
      /\ \A i, j \in DOMAIN q : q[i] = q[j] => i = j
      /\ \A x \in S : \E i \in DOMAIN q : q[i] = x
  BY <1>2, SetToSeqIs
<1>4. q \in Seq(0..arrived) /\ Len(q) \in Nat /\ DOMAIN q = 1..Len(q) /\ n \in Nat /\ DOMAIN frames = 1..n
  <2>1. S \subseteq 0..arrived
    OBVIOUS
  <2>2. q \in Seq(0..arrived)
    <3> DEFINE A == 0..arrived
    <3> HIDE DEF A, q
    <3>1. q \in Seq(A)
      BY <1>3, <2>1, SeqMonotonic DEF A
    <3> QED
      BY <3>1 DEF A
  <2> HIDE DEF q
  <2> QED
    BY <2>2
<1> HIDE DEF q
<1>5. <<Coinbase>> \in Seq(0..arrived) /\ Len(<<Coinbase>>) = 1 /\ <<Coinbase>>[1] = 0
  OBVIOUS
<1>6. /\ frames' \in Seq(0..arrived) /\ DOMAIN frames' = 1..(n + 1 + Len(q))
      /\ \A i \in 1..n : frames'[i] = frames[i]
      /\ frames'[n + 1] = 0
      /\ \A i \in 1..Len(q) : frames'[n + 1 + i] = q[i]
  <2> DEFINE b == frames \o <<Coinbase>>
  <2>1. /\ b \in Seq(0..arrived) /\ Len(b) = n + 1
        /\ \A i \in 1..n : b[i] = frames[i]
        /\ b[n + 1] = 0
    BY <1>4, <1>5, ConcatProperties
  <2>2. frames' = b \o q
    BY DEF q
  <2> HIDE DEF b
  <2>3. /\ frames' \in Seq(0..arrived) /\ Len(frames') = n + 1 + Len(q)
        /\ \A i \in 1..(n + 1 + Len(q)) : frames'[i] = IF i <= n + 1 THEN b[i] ELSE q[i - (n + 1)]
    <3>1. /\ b \o q \in Seq(0..arrived) /\ Len(b \o q) = Len(b) + Len(q)
          /\ \A i \in 1..(Len(b) + Len(q)) : (b \o q)[i] = IF i <= Len(b) THEN b[i] ELSE q[i - Len(b)]
      BY <1>4, <2>1, ConcatProperties
    <3> QED
      BY <2>1, <2>2, <3>1
  <2>4. \A i \in 1..(n + 1) : frames'[i] = b[i]
    BY <1>4, <2>3
  <2>5. ASSUME NEW i \in 1..Len(q) PROVE frames'[n + 1 + i] = q[i]
    <3>1. n + 1 + i \in 1..(n + 1 + Len(q)) /\ ~(n + 1 + i <= n + 1) /\ (n + 1 + i) - (n + 1) = i
      BY <1>4
    <3> QED
      BY <2>3, <3>1
  <2> QED
    BY <1>4, <2>1, <2>3, <2>4, <2>5
<1> QED
  BY <1>3, <1>4, <1>6 DEF q

\* A block's frames come behind its coinbase, each of its transactions' once.
LEMMA MineKeeps == ASSUME LiveInv, MineBlock PROVE LiveInv'
<1> USE DEF LiveInv, Coinbase
<1>0. PICK S \in SUBSET pool : pool' = pool \ S /\ frames' = frames \o <<Coinbase>> \o SetToSeq(S)
  BY DEF MineBlock
<1> DEFINE n == Len(frames)
           q == SetToSeq(S)
<1>1. /\ frames \in Seq(0..arrived) /\ arrived \in Nat /\ pool \subseteq 1..arrived /\ S \subseteq 1..arrived
      /\ arrived' = arrived /\ seq' = seq /\ burst' = burst /\ list' = list
      /\ seq \in Nat /\ burst \in BOOLEAN /\ list \in Seq([seq : Nat, tx : 1..arrived])
  BY <1>0 DEF MineBlock, LiveTypes, listVars
<1>2. /\ q \in Seq(S)
      /\ \A i, j \in DOMAIN q : q[i] = q[j] => i = j
      /\ \A x \in S : \E i \in DOMAIN q : q[i] = x
      /\ q \in Seq(0..arrived) /\ Len(q) \in Nat /\ DOMAIN q = 1..Len(q) /\ n \in Nat /\ DOMAIN frames = 1..n
      /\ frames' \in Seq(0..arrived) /\ DOMAIN frames' = 1..(n + 1 + Len(q))
      /\ \A i \in 1..n : frames'[i] = frames[i]
      /\ frames'[n + 1] = 0
      /\ \A i \in 1..Len(q) : frames'[n + 1 + i] = q[i]
  BY <1>0, <1>1, BlockIs
<1> HIDE DEF q
<1>3. /\ q \in Seq(S)
      /\ \A i, j \in DOMAIN q : q[i] = q[j] => i = j
      /\ \A x \in S : \E i \in DOMAIN q : q[i] = x
  BY <1>2
<1>4. Len(q) \in Nat /\ DOMAIN q = 1..Len(q) /\ n \in Nat /\ DOMAIN frames = 1..n
  BY <1>2
<1>6. /\ frames' \in Seq(0..arrived) /\ DOMAIN frames' = 1..(n + 1 + Len(q))
      /\ \A i \in 1..n : frames'[i] = frames[i]
      /\ frames'[n + 1] = 0
      /\ \A i \in 1..Len(q) : frames'[n + 1 + i] = q[i]
  BY <1>2
<1> HIDE DEF n
\* A frame of the block is its coinbase or one of S; one from before is where it was.
<1>7. ASSUME NEW i \in DOMAIN frames', i \notin DOMAIN frames, frames'[i] # 0
      PROVE  i - (n + 1) \in DOMAIN q /\ frames'[i] = q[i - (n + 1)] /\ frames'[i] \in S /\ n + 1 < i
  <2>1. i \in Int /\ n + 1 < i /\ i <= n + 1 + Len(q)
    BY <1>4, <1>6, <1>7
  <2>2. i - (n + 1) \in 1..Len(q) /\ n + 1 + (i - (n + 1)) = i
    BY <1>4, <2>1
  <2>3. frames'[i] = q[i - (n + 1)]
    BY <1>6, <2>2
  <2> QED
    BY <1>3, <1>4, <2>1, <2>2, <2>3
<1>8. \A i \in DOMAIN frames : i \in DOMAIN frames' /\ frames'[i] = frames[i]
  BY <1>4, <1>6
<1>9. ASSUME NEW i \in DOMAIN frames', NEW j \in DOMAIN frames', i < j, frames'[i] = frames'[j], frames'[i] # 0
      PROVE  i \in DOMAIN frames
  <2> SUFFICES ASSUME i \notin DOMAIN frames PROVE FALSE
    OBVIOUS
  <2>1. j \notin DOMAIN frames
    BY <1>4, <1>6, <1>9
  <2>2. i - (n + 1) = j - (n + 1)
    BY <1>3, <1>7, <1>9, <2>1
  <2> QED
    BY <1>4, <1>6, <1>9, <2>2
<1>10. LiveTypes'
  BY <1>0, <1>1, <1>6 DEF LiveTypes
<1>11. AtMostTwo'
  <2> SUFFICES ASSUME NEW i \in DOMAIN frames', NEW j \in DOMAIN frames', NEW k \in DOMAIN frames', i < j, j < k,
                      frames'[i] = frames'[j], frames'[j] = frames'[k], frames'[i] # 0
               PROVE  FALSE
    BY DEF AtMostTwo
  <2>1. i \in DOMAIN frames /\ j \in DOMAIN frames
    BY <1>9
  <2>2. CASE k \in DOMAIN frames
    BY <1>8, <2>1, <2>2 DEF AtMostTwo
  <2>3. CASE k \notin DOMAIN frames
    <3>1. frames[i] \in pool /\ frames[i] = frames[j] /\ frames[i] # 0
      BY <1>7, <1>8, <2>1, <2>3
    <3> QED
      BY <2>1, <3>1 DEF Unread
  <2> QED
    BY <2>2, <2>3
<1>12. Unread'
  <2>1. ASSUME NEW i \in DOMAIN frames', frames'[i] \in pool' PROVE \A m \in DOMAIN list : list[m].tx # frames'[i]
    <3>1. i \in DOMAIN frames
      BY <1>0, <1>1, <1>7, <2>1
    <3>2. frames'[i] = frames[i] /\ frames[i] \in pool
      BY <1>0, <1>8, <2>1, <3>1
    <3> QED
      BY <3>1, <3>2 DEF Unread, Listed
  <2>2. ASSUME NEW i \in DOMAIN frames', NEW j \in DOMAIN frames', i < j, frames'[i] = frames'[j], frames'[i] # 0
        PROVE  frames'[i] \notin pool' /\ \A m \in DOMAIN list : list[m].tx # frames'[i]
    <3>1. i \in DOMAIN frames /\ frames'[i] = frames[i]
      BY <1>8, <1>9, <2>2
    <3>2. CASE j \in DOMAIN frames
      <4>1. frames[i] \notin pool /\ ~Listed(frames[i])
        BY <1>8, <2>2, <3>1, <3>2 DEF Unread
      <4> QED
        BY <1>0, <3>1, <4>1 DEF Listed
    <3>3. CASE j \notin DOMAIN frames
      <4>1. frames[i] \in S
        BY <1>7, <2>2, <3>1, <3>3
      <4>2. ~Listed(frames[i])
        BY <3>1, <4>1 DEF Unread
      <4> QED
        BY <1>0, <3>1, <4>1, <4>2 DEF Listed
    <3> QED
      BY <3>2, <3>3
  <2> QED
    BY <1>1, <2>1, <2>2 DEF Unread, Listed
<1>13. Marked'
  <2> SUFFICES ASSUME NEW i \in DOMAIN frames', frames'[i] # 0, frames'[i] \notin pool', ~burst,
                      ~\E j \in DOMAIN frames' : i < j /\ frames'[j] = frames'[i]
               PROVE  \E h \in DOMAIN frames' : h < i /\ frames'[h] = 0
    BY <1>1 DEF Marked
  <2>1. CASE i \notin DOMAIN frames
    <3>1. n + 1 < i /\ n + 1 \in DOMAIN frames'
      BY <1>4, <1>6, <1>7, <2>1
    <3> QED
      BY <1>6, <3>1
  <2>2. CASE i \in DOMAIN frames
    <3>1. frames[i] \notin S
      <4> SUFFICES ASSUME frames[i] \in S PROVE FALSE
        OBVIOUS
      <4>1. PICK j \in 1..Len(q) : q[j] = frames[i]
        BY <1>3, <1>4
      <4>2. n + 1 + j \in DOMAIN frames' /\ i < n + 1 + j /\ frames'[n + 1 + j] = frames'[i]
        BY <1>4, <1>6, <1>8, <2>2, <4>1
      <4> QED
        BY <4>2
    <3>2. frames[i] # 0 /\ frames[i] \notin pool /\ ~\E j \in DOMAIN frames : i < j /\ frames[j] = frames[i]
      BY <1>0, <1>8, <2>2, <3>1
    <3>3. PICK h \in DOMAIN frames : h < i /\ frames[h] = 0
      BY <2>2, <3>2 DEF Marked
    <3> QED
      BY <1>8, <3>3
  <2> QED
    BY <2>1, <2>2
<1>14. ListedOnce'
  BY <1>1 DEF ListedOnce
<1>15. ListedUnmined'
  <2> SUFFICES ASSUME NEW m \in DOMAIN list, list[m].tx \notin pool' PROVE \E j \in DOMAIN frames' : frames'[j] = list[m].tx
    BY <1>1 DEF ListedUnmined
  <2>1. CASE list[m].tx \in S
    <3>1. PICK j \in 1..Len(q) : q[j] = list[m].tx
      BY <1>3, <1>4, <2>1
    <3>2. n + 1 + j \in DOMAIN frames' /\ frames'[n + 1 + j] = list[m].tx
      BY <1>4, <1>6, <3>1
    <3> QED
      BY <3>2
  <2>2. CASE list[m].tx \notin S
    <3>1. PICK j \in DOMAIN frames : frames[j] = list[m].tx
      BY <1>0, <2>2 DEF ListedUnmined
    <3> QED
      BY <1>8, <3>1
  <2> QED
    BY <2>1, <2>2
<1> QED
  BY <1>10, <1>11, <1>12, <1>13, <1>14, <1>15

LEMMA LiveStep == LiveInv /\ [LiveNext]_liveVars => LiveInv'
<1> SUFFICES ASSUME LiveInv, [LiveNext]_liveVars PROVE LiveInv'
  OBVIOUS
<1>1. CASE UNCHANGED <<arrived, pool, frames, seq, list>> /\ burst' \in BOOLEAN /\ (burst => burst' \/ EndBurst)
  <2>1. /\ arrived' = arrived /\ pool' = pool /\ frames' = frames /\ list' = list /\ seq' = seq
    BY <1>1
  <2>2. LiveTypes' /\ AtMostTwo' /\ Unread' /\ ListedOnce' /\ ListedUnmined'
    BY <1>1, <2>1 DEF LiveInv, LiveTypes, AtMostTwo, Unread, ListedOnce, ListedUnmined, Listed
  <2>3. Marked'
    <3>1. CASE burst => burst'
      BY <2>1, <3>1 DEF LiveInv, Marked
    \* A burst that ends leaves no frame of its block behind.
    <3>2. CASE EndBurst
      BY <2>1, <3>2 DEF EndBurst, Marked
    <3> QED
      BY <1>1, <3>1, <3>2
  <2> QED
    BY <2>2, <2>3 DEF LiveInv
<1>2. CASE EndBurst \/ Ask \/ Serve \/ Apply \/ UNCHANGED liveVars
  <2>1. /\ UNCHANGED <<arrived, pool, frames, seq, list>> /\ burst' \in BOOLEAN
        /\ burst' = burst \/ EndBurst
    BY <1>2 DEF EndBurst, Ask, Serve, Apply, liveVars, coreVars, listVars, LiveInv, LiveTypes
  <2> QED
    BY <1>1, <2>1
<1> QED
  BY <1>2, ArriveKeeps, MineKeeps, RecordKeeps DEF LiveNext

\* What the live list shows is unmined, or its block's frames are still to be
\* read: no burst ends, and no cut or removal goes wrong, so that a mined
\* transaction would stay listed for good, however often blocks come and however
\* the frames of arrivals and of blocks lie in the queue.
THEOREM NothingMinedStays == LiveSpec => []ListedUnmined
<1>1. LiveInv => ListedUnmined
  BY DEF LiveInv
<1> QED
  BY <1>1, LiveInitOK, LiveStep, PTL DEF LiveSpec

-----------------------------------------------------------------------------
(* A page that follows the live list.  FeedInv is what a page relies on,   *)
(* PageInv compares what it has, or will have with the answer on its way,  *)
(* with the list.                                                          *)

\* What the list is, and what the frames and the log say of it.
ListOrder ==
    /\ Len(list) <= Kept /\ Descending(list)
    /\ cut \in Nat /\ cut <= seq /\ listed \subseteq 1..arrived
    /\ \A r \in Range(list) : cut < r.seq /\ r.seq <= seq /\ r.tx \in listed

LogOrder ==
    /\ gone \in Seq(Row) /\ Len(gone) <= GoneKept
    /\ \A i, j \in DOMAIN gone : i < j => gone[i].seq < gone[j].seq
    /\ \A i \in DOMAIN gone : gone[i].seq <= seq

\* A transaction of the log is never seen again.
GoneForGood ==
    \A i \in DOMAIN gone :
        /\ gone[i].tx \in listed /\ gone[i].tx \notin pool
        /\ \A r \in Range(list) : r.tx # gone[i].tx
        /\ \A j \in DOMAIN frames : frames[j] # gone[i].tx

\* What is read as an arrival is newer than all that was listed.
NewestLast ==
    /\ \A i, j \in DOMAIN frames : i < j /\ frames[j] \in pool => frames[i] < frames[j]
    /\ \A i \in DOMAIN frames : frames[i] \in pool => \A t \in listed : t < frames[i]
    /\ ~burst => \A i \in DOMAIN frames : (\A j \in DOMAIN frames : j <= i => frames[j] # Coinbase) =>
          /\ \A j \in DOMAIN frames : j < i => frames[j] < frames[i]
          /\ \A t \in listed : t < frames[i]

\* No listed transaction that waits is missing between two rows.
NoneBetween ==
    \A r \in Range(list), t \in listed \cap pool : r.tx < t => \E q \in Range(list) : q.tx = t

FeedInv == LiveInv /\ ListOrder /\ LogOrder /\ GoneForGood /\ NewestLast /\ NoneBetween

\* The rows are of transactions that have arrived.
LEMMA RowsOfList ==
    ASSUME LiveTypes
    PROVE  /\ list \in Seq(Row) /\ \A r \in Range(list) : r \in Row /\ r.seq \in Nat /\ r.tx \in Nat
           /\ \A t : Listed(t) <=> \E r \in Range(list) : r.tx = t
<1> DEFINE R == [seq : Nat, tx : 1..arrived]
<1>1. list \in Seq(R) /\ R \subseteq Row
  BY DEF LiveTypes, Row
<1> HIDE DEF R
<1>2. list \in Seq(Row)
  BY <1>1, SeqMonotonic
<1>3. \A i \in DOMAIN list : list[i] \in Row
  BY <1>2
<1>4. \A r \in Range(list) : r \in Row
  BY <1>3 DEF Range
<1>5. \A r \in Row : r.seq \in Nat /\ r.tx \in Nat
  BY DEF Row
<1> QED
  BY <1>2, <1>4, <1>5 DEF Listed, Range

LEMMA FeedInitOK == LiveInit => FeedInv
<1> SUFFICES ASSUME LiveInit PROVE FeedInv
  OBVIOUS
<1>1. LiveInv
  BY LiveInitOK
<1>2. list = <<>> /\ gone = <<>> /\ frames = <<>> /\ seq = 0 /\ cut = 0 /\ listed = {}
  BY DEF LiveInit
<1>3. Range(list) = {} /\ DOMAIN gone = {} /\ DOMAIN frames = {}
  BY <1>2 DEF Range
<1>4. ListOrder
  BY <1>2, <1>3, LiveConstants DEF ListOrder, Descending
<1>5. LogOrder
  BY <1>2, LiveConstants DEF LogOrder
<1> QED
  BY <1>1, <1>3, <1>4, <1>5 DEF FeedInv, GoneForGood, NewestLast, NoneBetween

\* The log with one more row, which pushed out the oldest if it was full.
LEMMA LogGoneIs ==
    ASSUME LogOrder, seq \in Nat, NEW e \in Row, e.seq = seq + 1
    PROVE  LET g == LogGone(e) IN
           /\ g \in Seq(Row) /\ Len(g) <= GoneKept
           /\ \A i, j \in DOMAIN g : i < j => g[i].seq < g[j].seq
           /\ \A i \in DOMAIN g : g[i] = e \/ \E j \in DOMAIN gone : g[i] = gone[j]
           /\ \E i \in DOMAIN g : g[i] = e
           /\ \A h \in Nat : Len(gone) = GoneKept /\ gone[1].seq > h => Len(g) = GoneKept /\ g[1].seq > h
           /\ \A j \in DOMAIN gone, h \in Nat : gone[j].seq >= h =>
                 (\E i \in DOMAIN g : g[i] = gone[j]) \/ (Len(g) = GoneKept /\ g[1].seq > h)
<1> DEFINE g == LogGone(e)
           l == Append(gone, e)
           n == Len(gone)
<1>1. gone \in Seq(Row) /\ n \in Nat /\ DOMAIN gone = 1..n /\ n <= GoneKept /\ GoneKept \in Nat /\ GoneKept # 0
  BY LiveConstants DEF LogOrder
<1>2. \A i \in DOMAIN gone : gone[i].seq \in Nat /\ gone[i].seq <= seq
  <2>1. \A i \in DOMAIN gone : gone[i] \in Row
    BY <1>1
  <2> QED
    BY <2>1 DEF Row, LogOrder
<1>3. /\ l \in Seq(Row) /\ Len(l) = n + 1 /\ DOMAIN l = 1..(n + 1)
      /\ \A i \in 1..n : l[i] = gone[i]
      /\ l[n + 1] = e
  BY <1>1
<1>4. \A i, j \in DOMAIN l : i < j => l[i].seq < l[j].seq
  <2> HIDE DEF l, n
  <2> SUFFICES ASSUME NEW i \in DOMAIN l, NEW j \in DOMAIN l, i < j PROVE l[i].seq < l[j].seq
    OBVIOUS
  <2>1. i \in 1..n /\ l[i] = gone[i]
    BY <1>1, <1>3
  <2>2. CASE j = n + 1
    BY <1>1, <1>2, <1>3, <2>1, <2>2
  <2>3. CASE j \in 1..n
    BY <1>1, <1>3, <2>1, <2>3 DEF LogOrder
  <2> QED
    BY <1>1, <1>3, <2>2, <2>3
<1>5. g = IF n + 1 > GoneKept THEN Tail(l) ELSE l
  BY <1>3 DEF LogGone
<1> HIDE DEF g, l, n
<1>0. n \in Nat /\ GoneKept \in Nat /\ (n < GoneKept \/ n = GoneKept)
  BY <1>1
<1>6. CASE n < GoneKept
  <2>1. g = l
    BY <1>1, <1>5, <1>6
  <2>2. \A j \in DOMAIN gone : \E i \in DOMAIN g : g[i] = gone[j]
    BY <1>1, <1>3, <2>1
  <2>3. \A i \in DOMAIN g : g[i] = e \/ \E j \in DOMAIN gone : g[i] = gone[j]
    BY <1>1, <1>3, <2>1
  <2>4. \E i \in DOMAIN g : g[i] = e
    BY <1>1, <1>3, <2>1
  <2>5. g \in Seq(Row) /\ Len(g) <= GoneKept
    BY <1>1, <1>3, <1>6, <2>1
  <2>6. Len(gone) # GoneKept
    BY <1>0, <1>6 DEF n
  <2> QED
    BY <1>4, <2>1, <2>2, <2>3, <2>4, <2>5, <2>6 DEF g, n
<1>7. CASE n = GoneKept
  <2>1. g = Tail(l)
    BY <1>1, <1>5, <1>7
  <2>2. /\ g \in Seq(Row) /\ Len(g) = n /\ DOMAIN g = 1..n
        /\ \A i \in 1..n : g[i] = l[i + 1]
    BY <1>1, <1>3, <2>1
  <2>3. \A i, j \in DOMAIN g : i < j => g[i].seq < g[j].seq
    <3> SUFFICES ASSUME NEW i \in 1..n, NEW j \in 1..n, i < j PROVE g[i].seq < g[j].seq
      BY <2>2
    <3>1. i + 1 \in DOMAIN l /\ j + 1 \in DOMAIN l /\ i + 1 < j + 1
      BY <1>1, <1>3
    <3> QED
      BY <1>4, <2>2, <3>1
  <2>4. \A i \in DOMAIN g : g[i] = e \/ \E j \in DOMAIN gone : g[i] = gone[j]
    <3> SUFFICES ASSUME NEW i \in 1..n, g[i] # e PROVE \E j \in DOMAIN gone : g[i] = gone[j]
      BY <2>2
    <3>1. g[i] = l[i + 1] /\ i # n
      BY <1>3, <2>2
    <3>2. i + 1 \in 1..n
      BY <1>0, <3>1
    <3> QED
      BY <1>1, <1>3, <3>1, <3>2
  <2>5. \E i \in DOMAIN g : g[i] = e
    BY <1>1, <1>3, <1>7, <2>2
  <2>6. g[1] = l[2] /\ l[1] = gone[1] /\ 1 \in DOMAIN gone /\ 1 \in DOMAIN l /\ 2 \in DOMAIN l
    BY <1>1, <1>3, <1>7, <2>2
  <2>7. g[1].seq > gone[1].seq
    BY <1>4, <2>6
  <2>8. g[1].seq \in Nat /\ gone[1].seq \in Nat
    <3>1. g[1] \in Row
      BY <1>1, <1>7, <2>2
    <3> QED
      BY <1>2, <2>6, <3>1 DEF Row
  <2>9. \A h \in Nat : gone[1].seq > h => g[1].seq > h
    BY <2>7, <2>8
  <2>10. ASSUME NEW j \in DOMAIN gone, NEW h \in Nat, gone[j].seq >= h
         PROVE  (\E i \in DOMAIN g : g[i] = gone[j]) \/ g[1].seq > h
    <3>1. CASE j = 1
      BY <2>7, <2>8, <2>10, <3>1
    <3>2. CASE j # 1
      <4>1. j - 1 \in 1..n /\ (j - 1) + 1 = j
        BY <1>1, <3>2
      <4>2. g[j - 1] = gone[j]
        BY <1>1, <1>3, <2>2, <4>1
      <4> QED
        BY <2>2, <4>1, <4>2
    <3> QED
      BY <3>1, <3>2
  <2> QED
    BY <1>1, <1>7, <2>2, <2>3, <2>4, <2>5, <2>9, <2>10 DEF g, n
<1> QED
  BY <1>0, <1>6, <1>7

NewRow(t) == [seq |-> seq + 1, tx |-> t]

\* A frame takes a mined transaction out of the list.
Removes(t) ==
    /\ t \in listed /\ t \notin pool /\ Listed(t) /\ \A j \in DOMAIN frames' : frames'[j] # t
    /\ seq' = seq + 1 /\ gone' = LogGone(NewRow(t)) /\ UNCHANGED <<listed, cut>>
    /\ shrunk' = (shrunk \/ cut > Had)
    /\ Descending(list') /\ Len(list') <= Kept /\ Range(list') = {r \in Range(list) : r.tx # t}

\* A frame puts an arrival on top, and the last row makes room for it.
PutsOnTop(t) ==
    /\ t \in 1..arrived /\ \A u \in listed : u < t
    /\ seq' = seq + 1 /\ listed' = listed \cup {t} /\ UNCHANGED <<gone, shrunk>>
    /\ Descending(list') /\ Len(list') <= Kept
    /\ \/ cut' = cut /\ Len(list) < Kept /\ Range(list') = Range(list) \cup {NewRow(t)}
       \/ /\ Len(list') = Kept
          /\ \E r \in Range(list) :
                /\ cut' = r.seq /\ \A q \in Range(list) : q = r \/ q.seq > r.seq
                /\ Range(list') = (Range(list) \ {r}) \cup {NewRow(t)}

\* A frame is read: the others move up by one.
LEMMA ReadIs ==
    ASSUME frames \in Seq(0..arrived), arrived \in Nat, Record
    PROVE  /\ 1 \in DOMAIN frames /\ Head(frames) = frames[1] /\ frames[1] \in 0..arrived
           /\ \A i \in DOMAIN frames' : i \in Nat /\ i + 1 \in DOMAIN frames /\ frames'[i] = frames[i + 1]
           /\ \A i \in DOMAIN frames : i # 1 => i - 1 \in DOMAIN frames' /\ frames'[i - 1] = frames[i]
           /\ \A i \in DOMAIN frames : 1 <= i
<1>0. frames # <<>> /\ frames' = Tail(frames)
  BY DEF Record
<1>1. DOMAIN frames = 1..Len(frames) /\ Len(frames) \in Nat
  OBVIOUS
<1>2. frames' \in Seq(0..arrived) /\ Len(frames') = Len(frames) - 1 /\ DOMAIN frames' = 1..(Len(frames) - 1)
  BY <1>0
<1>3. \A i \in DOMAIN frames' : frames'[i] = frames[i + 1]
  BY <1>0, <1>2
<1> QED
  BY <1>0, <1>1, <1>2, <1>3

LEMMA PutsOnTopIs ==
    ASSUME LiveTypes, ListOrder, NEW t \in 1..arrived, ListArrival(t), UNCHANGED <<gone, shrunk>>,
           \A u \in listed : u < t
    PROVE  PutsOnTop(t)
<1> DEFINE e == NewRow(t)
           l == <<e>> \o list
           n == Len(list)
<1>1. list \in Seq(Row) /\ seq \in Nat /\ \A r \in Range(list) : r \in Row /\ r.seq \in Nat /\ r.tx \in Nat
  BY RowsOfList DEF LiveTypes
<1>2. n \in Nat /\ DOMAIN list = 1..n /\ Kept \in Nat /\ Kept # 0 /\ n <= Kept
  BY <1>1, LiveConstants DEF ListOrder
<1>3. e \in Row /\ e.seq = seq + 1 /\ e.tx = t
  BY <1>1 DEF NewRow, Row, LiveTypes
<1>4. \A i \in DOMAIN list : list[i] \in Range(list)
  BY DEF Range
<1>5. \A r \in Range(list) : r.seq < seq + 1 /\ r.tx < t
  BY <1>1 DEF ListOrder
<1> HIDE DEF e
<1>6. /\ l \in Seq(Row) /\ Len(l) = n + 1 /\ DOMAIN l = 1..(n + 1)
      /\ \A i \in 1..(n + 1) : l[i] = IF i = 1 THEN e ELSE list[i - 1]
  BY <1>1, <1>3
<1> HIDE DEF l, n
<1>7. l[1] = e /\ \A i \in 1..n : i + 1 \in 1..(n + 1) /\ l[i + 1] = list[i]
  BY <1>2, <1>6
<1>8. \A i \in DOMAIN l : i # 1 => i - 1 \in DOMAIN list /\ l[i] = list[i - 1]
  BY <1>2, <1>6
<1>9. Descending(l)
  <2> SUFFICES ASSUME NEW i \in DOMAIN l, NEW j \in DOMAIN l, i < j PROVE l[i].seq > l[j].seq /\ l[i].tx > l[j].tx
    BY DEF Descending
  <2>1. j # 1 /\ j - 1 \in DOMAIN list /\ l[j] = list[j - 1]
    BY <1>2, <1>6, <1>8
  <2>2. CASE i = 1
    BY <1>1, <1>3, <1>4, <1>5, <1>7, <2>1, <2>2
  <2>3. CASE i # 1
    <3>1. i - 1 \in DOMAIN list /\ l[i] = list[i - 1] /\ i - 1 < j - 1
      BY <1>2, <1>6, <1>8, <2>3
    <3> QED
      BY <2>1, <3>1 DEF Descending, ListOrder
  <2> QED
    BY <2>2, <2>3
<1>10. Range(l) = Range(list) \cup {e}
  <2>1. \A i \in DOMAIN l : l[i] = e \/ l[i] \in Range(list)
    BY <1>4, <1>7, <1>8
  <2>2. e \in Range(l)
    <3>1. 1 \in DOMAIN l
      BY <1>2, <1>6
    <3> QED
      BY <1>7, <3>1 DEF Range
  <2>3. ASSUME NEW i \in DOMAIN list PROVE list[i] \in Range(l)
    <3>1. i + 1 \in DOMAIN l /\ l[i + 1] = list[i]
      BY <1>2, <1>6, <1>7
    <3> QED
      BY <3>1 DEF Range
  <2> QED
    BY <2>1, <2>2, <2>3 DEF Range
<1>11. /\ seq' = seq + 1 /\ listed' = listed \cup {t}
       /\ IF Len(l) > Kept THEN list' = Front(l) /\ cut' = Last(l).seq ELSE list' = l /\ cut' = cut
  BY DEF ListArrival, l, e, NewRow
<1>12. CASE n < Kept
  <2>1. list' = l /\ cut' = cut
    BY <1>2, <1>6, <1>11, <1>12
  <2>2. Len(list') <= Kept
    BY <1>2, <1>6, <1>12, <2>1
  <2> QED
    BY <1>9, <1>10, <1>11, <1>12, <2>1, <2>2 DEF PutsOnTop, e, n
<1>13. CASE n = Kept
  <2> DEFINE r == list[n]
  <2>1. list' = SubSeq(l, 1, n) /\ cut' = l[n + 1].seq
    <3>1. Len(l) > Kept /\ Len(l) - 1 = n
      BY <1>2, <1>6, <1>13
    <3> QED
      BY <1>6, <1>11, <3>1 DEF Front, Last
  <2>2. n \in DOMAIN list /\ r \in Range(list) /\ l[n + 1] = r
    BY <1>2, <1>4, <1>7, <1>13
  <2>3. list' \in Seq(Row) /\ Len(list') = n /\ DOMAIN list' = 1..n /\ \A i \in 1..n : list'[i] = l[i] /\ i \in DOMAIN l
    BY <1>2, <1>6, <2>1
  <2>4. Descending(list')
    BY <1>9, <2>3 DEF Descending
  <2>5. \A q \in Range(list) : q = r \/ q.seq > r.seq
    <3> SUFFICES ASSUME NEW i \in DOMAIN list, list[i] # r PROVE list[i].seq > r.seq
      BY DEF Range
    <3>1. i < n
      BY <1>2
    <3> QED
      BY <2>2, <3>1 DEF Descending, ListOrder
  <2>6. Range(list') = (Range(list) \ {r}) \cup {e}
    <3>1. ASSUME NEW i \in 1..n PROVE list'[i] = e \/ (list'[i] \in Range(list) /\ list'[i] # r)
      <4>1. CASE i = 1
        BY <1>7, <2>3, <3>1, <4>1
      <4>2. CASE i # 1
        <5>1. i - 1 \in DOMAIN list /\ list'[i] = list[i - 1] /\ i - 1 < n
          BY <1>2, <1>8, <2>3, <4>2
        <5>2. list[i - 1].seq > r.seq
          BY <2>2, <5>1 DEF Descending, ListOrder
        <5>3. r.seq \in Nat
          BY <1>1, <2>2
        <5> QED
          BY <1>4, <5>1, <5>2, <5>3
      <4> QED
        BY <4>1, <4>2
    <3>2. e \in Range(list')
      <4>1. 1 \in DOMAIN list'
        BY <1>2, <1>13, <2>3
      <4> QED
        BY <1>7, <2>3, <4>1 DEF Range
    <3>3. ASSUME NEW i \in DOMAIN list, list[i] # r PROVE list[i] \in Range(list')
      <4>1. i + 1 \in 1..n
        BY <1>2, <3>3
      <4>2. list'[i + 1] = list[i]
        BY <1>2, <1>7, <2>3, <4>1
      <4> QED
        BY <2>3, <4>1, <4>2 DEF Range
    <3> QED
      BY <2>3, <3>1, <3>2, <3>3 DEF Range
  <2>7. Len(list') = Kept
    BY <1>13, <2>3
  <2> HIDE DEF r
  <2>8. Len(list') <= Kept
    BY <1>2, <2>7
  <2>9. cut' = r.seq
    BY <2>1, <2>2
  <2> QED
    BY <1>11, <2>2, <2>4, <2>5, <2>6, <2>7, <2>8, <2>9 DEF PutsOnTop, e
<1> QED
  BY <1>2, <1>12, <1>13

\* What reading a frame does to the list, the log and what is remembered of them.
LEMMA RecordIs ==
    ASSUME FeedInv, Record
    PROVE  \/ UNCHANGED <<list, gone, seq, listed, cut, shrunk>> /\ (burst' = TRUE \/ (burst /\ burst' = burst))
           \/ Removes(Head(frames)) /\ burst /\ burst' = burst
           \/ PutsOnTop(Head(frames)) /\ ~burst /\ burst' = burst /\ Head(frames) # Coinbase
<1> DEFINE t == Head(frames)
<1>1. frames \in Seq(0..arrived) /\ arrived \in Nat /\ File(t) /\ LiveTypes
  BY DEF FeedInv, LiveInv, LiveTypes, Record
<1>2. /\ 1 \in DOMAIN frames /\ t = frames[1] /\ t \in 0..arrived
      /\ \A i \in DOMAIN frames' : i \in Nat /\ i + 1 \in DOMAIN frames /\ frames'[i] = frames[i + 1]
      /\ \A i \in DOMAIN frames : 1 <= i
  BY <1>1, ReadIs
<1>3. CASE t = Coinbase
  BY <1>1, <1>3 DEF File, Coinbase
<1>4. CASE t # Coinbase /\ burst
  <2>1. RemoveMined(t) /\ UNCHANGED <<burst, listed, cut>>
    BY <1>1, <1>4 DEF File
  <2>2. CASE Positions(t) = {}
    BY <1>4, <2>1, <2>2 DEF RemoveMined
  <2>3. CASE Positions(t) # {}
    <3>1. Listed(t) /\ list' = Without(t) /\ seq' = seq + 1 /\ gone' = LogGone(NewRow(t)) /\ shrunk' = (shrunk \/ cut > Had)
      BY <2>1, <2>3 DEF RemoveMined, Positions, Listed, NewRow
    <3>2. t \notin pool
      BY <1>2, <3>1 DEF FeedInv, LiveInv, Unread
    <3>3. \A j \in DOMAIN frames' : frames'[j] # t
      <4> SUFFICES ASSUME NEW j \in DOMAIN frames', frames'[j] = t PROVE FALSE
        OBVIOUS
      <4>1. (j + 1 \in DOMAIN frames /\ 1 < j + 1) \/ j = 0
        BY <1>2
      <4>2. j # 0
        BY <1>1 DEF Record
      <4>3. frames[j + 1] = frames[1] /\ frames[1] # Coinbase
        BY <1>2, <1>4
      <4> QED
        BY <1>2, <3>1, <4>1, <4>2, <4>3 DEF FeedInv, LiveInv, Unread
    <3>4. t \in listed
      BY <1>1, <3>1, RowsOfList DEF FeedInv, ListOrder
    <3>5. Descending(list') /\ Len(list') <= Kept /\ Range(list') = {r \in Range(list) : r.tx # t}
      <4>1. /\ Len(list') = Len(list) - 1 /\ Range(list') = {r \in Range(list) : r.tx # t}
            /\ Descending(list')
        BY <1>1, <3>1, WithoutIs DEF FeedInv, LiveInv, ListOrder
      <4>2. Len(list) \in Nat /\ Len(list) <= Kept /\ Kept \in Nat
        BY <1>1, RowsOfList, LiveConstants DEF FeedInv, ListOrder
      <4> QED
        BY <4>1, <4>2
    <3> QED
      BY <1>4, <2>1, <3>1, <3>2, <3>3, <3>4, <3>5 DEF Removes
  <2> QED
    BY <2>2, <2>3
<1>5. CASE t # Coinbase /\ ~burst
  <2>1. ListArrival(t) /\ UNCHANGED <<gone, shrunk, burst>>
    BY <1>1, <1>5 DEF File
  <2>2. t \in 1..arrived
    BY <1>1, <1>2, <1>5 DEF Coinbase
  <2>3. \A u \in listed : u < t
    <3>1. \A j \in DOMAIN frames : j <= 1 => frames[j] # Coinbase
      <4>1. \A j \in DOMAIN frames : j <= 1 => j = 1
        BY <1>1, <1>2
      <4> QED
        BY <1>2, <1>5, <4>1
    <3> QED
      BY <1>2, <1>5, <3>1 DEF FeedInv, NewestLast
  <2>4. PutsOnTop(t)
    BY <1>1, <2>1, <2>2, <2>3, PutsOnTopIs DEF FeedInv
  <2> QED
    BY <1>5, <2>1, <2>4
<1> QED
  BY <1>3, <1>4, <1>5

\* What a frame that is read leaves of the order.
LEMMA FeedRecords == ASSUME FeedInv, Record PROVE FeedInv'
<1> DEFINE t == Head(frames)
           e == NewRow(t)
<1>1. frames \in Seq(0..arrived) /\ arrived \in Nat /\ LiveTypes /\ seq \in Nat /\ pool' = pool /\ arrived' = arrived /\ LiveInv'
  BY RecordKeeps DEF FeedInv, LiveInv, LiveTypes, Record
<1>2. /\ 1 \in DOMAIN frames /\ t = frames[1] /\ t \in 0..arrived
      /\ \A i \in DOMAIN frames' : i \in Nat /\ i + 1 \in DOMAIN frames /\ frames'[i] = frames[i + 1]
      /\ \A i \in DOMAIN frames : i # 1 => i - 1 \in DOMAIN frames' /\ frames'[i - 1] = frames[i]
      /\ \A i \in DOMAIN frames : i \in Nat /\ 1 <= i
  BY <1>1, ReadIs
<1>3. \A r \in Range(list) : r \in Row /\ r.seq \in Nat /\ r.tx \in Nat
  BY <1>1, RowsOfList
<1>4. e.seq = seq + 1 /\ e.tx = t /\ e \in Row
  BY <1>1, <1>2 DEF NewRow, Row
<1>5. /\ \A i, j \in DOMAIN frames' : i < j /\ frames'[j] \in pool => frames'[i] < frames'[j]
      /\ \A i \in DOMAIN frames' : frames'[i] \in pool => t < frames'[i] /\ \A u \in listed : u < frames'[i]
  <2>1. ASSUME NEW i \in DOMAIN frames', NEW j \in DOMAIN frames', i < j, frames'[j] \in pool PROVE frames'[i] < frames'[j]
    <3>1. i + 1 \in DOMAIN frames /\ j + 1 \in DOMAIN frames /\ i + 1 < j + 1 /\ frames[j + 1] \in pool
      BY <1>2, <2>1
    <3>2. frames[i + 1] < frames[j + 1]
      BY <3>1 DEF FeedInv, NewestLast
    <3> QED
      BY <1>2, <3>2
  <2>2. ASSUME NEW i \in DOMAIN frames', frames'[i] \in pool PROVE t < frames'[i] /\ \A u \in listed : u < frames'[i]
    <3>1. i + 1 \in DOMAIN frames /\ 1 < i + 1 /\ frames[i + 1] \in pool
      <4>1. i + 1 \in DOMAIN frames /\ i # 0
        BY <1>1, <1>2 DEF Record
      <4> QED
        BY <1>2, <2>2, <4>1
    <3>2. frames[1] < frames[i + 1] /\ \A u \in listed : u < frames[i + 1]
      BY <1>2, <3>1 DEF FeedInv, NewestLast
    <3> QED
      BY <1>2, <3>2
  <2> QED
    BY <2>1, <2>2
<1> HIDE DEF t, e
<1>6. CASE UNCHANGED <<list, gone, seq, listed, cut, shrunk>> /\ (burst' = TRUE \/ (burst /\ burst' = burst))
  <2>1. ListOrder' /\ LogOrder' /\ NoneBetween'
    BY <1>1, <1>6 DEF FeedInv, ListOrder, LogOrder, NoneBetween
  <2>2. GoneForGood'
    BY <1>1, <1>2, <1>6 DEF FeedInv, GoneForGood
  <2>3. NewestLast'
    BY <1>1, <1>5, <1>6 DEF NewestLast
  <2> QED
    BY <1>1, <2>1, <2>2, <2>3 DEF FeedInv
<1>7. CASE Removes(t) /\ burst /\ burst' = burst
  <2>1. ListOrder'
    BY <1>1, <1>3, <1>7 DEF FeedInv, ListOrder, Removes
  <2> DEFINE g == LogGone(e)
  <2>2. /\ gone' \in Seq(Row) /\ Len(gone') <= GoneKept
        /\ \A i, j \in DOMAIN gone' : i < j => gone'[i].seq < gone'[j].seq
        /\ \A i \in DOMAIN gone' : gone'[i] = e \/ \E j \in DOMAIN gone : gone'[i] = gone[j]
    BY <1>1, <1>4, <1>7, LogGoneIs DEF FeedInv, Removes, e
  <2>3. seq' = seq + 1 /\ \A j \in DOMAIN gone : gone[j].seq <= seq /\ gone[j].seq \in Nat
    <3>1. \A j \in DOMAIN gone : gone[j] \in Row
      BY DEF FeedInv, LogOrder
    <3> QED
      BY <1>7, <3>1 DEF FeedInv, LogOrder, Removes, Row
  <2>4. \A i \in DOMAIN gone' : gone'[i].seq <= seq'
    BY <1>1, <1>4, <2>2, <2>3
  <2>5. LogOrder'
    BY <2>2, <2>4 DEF LogOrder
  <2>6. \A x : (\E r \in Range(list') : r.tx = x) <=> x # t /\ \E r \in Range(list) : r.tx = x
    BY <1>7 DEF Removes
  <2>7. GoneForGood'
    <3> SUFFICES ASSUME NEW i \in DOMAIN gone'
                 PROVE  /\ gone'[i].tx \in listed /\ gone'[i].tx \notin pool
                        /\ \A r \in Range(list') : r.tx # gone'[i].tx
                        /\ \A j \in DOMAIN frames' : frames'[j] # gone'[i].tx
      BY <1>1, <1>7 DEF GoneForGood, Removes
    <3>1. CASE gone'[i] = e
      BY <1>4, <1>7, <2>6, <3>1 DEF Removes
    <3>2. ASSUME NEW j \in DOMAIN gone, gone'[i] = gone[j]
          PROVE  /\ gone'[i].tx \in listed /\ gone'[i].tx \notin pool
                 /\ \A r \in Range(list') : r.tx # gone'[i].tx
                 /\ \A k \in DOMAIN frames' : frames'[k] # gone'[i].tx
      BY <1>2, <2>6, <3>2 DEF FeedInv, GoneForGood
    <3> QED
      BY <2>2, <3>1, <3>2
  <2>8. NewestLast'
    BY <1>1, <1>5, <1>7 DEF NewestLast, Removes
  <2>9. NoneBetween'
    <3> SUFFICES ASSUME NEW r \in Range(list'), NEW u \in listed \cap pool, r.tx < u PROVE \E q \in Range(list') : q.tx = u
      BY <1>1, <1>7 DEF NoneBetween, Removes
    <3>1. r \in Range(list) /\ u # t
      BY <1>7 DEF Removes
    <3>2. \E q \in Range(list) : q.tx = u
      BY <3>1 DEF FeedInv, NoneBetween
    <3> QED
      BY <2>6, <3>1, <3>2
  <2> QED
    BY <1>1, <2>1, <2>5, <2>7, <2>8, <2>9 DEF FeedInv
<1>8. CASE PutsOnTop(t) /\ ~burst /\ burst' = burst /\ t # Coinbase
  <2>1. /\ seq' = seq + 1 /\ listed' = listed \cup {t} /\ gone' = gone /\ t \in 1..arrived /\ \A u \in listed : u < t
        /\ Descending(list') /\ Len(list') <= Kept
    BY <1>8 DEF PutsOnTop
  <2>2. \A r \in Range(list) : cut < r.seq /\ r.seq <= seq /\ r.tx \in listed
    BY DEF FeedInv, ListOrder
  <2>3. /\ cut' \in Nat /\ cut' <= seq'
        /\ \A r \in Range(list') : cut' < r.seq /\ r.seq <= seq' /\ r.tx \in listed'
    <3>1. cut \in Nat /\ cut <= seq
      BY DEF FeedInv, ListOrder
    <3>2. CASE cut' = cut /\ Range(list') = Range(list) \cup {e}
      BY <1>1, <1>3, <1>4, <2>1, <2>2, <3>1, <3>2
    <3>3. ASSUME NEW r \in Range(list), cut' = r.seq, \A q \in Range(list) : q = r \/ q.seq > r.seq,
                 Range(list') = (Range(list) \ {r}) \cup {e}
          PROVE  /\ cut' \in Nat /\ cut' <= seq'
                 /\ \A q \in Range(list') : cut' < q.seq /\ q.seq <= seq' /\ q.tx \in listed'
      BY <1>1, <1>3, <1>4, <2>1, <2>2, <3>3
    <3> QED
      BY <1>8, <3>2, <3>3 DEF PutsOnTop, e
  <2>4. ListOrder'
    <3>1. listed' \subseteq 1..arrived'
      BY <1>1, <2>1 DEF FeedInv, ListOrder
    <3> QED
      BY <2>1, <2>3, <3>1 DEF ListOrder
  <2>5. LogOrder'
    <3>1. \A j \in DOMAIN gone : gone[j] \in Row
      BY DEF FeedInv, LogOrder
    <3>2. \A j \in DOMAIN gone : gone[j].seq \in Nat
      BY <3>1 DEF Row
    <3> QED
      BY <1>1, <2>1, <3>2 DEF FeedInv, LogOrder
  <2>6. \A r \in Range(list') : r \in Range(list) \/ r.tx = t
    BY <1>4, <1>8 DEF PutsOnTop, e
  <2>7. GoneForGood'
    <3> SUFFICES ASSUME NEW i \in DOMAIN gone
                 PROVE  /\ gone[i].tx \in listed' /\ gone[i].tx \notin pool
                        /\ \A r \in Range(list') : r.tx # gone[i].tx
                        /\ \A j \in DOMAIN frames' : frames'[j] # gone[i].tx
      BY <1>1, <2>1 DEF GoneForGood
    <3>1. t # gone[i].tx
      BY <1>2 DEF FeedInv, GoneForGood
    <3> QED
      BY <1>2, <2>1, <2>6, <3>1 DEF FeedInv, GoneForGood
  <2>8. NewestLast'
    <3>1. ASSUME NEW i \in DOMAIN frames', \A j \in DOMAIN frames' : j <= i => frames'[j] # Coinbase
          PROVE  /\ \A j \in DOMAIN frames' : j < i => frames'[j] < frames'[i]
                 /\ \A u \in listed \cup {t} : u < frames'[i]
      <4>1. i + 1 \in DOMAIN frames /\ frames'[i] = frames[i + 1] /\ i \in Nat /\ i # 0
        BY <1>1, <1>2 DEF Record
      <4>2. \A j \in DOMAIN frames : j <= i + 1 => frames[j] # Coinbase
        <5> SUFFICES ASSUME NEW j \in DOMAIN frames, j <= i + 1, j # 1 PROVE frames[j] # Coinbase
          BY <1>2, <1>8
        <5>1. j - 1 \in DOMAIN frames' /\ frames'[j - 1] = frames[j] /\ j - 1 <= i
          BY <1>2, <4>1
        <5> QED
          BY <3>1, <5>1
      <4>3. /\ \A j \in DOMAIN frames : j < i + 1 => frames[j] < frames[i + 1]
            /\ \A u \in listed : u < frames[i + 1]
        BY <1>8, <4>1, <4>2 DEF FeedInv, NewestLast
      <4>4. t < frames'[i]
        BY <1>2, <4>1, <4>3
      <4>5. ASSUME NEW j \in DOMAIN frames', j < i PROVE frames'[j] < frames'[i]
        <5>1. j + 1 \in DOMAIN frames /\ j + 1 < i + 1 /\ frames'[j] = frames[j + 1]
          BY <1>2, <4>1, <4>5
        <5> QED
          BY <4>1, <4>3, <5>1
      <4> QED
        BY <4>1, <4>3, <4>4, <4>5
    <3>2. /\ \A i, j \in DOMAIN frames' : i < j /\ frames'[j] \in pool' => frames'[i] < frames'[j]
          /\ \A i \in DOMAIN frames' : frames'[i] \in pool' => \A u \in listed' : u < frames'[i]
      BY <1>1, <1>5, <2>1
    <3> QED
      BY <2>1, <3>1, <3>2 DEF NewestLast
  <2>9. NoneBetween'
    <3> SUFFICES ASSUME NEW r \in Range(list'), NEW u \in listed' \cap pool, r.tx < u PROVE \E q \in Range(list') : q.tx = u
      BY <1>1 DEF NoneBetween
    <3>1. e \in Range(list')
      BY <1>8 DEF PutsOnTop, e
    <3>2. CASE u = t
      BY <1>4, <3>1, <3>2
    <3>3. CASE u # t
      <4>1. u \in listed /\ u < t /\ r \in Range(list)
        <5>1. u \in listed /\ u < t
          BY <2>1, <3>3
        <5>2. u \in Int /\ t \in Int
          BY <1>1, <2>1, <5>1 DEF FeedInv, ListOrder
        <5> QED
          BY <2>6, <5>1, <5>2
      <4>2. PICK q \in Range(list) : q.tx = u
        BY <4>1 DEF FeedInv, NoneBetween
      <4>3. CASE Range(list') = Range(list) \cup {e}
        BY <4>2, <4>3
      <4>4. ASSUME NEW c \in Range(list), \A p \in Range(list) : p = c \/ p.seq > c.seq,
                   Range(list') = (Range(list) \ {c}) \cup {e}
            PROVE  q \in Range(list')
        <5>1. q # c
          <6> SUFFICES ASSUME q = c PROVE FALSE
            OBVIOUS
          <6>1. r # q
            BY <1>3, <4>2, <4>1
          <6>2. r.seq > q.seq
            BY <4>1, <4>4, <6>1
          <6>3. r.tx > q.tx
            <7>1. PICK i \in DOMAIN list, j \in DOMAIN list : list[i] = r /\ list[j] = q
              BY <4>1, <4>2 DEF Range
            <7>2. i < j \/ j < i \/ i = j
              BY <1>1, RowsOfList
            <7> QED
              BY <1>3, <6>2, <7>1, <7>2, <4>1, <4>2 DEF FeedInv, ListOrder, Descending
          <6> QED
            BY <1>3, <4>1, <4>2, <6>3
        <5> QED
          BY <4>4, <5>1
      <4> QED
        BY <1>8, <4>2, <4>3, <4>4 DEF PutsOnTop, e
    <3> QED
      BY <3>2, <3>3
  <2> QED
    BY <1>1, <2>4, <2>5, <2>7, <2>8, <2>9 DEF FeedInv
<1> QED
  BY <1>6, <1>7, <1>8, RecordIs DEF t

LEMMA FeedArrives == ASSUME FeedInv, Arrive PROVE FeedInv'
<1> DEFINE n == Len(frames)
           t == arrived + 1
<1>1. /\ frames \in Seq(0..arrived) /\ arrived \in Nat /\ pool \subseteq 1..arrived /\ listed \subseteq 1..arrived
      /\ UNCHANGED <<list, gone, seq, burst, listed, cut>>
      /\ arrived' = t /\ pool' = pool \cup {t} /\ frames' = Append(frames, t)
  BY DEF Arrive, FeedInv, ListOrder, LiveInv, LiveTypes, listVars
<1>2. n \in Nat /\ DOMAIN frames = 1..n /\ \A i \in 1..n : frames[i] \in 0..arrived
  BY <1>1
<1>3. DOMAIN frames' = 1..(n + 1) /\ frames'[n + 1] = t /\ \A i \in 1..n : frames'[i] = frames[i]
  BY <1>1
<1> HIDE DEF n
<1>4. LiveInv'
  BY ArriveKeeps DEF FeedInv
<1>5. ListOrder'
  <2>1. listed \subseteq 1..t
    BY <1>1
  <2> QED
    BY <1>1, <2>1 DEF FeedInv, ListOrder
<1>6. LogOrder'
  BY <1>1 DEF FeedInv, LogOrder
<1>7. GoneForGood'
  <2> SUFFICES ASSUME NEW i \in DOMAIN gone PROVE gone[i].tx \notin pool' /\ \A j \in DOMAIN frames' : frames'[j] # gone[i].tx
    BY <1>1 DEF FeedInv, GoneForGood
  <2>1. gone[i].tx \in 1..arrived /\ gone[i].tx \notin pool /\ \A j \in 1..n : frames[j] # gone[i].tx
    BY <1>1, <1>2 DEF FeedInv, GoneForGood
  <2>2. gone[i].tx # t
    BY <1>1, <2>1
  <2>3. \A j \in DOMAIN frames' : j \in 1..n \/ j = n + 1
    BY <1>2, <1>3
  <2> QED
    BY <1>1, <1>3, <2>1, <2>2, <2>3
<1>8. NewestLast'
  <2>1. ASSUME NEW i \in DOMAIN frames', NEW j \in DOMAIN frames', i < j, frames'[j] \in pool' PROVE frames'[i] < frames'[j]
    <3>1. i \in 1..n /\ frames'[i] = frames[i] /\ frames[i] \in 0..arrived
      BY <1>2, <1>3, <2>1
    <3>2. CASE j = n + 1
      BY <1>1, <1>3, <3>1, <3>2
    <3>3. CASE j \in 1..n
      <4>1. frames[j] \in pool /\ frames'[j] = frames[j]
        BY <1>1, <1>2, <1>3, <2>1, <3>3
      <4> QED
        BY <1>2, <2>1, <3>1, <3>3, <4>1 DEF FeedInv, NewestLast
    <3> QED
      BY <1>2, <1>3, <3>2, <3>3
  <2>2. ASSUME NEW i \in DOMAIN frames', frames'[i] \in pool', NEW u \in listed PROVE u < frames'[i]
    <3>1. CASE i = n + 1
      BY <1>1, <1>3, <3>1
    <3>2. CASE i \in 1..n
      <4>1. frames[i] \in pool /\ frames'[i] = frames[i]
        BY <1>1, <1>2, <1>3, <2>2, <3>2
      <4> QED
        BY <1>2, <3>2, <4>1 DEF FeedInv, NewestLast
    <3> QED
      BY <1>2, <1>3, <3>1, <3>2
  <2>3. ASSUME ~burst, NEW i \in DOMAIN frames', \A j \in DOMAIN frames' : j <= i => frames'[j] # Coinbase
        PROVE  (\A j \in DOMAIN frames' : j < i => frames'[j] < frames'[i]) /\ \A u \in listed : u < frames'[i]
    <3>1. CASE i = n + 1
      <4>1. \A j \in DOMAIN frames' : j < i => frames'[j] \in 0..arrived
        BY <1>2, <1>3, <3>1
      <4> QED
        BY <1>1, <1>3, <3>1, <4>1
    <3>2. CASE i \in 1..n
      <4>1. \A j \in DOMAIN frames : j <= i => frames[j] # Coinbase
        BY <1>2, <1>3, <2>3, <3>2
      <4>2. (\A j \in DOMAIN frames : j < i => frames[j] < frames[i]) /\ \A u \in listed : u < frames[i]
        BY <1>2, <2>3, <3>2, <4>1 DEF FeedInv, NewestLast
      <4>3. \A j \in DOMAIN frames' : j < i => j \in DOMAIN frames /\ frames'[j] = frames[j]
        BY <1>2, <1>3, <3>2
      <4> QED
        BY <1>3, <3>2, <4>2, <4>3
    <3> QED
      BY <1>2, <1>3, <3>1, <3>2
  <2> QED
    BY <1>1, <2>1, <2>2, <2>3 DEF NewestLast
<1>9. NoneBetween'
  <2>1. listed \cap pool' = listed \cap pool
    BY <1>1
  <2> QED
    BY <1>1, <2>1 DEF FeedInv, NoneBetween
<1> QED
  BY <1>4, <1>5, <1>6, <1>7, <1>8, <1>9 DEF FeedInv

LEMMA FeedMines == ASSUME FeedInv, MineBlock PROVE FeedInv'
<1>0. PICK S \in SUBSET pool : pool' = pool \ S /\ frames' = frames \o <<Coinbase>> \o SetToSeq(S)
  BY DEF MineBlock
<1>1. /\ frames \in Seq(0..arrived) /\ arrived \in Nat /\ pool \subseteq 1..arrived /\ S \subseteq 1..arrived
      /\ UNCHANGED <<list, gone, seq, burst, listed, cut, arrived>>
  BY DEF MineBlock, FeedInv, ListOrder, LiveInv, LiveTypes, listVars
<1> DEFINE n == Len(frames)
           q == SetToSeq(S)
<1>2. /\ q \in Seq(S)
      /\ Len(q) \in Nat /\ DOMAIN q = 1..Len(q) /\ n \in Nat /\ DOMAIN frames = 1..n
      /\ DOMAIN frames' = 1..(n + 1 + Len(q))
      /\ \A i \in 1..n : frames'[i] = frames[i]
      /\ frames'[n + 1] = Coinbase
      /\ \A i \in 1..Len(q) : frames'[n + 1 + i] = q[i]
  BY <1>0, <1>1, BlockIs DEF Coinbase
<1>3. \A i \in DOMAIN q : q[i] \in S
  BY <1>2
<1> HIDE DEF n, q
\* A frame was there before, or it is behind the coinbase and is not of one that waits.
<1>4. ASSUME NEW i \in DOMAIN frames', i \notin 1..n
      PROVE  n + 1 <= i /\ n + 1 \in DOMAIN frames' /\ frames'[i] \in S \cup {Coinbase}
  <2>1. i \in Int /\ n + 1 <= i /\ n + 1 \in DOMAIN frames'
    BY <1>2, <1>4
  <2>2. CASE i = n + 1
    BY <1>2, <2>1, <2>2
  <2>3. CASE i # n + 1
    <3>1. i - (n + 1) \in 1..Len(q) /\ n + 1 + (i - (n + 1)) = i
      BY <1>2, <1>4, <2>1, <2>3
    <3> QED
      BY <1>2, <1>3, <2>1, <3>1
  <2> QED
    BY <2>2, <2>3
<1>5. Coinbase \notin pool /\ Coinbase \notin listed
  BY <1>1 DEF Coinbase, FeedInv, ListOrder
<1>6. LiveInv'
  BY MineKeeps DEF FeedInv
<1>7. ListOrder' /\ LogOrder'
  BY <1>1 DEF FeedInv, ListOrder, LogOrder
<1>8. GoneForGood'
  <2> SUFFICES ASSUME NEW i \in DOMAIN gone PROVE gone[i].tx \notin pool' /\ \A j \in DOMAIN frames' : frames'[j] # gone[i].tx
    BY <1>1 DEF FeedInv, GoneForGood
  <2>1. gone[i].tx \in listed /\ gone[i].tx \notin pool /\ \A j \in 1..n : frames[j] # gone[i].tx
    BY <1>2 DEF FeedInv, GoneForGood
  <2> QED
    BY <1>0, <1>2, <1>4, <1>5, <2>1
<1>9. NewestLast'
  <2>1. ASSUME NEW j \in DOMAIN frames', frames'[j] \in pool' PROVE j \in 1..n /\ frames'[j] = frames[j] /\ frames[j] \in pool
    BY <1>0, <1>2, <1>4, <1>5, <2>1
  <2>2. ASSUME NEW i \in DOMAIN frames', NEW j \in 1..n, i < j PROVE i \in 1..n /\ frames'[i] = frames[i]
    BY <1>2, <2>2
  <2>3. ASSUME NEW i \in DOMAIN frames', NEW j \in DOMAIN frames', i < j, frames'[j] \in pool' PROVE frames'[i] < frames'[j]
    BY <1>2, <2>1, <2>2, <2>3 DEF FeedInv, NewestLast
  <2>4. ASSUME NEW i \in DOMAIN frames', frames'[i] \in pool', NEW u \in listed PROVE u < frames'[i]
    BY <1>2, <2>1, <2>4 DEF FeedInv, NewestLast
  <2>5. ASSUME ~burst, NEW i \in DOMAIN frames', \A j \in DOMAIN frames' : j <= i => frames'[j] # Coinbase
        PROVE  (\A j \in DOMAIN frames' : j < i => frames'[j] < frames'[i]) /\ \A u \in listed : u < frames'[i]
    <3>1. i \in 1..n
      BY <1>2, <1>4, <2>5
    <3>2. \A j \in DOMAIN frames : j <= i => frames[j] # Coinbase
      BY <1>2, <2>5, <3>1
    <3>3. (\A j \in DOMAIN frames : j < i => frames[j] < frames[i]) /\ \A u \in listed : u < frames[i]
      BY <1>2, <2>5, <3>1, <3>2 DEF FeedInv, NewestLast
    <3> QED
      BY <1>2, <2>2, <3>1, <3>3
  <2> QED
    BY <1>1, <2>3, <2>4, <2>5 DEF NewestLast
<1>10. NoneBetween'
  BY <1>0, <1>1 DEF FeedInv, NoneBetween
<1> QED
  BY <1>6, <1>7, <1>8, <1>9, <1>10 DEF FeedInv

LEMMA FeedStep == FeedInv /\ [LiveNext]_liveVars => FeedInv'
<1> SUFFICES ASSUME FeedInv, [LiveNext]_liveVars PROVE FeedInv'
  OBVIOUS
<1>1. LiveInv'
  BY LiveStep DEF FeedInv
<1>2. CASE EndBurst
  <2>1. UNCHANGED <<list, gone, seq, listed, cut, arrived, pool, frames>> /\ \A i \in DOMAIN frames : frames[i] \in pool
    BY <1>2 DEF EndBurst, coreVars
  <2>2. NewestLast'
    BY <2>1 DEF FeedInv, NewestLast
  <2> QED
    BY <1>1, <2>1, <2>2 DEF FeedInv, ListOrder, LogOrder, GoneForGood, NoneBetween
<1>3. CASE Ask \/ Serve \/ Apply \/ UNCHANGED liveVars
  <2>1. UNCHANGED <<list, gone, seq, listed, cut, arrived, pool, frames, burst>>
    BY <1>3 DEF Ask, Serve, Apply, liveVars, coreVars, listVars
  <2> QED
    BY <1>1, <2>1 DEF FeedInv, ListOrder, LogOrder, GoneForGood, NoneBetween, NewestLast
<1> QED
  BY <1>2, <1>3, FeedRecords, FeedArrives, FeedMines DEF LiveNext

\* What the page has, or will have with the answer that is on its way.
OnPage == IF reply = Nothing THEN rows ELSE Applied(reply)

LogFull == Len(gone) = GoneKept /\ gone[1].seq > Had + 1

PageTypes ==
    /\ OnPage \in Seq(Row) /\ Descending(OnPage) /\ Len(OnPage) <= Kept
    /\ Had \in Nat /\ Had <= seq
    /\ \A v \in Range(OnPage) : v.seq <= Had /\ v.tx \in listed
    /\ asked \in {Nothing, Whole, top} /\ (reply # Nothing => asked # Nothing)

\* The page and the list order the transactions alike.
Agree ==
    \A r \in Range(list), v \in Range(OnPage) :
        /\ r.seq > v.seq <=> r.tx > v.tx
        /\ r.tx = v.tx => r = v

\* Below its mark the page has the list, and what it has more above it was mined since.
HasList ==
    \/ LogFull
    \/ /\ \A r \in Range(list) : r.seq <= Had => r \in Range(OnPage)
       /\ \A r \in Range(list), v \in Range(OnPage) :
             r.seq <= v.seq => v \in Range(list) \/ v.tx \in NewerMined(Had)

\* What was cut unseen was cut from a list that has been full since.
CutSeen == shrunk \/ cut <= Had \/ Len(list) = Kept

\* What is missing between the page's rows is on its way.
HolesDue ==
    shrunk \/ cut > Had
    \/ \A t \in listed \cap pool, v \in Range(OnPage) : v.tx < t =>
          \/ \E u \in Range(OnPage) : u.tx = t
          \/ \E r \in Range(list) : r.tx = t /\ r.seq > Had

PageInv == PageTypes /\ Agree /\ HasList /\ CutSeen /\ HolesDue

LEMMA OnPageStays == UNCHANGED <<rows, top, reply>> => OnPage' = OnPage /\ Had' = Had
BY DEF OnPage, Had, Applied, Picked, NthOf

LEMMA OnPageRows ==
    ASSUME PageTypes PROVE \A v \in Range(OnPage) : v \in Row /\ v.seq \in Nat /\ v.tx \in Nat
<1>1. \A i \in DOMAIN OnPage : OnPage[i] \in Row
  BY DEF PageTypes
<1> QED
  BY <1>1 DEF Range, Row

LEMMA PageInitOK == LiveInit => PageInv
<1> SUFFICES ASSUME LiveInit PROVE PageInv
  OBVIOUS
<1>1. /\ list = <<>> /\ rows = <<>> /\ top = 0 /\ asked = Nothing /\ reply = Nothing /\ seq = 0 /\ cut = 0 /\ listed = {}
  BY DEF LiveInit
<1>2. OnPage = <<>> /\ Had = 0 /\ Range(list) = {} /\ Range(OnPage) = {}
  BY <1>1 DEF OnPage, Had, Range
<1>3. PageTypes
  BY <1>1, <1>2, LiveConstants DEF PageTypes, Descending
<1> QED
  BY <1>1, <1>2, <1>3 DEF PageInv, Agree, HasList, CutSeen, HolesDue

\* What is mined after the page's mark is in the log.
LEMMA MinedIs == \A h : \A t : t \in NewerMined(h) <=> \E j \in DOMAIN gone : gone[j].seq > h /\ gone[j].tx = t
BY DEF NewerMined

LEMMA PageRecords == ASSUME FeedInv, PageInv, Record PROVE PageInv'
<1> DEFINE t == Head(frames)
           e == NewRow(t)
<1>1. /\ frames \in Seq(0..arrived) /\ arrived \in Nat /\ LiveTypes /\ seq \in Nat /\ pool' = pool
      /\ UNCHANGED <<rows, top, asked, reply>>
  BY DEF FeedInv, LiveInv, LiveTypes, Record, pageVars
<1>2. OnPage' = OnPage /\ Had' = Had
  BY <1>1, OnPageStays
<1>3. t \in 0..arrived /\ e.seq = seq + 1 /\ e.tx = t /\ e \in Row
  <2>1. t \in 0..arrived
    BY <1>1, ReadIs
  <2> QED
    BY <1>1, <2>1 DEF NewRow, Row
<1>4. \A r \in Range(list) : r \in Row /\ r.seq \in Nat /\ r.tx \in Nat
  BY <1>1, RowsOfList
<1>5. \A v \in Range(OnPage) : v \in Row /\ v.seq \in Nat /\ v.tx \in Nat
  BY OnPageRows DEF PageInv
<1>6. Had \in Nat /\ Had <= seq /\ \A v \in Range(OnPage) : v.seq <= Had /\ v.tx \in listed
  BY DEF PageInv, PageTypes
<1>7. cut \in Nat /\ cut <= seq /\ \A r \in Range(list) : cut < r.seq /\ r.seq <= seq /\ r.tx \in listed
  BY DEF FeedInv, ListOrder
<1> HIDE DEF t, e
<1>8. CASE UNCHANGED <<list, gone, seq, listed, cut, shrunk>>
  <2>1. PageTypes' /\ Agree' /\ CutSeen' /\ HolesDue'
    BY <1>1, <1>2, <1>8 DEF PageInv, PageTypes, Agree, CutSeen, HolesDue
  <2>2. HasList'
    BY <1>1, <1>2, <1>8 DEF PageInv, HasList, LogFull, NewerMined
  <2> QED
    BY <2>1, <2>2 DEF PageInv
<1>9. CASE Removes(t)
  <2>1. /\ t \in listed /\ t \notin pool /\ seq' = seq + 1 /\ listed' = listed /\ cut' = cut
        /\ shrunk' = (shrunk \/ cut > Had) /\ Range(list') = {r \in Range(list) : r.tx # t}
    BY <1>9 DEF Removes
  <2>2. PageTypes'
    <3>1. Had <= seq'
      BY <1>1, <1>6, <2>1
    <3> QED
      BY <1>1, <1>2, <2>1, <3>1 DEF PageInv, PageTypes
  <2>3. Agree'
    BY <1>2, <2>1 DEF PageInv, Agree
  <2>4. CutSeen'
    <3>1. cut <= Had \/ cut > Had
      BY <1>6, <1>7
    <3>2. cut > Had => shrunk'
      BY <2>1, Zenon
    <3>3. cut <= Had => cut' <= Had'
      BY <1>2, <2>1
    <3> QED
      BY <3>1, <3>2, <3>3, Zenon DEF CutSeen
  <2>5. HolesDue'
    <3> SUFFICES ASSUME ~shrunk', ~(cut > Had), NEW u \in listed \cap pool, NEW v \in Range(OnPage), v.tx < u
                 PROVE  (\E w \in Range(OnPage) : w.tx = u) \/ \E r \in Range(list') : r.tx = u /\ r.seq > Had
      BY <1>1, <1>2, <2>1 DEF HolesDue
    <3>1. u # t /\ ~shrunk
      BY <2>1
    <3>2. (\E w \in Range(OnPage) : w.tx = u) \/ \E r \in Range(list) : r.tx = u /\ r.seq > Had
      BY <3>1 DEF PageInv, HolesDue
    <3> QED
      BY <2>1, <3>1, <3>2
  <2>6. HasList'
    <3>1. /\ \E i \in DOMAIN gone' : gone'[i] = e
          /\ \A h \in Nat : Len(gone) = GoneKept /\ gone[1].seq > h => Len(gone') = GoneKept /\ gone'[1].seq > h
          /\ \A j \in DOMAIN gone, h \in Nat : gone[j].seq >= h =>
                (\E i \in DOMAIN gone' : gone'[i] = gone[j]) \/ (Len(gone') = GoneKept /\ gone'[1].seq > h)
      BY <1>1, <1>3, <1>9, LogGoneIs DEF FeedInv, Removes, e
    <3>2. CASE LogFull
      <4>1. LogFull'
        BY <1>2, <1>6, <3>1, <3>2 DEF LogFull
      <4> QED
        BY <4>1 DEF HasList
    <3>3. CASE ~LogFull /\ ~LogFull'
      <4>1. /\ \A r \in Range(list) : r.seq <= Had => r \in Range(OnPage)
            /\ \A r \in Range(list), v \in Range(OnPage) :
                  r.seq <= v.seq => v \in Range(list) \/ v.tx \in NewerMined(Had)
        BY <3>3 DEF PageInv, HasList
      <4>2. \A x : x \in NewerMined(Had) => x \in NewerMined(Had)'
        <5> SUFFICES ASSUME NEW j \in DOMAIN gone, gone[j].seq > Had
                     PROVE  \E i \in DOMAIN gone' : gone'[i].seq > Had /\ gone'[i].tx = gone[j].tx
          BY <1>2 DEF NewerMined
        <5>1. gone[j].seq >= Had + 1 /\ Had + 1 \in Nat
          <6>1. gone[j] \in Row
            BY DEF FeedInv, LogOrder
          <6> QED
            BY <1>6, <6>1 DEF Row
        <5>2. ~(Len(gone') = GoneKept /\ gone'[1].seq > Had + 1)
          BY <1>2, <3>3 DEF LogFull
        <5> QED
          BY <3>1, <5>1, <5>2
      <4>3. t \in NewerMined(Had)'
        <5>1. \E i \in DOMAIN gone' : gone'[i].seq > Had /\ gone'[i].tx = t
          BY <1>1, <1>3, <1>6, <3>1
        <5> QED
          BY <1>2, <5>1 DEF NewerMined
      <4>4. \A v : v \in Range(list) => v \in Range(list') \/ v.tx = t
        BY <2>1
      <4>5. /\ \A r \in Range(list') : r.seq <= Had => r \in Range(OnPage)
            /\ \A r \in Range(list'), v \in Range(OnPage) :
                  r.seq <= v.seq => v \in Range(list') \/ v.tx \in NewerMined(Had)'
        BY <2>1, <4>1, <4>2, <4>3, <4>4
      <4> QED
        BY <1>2, <4>5 DEF HasList
    <3> QED
      BY <3>2, <3>3 DEF HasList
  <2> QED
    BY <2>2, <2>3, <2>4, <2>5, <2>6 DEF PageInv
<1>10. CASE PutsOnTop(t)
  <2>1. /\ seq' = seq + 1 /\ listed' = listed \cup {t} /\ gone' = gone /\ shrunk' = shrunk /\ t \in 1..arrived
        /\ \A u \in listed : u < t
    BY <1>10 DEF PutsOnTop
  <2>2. \/ cut' = cut /\ Len(list) < Kept /\ Range(list') = Range(list) \cup {e}
        \/ /\ Len(list') = Kept
           /\ \E c \in Range(list) : /\ cut' = c.seq /\ \A q \in Range(list) : q = c \/ q.seq > c.seq
                                     /\ Range(list') = (Range(list) \ {c}) \cup {e}
    BY <1>10 DEF PutsOnTop, e
  <2>3. e \in Range(list') /\ \A r \in Range(list') : r = e \/ r \in Range(list)
    BY <2>2
  <2>4. PageTypes'
    <3>1. Had <= seq'
      BY <1>1, <1>6, <2>1
    <3> QED
      BY <1>1, <1>2, <2>1, <3>1 DEF PageInv, PageTypes
  <2>5. Agree'
    <3>1. \A v \in Range(OnPage) : e.seq > v.seq /\ e.tx > v.tx /\ e.tx # v.tx
      BY <1>1, <1>3, <1>5, <1>6, <2>1
    <3> QED
      BY <1>2, <2>3, <3>1 DEF PageInv, Agree
  <2>6. CutSeen'
    <3>1. Len(list) < Kept => Len(list) # Kept
      <4>1. Len(list) \in Nat /\ Kept \in Nat
        BY <1>1, RowsOfList, LiveConstants
      <4> QED
        BY <4>1
    <3> QED
      BY <1>2, <2>1, <2>2, <3>1 DEF PageInv, CutSeen
  <2>7. HolesDue'
    <3> SUFFICES ASSUME ~shrunk, ~(cut' > Had), NEW u \in listed' \cap pool, NEW v \in Range(OnPage), v.tx < u
                 PROVE  (\E w \in Range(OnPage) : w.tx = u) \/ \E r \in Range(list') : r.tx = u /\ r.seq > Had
      BY <1>1, <1>2, <2>1 DEF HolesDue
    <3>1. CASE u = t
      BY <1>1, <1>3, <1>6, <2>3, <3>1
    <3>2. CASE u # t
      <4>1. ~(cut > Had)
        BY <1>4, <1>6, <1>7, <2>2
      <4>2. (\E w \in Range(OnPage) : w.tx = u) \/ \E r \in Range(list) : r.tx = u /\ r.seq > Had
        BY <2>1, <3>2, <4>1 DEF PageInv, HolesDue
      <4>3. \A r \in Range(list) : r.seq > Had => r \in Range(list')
        BY <1>4, <1>6, <2>2
      <4> QED
        BY <4>2, <4>3
    <3> QED
      BY <3>1, <3>2
  <2>8. HasList'
    <3>1. CASE LogFull
      BY <1>2, <2>1, <3>1 DEF HasList, LogFull
    <3>2. CASE ~LogFull
      <4>1. /\ \A r \in Range(list) : r.seq <= Had => r \in Range(OnPage)
            /\ \A r \in Range(list), v \in Range(OnPage) :
                  r.seq <= v.seq => v \in Range(list) \/ v.tx \in NewerMined(Had)
        BY <3>2 DEF PageInv, HasList
      <4>2. NewerMined(Had)' = NewerMined(Had)
        BY <1>2, <2>1 DEF NewerMined
      <4>3. \A v \in Range(OnPage) : ~(e.seq <= Had) /\ ~(e.seq <= v.seq)
        BY <1>1, <1>3, <1>5, <1>6
      <4>4. ASSUME NEW r \in Range(list'), NEW v \in Range(OnPage), r.seq <= v.seq
            PROVE  v \in Range(list') \/ v.tx \in NewerMined(Had)
        <5>1. r \in Range(list)
          BY <2>3, <4>3, <4>4
        <5>2. CASE v \in Range(list)
          <6>1. CASE Range(list') = Range(list) \cup {e}
            BY <5>2, <6>1
          <6>2. ASSUME NEW c \in Range(list), \A q \in Range(list) : q = c \/ q.seq > c.seq,
                       Range(list') = (Range(list) \ {c}) \cup {e}
                PROVE  v \in Range(list')
            <7>1. r # c
              <8>1. e \notin Range(list)
                BY <1>1, <1>3, <1>7
              <8> QED
                BY <4>4, <5>1, <6>2, <8>1
            <7>2. v # c
              BY <1>4, <4>4, <5>1, <5>2, <6>2, <7>1
            <7> QED
              BY <5>2, <6>2, <7>2
          <6> QED
            BY <2>2, <6>1, <6>2
        <5> QED
          BY <4>1, <4>4, <5>1, <5>2
      <4>5. \A r \in Range(list') : r.seq <= Had => r \in Range(OnPage)
        <5> SUFFICES ASSUME NEW r \in Range(list'), r.seq <= Had PROVE r \in Range(OnPage)
          OBVIOUS
        <5>1. r # e
          BY <1>1, <1>3, <1>6
        <5> QED
          BY <2>3, <4>1, <5>1
      <4> QED
        BY <1>2, <4>2, <4>4, <4>5 DEF HasList
    <3> QED
      BY <3>1, <3>2
  <2> QED
    BY <2>4, <2>5, <2>6, <2>7, <2>8 DEF PageInv
<1> QED
  BY <1>8, <1>9, <1>10, RecordIs DEF t

\* As the newest come first, what comes before the first row that is not newer is newer.
LEMMA TakenIs ==
    ASSUME FeedInv, NEW after \in Int
    PROVE  {i \in DOMAIN list : \A j \in 1..i : list[j].seq > after} = {i \in DOMAIN list : list[i].seq > after}
<1>1. DOMAIN list = 1..Len(list) /\ Len(list) \in Nat /\ \A i \in DOMAIN list : list[i].seq \in Nat
  BY RowsOfList DEF FeedInv, LiveInv, Range
<1>2. ASSUME NEW i \in DOMAIN list, list[i].seq > after, NEW j \in 1..i PROVE list[j].seq > after
  <2>1. j \in DOMAIN list /\ (j = i \/ j < i)
    BY <1>1
  <2>2. j < i => list[j].seq > list[i].seq
    BY <2>1 DEF FeedInv, ListOrder, Descending
  <2> QED
    BY <1>1, <1>2, <2>1, <2>2
<1>3. \A i \in DOMAIN list : i \in 1..i
  BY <1>1
<1> QED
  BY <1>2, <1>3

\* What the page has with an answer, before the cut at Kept: the newer rows of the
\* list, and under them its own that were not mined.
LEMMA AppliedIs ==
    ASSUME FeedInv, PageInv, reply = Nothing, asked = top, asked # Whole, ~More(asked)
    PROVE  LET s == Applied(Mempool(asked)) IN
           /\ s \in Seq(Row) /\ Descending(s) /\ Len(s) <= Kept
           /\ \A v \in Range(s) : v \in Range(list) \/ v \in Range(OnPage)
           /\ Len(list) <= Len(s) /\ \A i \in DOMAIN list : s[i] = list[i]
           /\ \A v \in Range(s), i \in DOMAIN list : list[i].seq <= v.seq => v \in Range(list)
           /\ \A u \in Range(OnPage), v \in Range(s) : v.tx < u.tx /\ u.tx \in pool => u \in Range(s)
<1> DEFINE r == Mempool(asked)
           D == {i \in DOMAIN list : list[i].seq > top}
           k == Cardinality(D)
           a == SubSeq(list, 1, k)
           ps == {i \in DOMAIN rows : ~r.whole /\ rows[i].tx \notin r.mined}
           b == Picked(rows, ps)
           new == a \o b
           s == Applied(r)
<1>1. /\ list \in Seq(Row) /\ LiveTypes /\ \A x \in Range(list) : x \in Row /\ x.seq \in Nat /\ x.tx \in Nat
  BY RowsOfList DEF FeedInv, LiveInv
<1>2. OnPage = rows /\ Had = top /\ rows \in Seq(Row) /\ top \in Nat /\ Len(list) \in Nat /\ DOMAIN list = 1..Len(list)
  BY <1>1 DEF OnPage, Had, PageInv, PageTypes
<1>3. \A i \in DOMAIN list : list[i] \in Range(list) /\ list[i].seq \in Nat /\ list[i].tx \in Nat
  BY <1>1 DEF Range
<1>4. \A i \in DOMAIN rows : rows[i] \in Range(OnPage) /\ rows[i].seq \in Nat /\ rows[i].tx \in Nat /\ rows[i].seq <= top
  <2>1. \A i \in DOMAIN rows : rows[i] \in Range(OnPage)
    BY <1>2 DEF Range
  <2> QED
    BY <1>2, <2>1, OnPageRows DEF PageInv, PageTypes
<1>5. /\ k \in Nat /\ k <= Len(list) /\ D = 1..k
  <2>1. \A i \in D, j \in 1..Len(list) : j < i => j \in D
    BY <1>2, <1>3 DEF FeedInv, ListOrder, Descending
  <2>2. D \in SUBSET (1..Len(list))
    BY <1>2
  <2> HIDE DEF D
  <2> QED
    BY <1>2, <2>1, <2>2, FirstOnes
<1>6. /\ a \in Seq(Row) /\ Len(a) = k /\ DOMAIN a = 1..k
      /\ \A i \in 1..k : a[i] = list[i] /\ i \in DOMAIN list /\ list[i].seq > top
      /\ \A i \in DOMAIN list : list[i].seq > top => i \in 1..k
  <2>1. \A i \in 1..k : i \in D
    BY <1>5
  <2>2. \A i \in DOMAIN list : list[i].seq > top => i \in 1..k
    BY <1>5
  <2>3. \A i \in 1..k : i \in DOMAIN list /\ list[i].seq > top
    BY <2>1
  <2> HIDE DEF k
  <2>4. a \in Seq(Row) /\ Len(a) = k /\ DOMAIN a = 1..k /\ \A i \in 1..k : a[i] = list[i]
    BY <1>1, <1>2, <1>5
  <2> QED
    BY <2>2, <2>3, <2>4
<1>7. /\ r.whole = FALSE /\ r.mined = NewerMined(top) /\ r.txs = a
  <2>1. {i \in DOMAIN list : \A j \in 1..i : list[j].seq > top} = D
    BY <1>2, TakenIs
  <2>2. r.whole = FALSE /\ r.mined = NewerMined(top) /\ r.txs = NewerRows(top)
    BY DEF Mempool
  <2> HIDE DEF D
  <2>3. NewerRows(top) = a
    BY <2>1 DEF NewerRows
  <2> QED
    BY <2>2, <2>3
<1>8. \A i \in DOMAIN rows : i \in ps <=> rows[i].tx \notin NewerMined(top)
  BY <1>7
<1>9. s = SubSeq(new, 1, IF Len(new) > Kept THEN Kept ELSE Len(new))
  BY <1>7 DEF Applied
<1>10. ps \in SUBSET DOMAIN rows
  OBVIOUS
<1> HIDE DEF D, k, a, ps, r
<1>11. /\ b \in Seq(Row)
       /\ \A i \in DOMAIN b : NthOf(ps, i) \in ps /\ b[i] = rows[NthOf(ps, i)]
       /\ \A i, j \in DOMAIN b : i < j => NthOf(ps, i) < NthOf(ps, j)
       /\ \A p \in ps : \E i \in DOMAIN b : NthOf(ps, i) = p
  BY <1>2, <1>10, PickedIs
<1> HIDE DEF b
<1>12. /\ \A i \in DOMAIN b : /\ b[i] \in Range(OnPage) /\ b[i].tx \notin NewerMined(top)
                              /\ b[i].seq \in Nat /\ b[i].tx \in Nat /\ b[i].seq <= top
       /\ \A i \in DOMAIN rows : rows[i].tx \notin NewerMined(top) => \E j \in DOMAIN b : b[j] = rows[i]
       /\ \A i, j \in DOMAIN b : i < j => b[i].seq > b[j].seq /\ b[i].tx > b[j].tx
  <2>1. \A i \in DOMAIN b : NthOf(ps, i) \in DOMAIN rows
    BY <1>10, <1>11
  <2>2. \A i, j \in DOMAIN rows : i < j => rows[i].seq > rows[j].seq /\ rows[i].tx > rows[j].tx
    BY <1>2 DEF PageInv, PageTypes, Descending
  <2> QED
    BY <1>4, <1>8, <1>11, <2>1, <2>2
<1>13. /\ new \in Seq(Row) /\ Len(new) = k + Len(b) /\ Len(b) \in Nat /\ DOMAIN b = 1..Len(b) /\ DOMAIN new = 1..(k + Len(b))
       /\ \A i \in 1..(k + Len(b)) : new[i] = IF i <= k THEN a[i] ELSE b[i - k]
  <2>1. /\ new \in Seq(Row) /\ Len(new) = Len(a) + Len(b)
        /\ \A i \in 1..(Len(a) + Len(b)) : new[i] = IF i <= Len(a) THEN a[i] ELSE b[i - Len(a)]
    BY <1>6, <1>11, ConcatProperties
  <2>2. Len(a) = k
    BY <1>6
  <2> HIDE DEF new
  <2>3. Len(b) \in Nat /\ DOMAIN b = 1..Len(b) /\ DOMAIN new = 1..Len(new)
    BY <1>11, <2>1
  <2> QED
    BY <2>1, <2>2, <2>3
<1> HIDE DEF new
<1>14. \A i \in DOMAIN new : \/ i \in 1..k /\ new[i] = list[i] /\ i \in DOMAIN list /\ list[i].seq > top
                             \/ i > k /\ i - k \in DOMAIN b /\ new[i] = b[i - k]
  BY <1>5, <1>6, <1>13
<1>15. /\ \A i \in DOMAIN list : list[i].seq > top => i \in DOMAIN new /\ new[i] = list[i]
       /\ \A j \in DOMAIN b : k + j \in DOMAIN new /\ new[k + j] = b[j]
  <2>1. \A i \in 1..k : i \in DOMAIN new /\ new[i] = list[i]
    BY <1>5, <1>6, <1>13
  <2>2. ASSUME NEW j \in DOMAIN b PROVE k + j \in DOMAIN new /\ new[k + j] = b[j]
    <3>1. k + j \in DOMAIN new /\ ~(k + j <= k) /\ (k + j) - k = j
      BY <1>5, <1>13
    <3> QED
      BY <1>13, <3>1
  <2> QED
    BY <1>6, <2>1, <2>2
<1>16. Descending(new)
  <2> SUFFICES ASSUME NEW i \in DOMAIN new, NEW j \in DOMAIN new, i < j PROVE new[i].seq > new[j].seq /\ new[i].tx > new[j].tx
    BY DEF Descending
  <2>0. i \in Int /\ j \in Int /\ k \in Int
    BY <1>5, <1>13
  <2>1. CASE j \in 1..k
    <3>1. i \in 1..k
      BY <2>0, <2>1, <1>13
    <3>2. new[i] = list[i] /\ new[j] = list[j] /\ i \in DOMAIN list /\ j \in DOMAIN list
      BY <1>14, <2>0, <2>1, <3>1
    <3> QED
      BY <3>2 DEF FeedInv, ListOrder, Descending
  <2>2. CASE i \in 1..k /\ j > k
    <3>1. new[i] = list[i] /\ i \in DOMAIN list /\ list[i].seq > top /\ j - k \in DOMAIN b /\ new[j] = b[j - k]
      BY <1>14, <2>0, <2>2
    <3>2. list[i].seq > b[j - k].seq /\ list[i] \in Range(list) /\ b[j - k] \in Range(OnPage)
      BY <1>2, <1>3, <1>12, <3>1
    <3> QED
      BY <3>1, <3>2 DEF PageInv, Agree
  <2>3. CASE i > k
    <3>1. i - k \in DOMAIN b /\ j - k \in DOMAIN b /\ new[i] = b[i - k] /\ new[j] = b[j - k] /\ i - k < j - k
      BY <1>14, <2>0, <2>3
    <3> QED
      BY <1>12, <3>1
  <2> QED
    BY <1>13, <1>14, <2>0, <2>1, <2>2, <2>3
\* The list, but for what is newer, is among the page's own rows.
<1>17. /\ \A x \in Range(list) : x.seq <= top => x \in Range(OnPage)
       /\ \A x \in Range(list), v \in Range(OnPage) : x.seq <= v.seq => v \in Range(list) \/ v.tx \in NewerMined(top)
  <2>1. ~LogFull
    BY <1>2 DEF LogFull, More
  <2> QED
    BY <1>2, <2>1 DEF PageInv, HasList
<1>18. Range(list) \subseteq Range(new)
  <2> SUFFICES ASSUME NEW i \in DOMAIN list PROVE list[i] \in Range(new)
    BY DEF Range
  <2>1. CASE list[i].seq > top
    BY <1>15, <2>1 DEF Range
  <2>2. CASE ~(list[i].seq > top)
    <3>1. list[i] \in Range(OnPage)
      BY <1>2, <1>3, <1>17, <2>2
    <3>2. PICK j \in DOMAIN rows : rows[j] = list[i]
      BY <1>2, <3>1 DEF Range
    <3>3. list[i].tx \notin NewerMined(top)
      BY <1>3, MinedIs DEF FeedInv, GoneForGood
    <3>4. PICK m \in DOMAIN b : b[m] = list[i]
      BY <1>12, <3>2, <3>3
    <3> QED
      BY <1>15, <3>4 DEF Range
  <2> QED
    BY <2>1, <2>2
<1>19. \A v \in Range(new) : \/ v \in Range(list)
                             \/ v \in Range(OnPage) /\ v.tx \notin NewerMined(top)
  <2> SUFFICES ASSUME NEW i \in DOMAIN new
               PROVE  new[i] \in Range(list) \/ (new[i] \in Range(OnPage) /\ new[i].tx \notin NewerMined(top))
    BY DEF Range
  <2> QED
    BY <1>3, <1>12, <1>14
<1>20. \A v \in Range(new), i \in DOMAIN list : list[i].seq <= v.seq => v \in Range(list)
  BY <1>3, <1>17, <1>19
<1>21. Len(list) <= Len(new) /\ \A i \in DOMAIN list : new[i] = list[i]
  BY <1>1, <1>13, <1>16, <1>18, <1>20, BeginsWith DEF FeedInv, ListOrder
<1> DEFINE m == IF Len(new) > Kept THEN Kept ELSE Len(new)
<1>22. Kept \in Nat /\ Len(new) \in Nat /\ m \in Nat /\ m <= Kept /\ m <= Len(new) /\ Len(list) <= m
       /\ (m = Kept \/ m = Len(new))
  BY <1>2, <1>13, <1>21, LiveConstants DEF FeedInv, ListOrder
<1> HIDE DEF m
<1>23. s = SubSeq(new, 1, m)
  BY <1>9 DEF m
<1> HIDE DEF s
<1>24. s \in Seq(Row) /\ Len(s) = m /\ DOMAIN s = 1..m /\ \A i \in 1..m : s[i] = new[i] /\ i \in DOMAIN new
  BY <1>13, <1>22, <1>23
<1>25. Descending(s)
  BY <1>16, <1>24 DEF Descending
<1>26. \A v \in Range(s) : v \in Range(new)
  BY <1>24 DEF Range
<1>27. \A i \in DOMAIN list : s[i] = list[i]
  BY <1>2, <1>21, <1>22, <1>24
<1>28. ASSUME NEW u \in Range(OnPage), NEW v \in Range(s), v.tx < u.tx, u.tx \in pool PROVE u \in Range(s)
  <2>1. u.tx \notin NewerMined(top)
    BY <1>28, MinedIs DEF FeedInv, GoneForGood
  <2>2. PICK j \in DOMAIN rows : rows[j] = u
    BY <1>2 DEF Range
  <2>3. PICK p \in DOMAIN new : new[p] = u
    BY <1>12, <1>15, <2>1, <2>2
  <2>4. PICK q \in DOMAIN s : s[q] = v
    BY DEF Range
  <2>5. q \in 1..m /\ q \in DOMAIN new /\ new[q] = v
    BY <1>24, <2>4
  <2>6. ~(q < p) /\ q # p
    <3>1. u.tx \in Nat
      BY <1>4, <2>2
    <3>2. v.tx \in Nat
      <4>1. s[q] \in Row
        BY <1>24, <2>4
      <4> QED
        BY <2>4, <4>1 DEF Row
    <3>3. ~(v.tx > u.tx) /\ ~(u.tx < v.tx) /\ u # v
      BY <1>28, <3>1, <3>2
    <3>4. q < p => new[q].tx > new[p].tx
      BY <1>16, <2>5 DEF Descending
    <3> QED
      BY <1>28, <2>3, <2>5, <3>1, <3>2, <3>4
  <2>7. p \in 1..m
    BY <1>13, <1>22, <2>5, <2>6
  <2> QED
    BY <1>24, <2>3, <2>7 DEF Range
<1> QED
  BY <1>19, <1>20, <1>22, <1>24, <1>25, <1>26, <1>27, <1>28 DEF s, r

\* An answer is one.
LEMMA MempoolIs ==
    ASSUME FeedInv, NEW after
    PROVE  Mempool(after) \in Payloads /\ Mempool(after) # Nothing
<1>1. list \in Seq(Row) /\ seq \in Nat /\ \A i \in DOMAIN gone : gone[i] \in Row
  BY RowsOfList DEF FeedInv, LiveInv, LiveTypes, LogOrder
<1>2. NewerMined(after) \in SUBSET Nat
  BY <1>1 DEF NewerMined, Row
<1>3. NewerRows(after) \in Seq(Row)
  <2> DEFINE D == {i \in DOMAIN list : \A j \in 1..i : list[j].seq > after}
             k == Cardinality(D)
  <2>1. IsFiniteSet(1..Len(list)) /\ Cardinality(1..Len(list)) = Len(list) /\ D \in SUBSET (1..Len(list))
    <3>1. Len(list) \in Nat /\ D \in SUBSET (1..Len(list))
      BY <1>1
    <3> QED
      BY <3>1, UpTo
  <2>2. IsFiniteSet(D) /\ k <= Len(list)
    <3> HIDE DEF D
    <3> QED
      BY <2>1, FS_Subset
  <2>3. k \in Nat
    BY <2>2, FS_CardinalityType
  <2> HIDE DEF k, D
  <2>4. SubSeq(list, 1, k) \in Seq(Row)
    BY <1>1, <2>2, <2>3
  <2> QED
    BY <2>4 DEF NewerRows, k, D
<1>4. (after = Whole) \in BOOLEAN /\ NewerRows(after) \in Seq([seq : Nat, tx : Nat])
  BY <1>3 DEF Row
<1>5. Mempool(after) \in Payloads
  BY <1>1, <1>2, <1>4, Zenon DEF Mempool, Payloads
<1> QED
  BY <1>5, LiveConstants

\* The whole list replaces what a page has.
LEMMA WholeIs == ASSUME FeedInv PROVE Applied(Mempool(Whole)) = list
<1> DEFINE D == {i \in DOMAIN list : list[i].seq > Whole}
           r == Mempool(Whole)
           ps == {i \in DOMAIN rows : ~r.whole /\ rows[i].tx \notin r.mined}
<1>1. /\ list \in Seq(Row) /\ Len(list) \in Nat /\ DOMAIN list = 1..Len(list) /\ Len(list) <= Kept /\ Kept \in Nat
      /\ \A x \in Range(list) : x.seq \in Nat
  BY RowsOfList, LiveConstants DEF FeedInv, LiveInv, ListOrder
<1>2. D = 1..Len(list)
  <2>1. \A i \in DOMAIN list : list[i].seq > Whole
    BY <1>1 DEF Range, Whole
  <2> QED
    BY <1>1, <2>1
<1>3. r.whole = TRUE /\ r.txs = SubSeq(list, 1, Cardinality(D))
  <2>1. {i \in DOMAIN list : \A j \in 1..i : list[j].seq > Whole} = D
    BY TakenIs DEF Whole
  <2>2. r.whole = TRUE /\ r.txs = NewerRows(Whole)
    BY DEF Mempool
  <2> HIDE DEF D
  <2> QED
    BY <2>1, <2>2 DEF NewerRows
<1>4. Cardinality(1..Len(list)) = Len(list)
  BY <1>1, UpTo
<1>5. r.txs = list
  <2>1. SubSeq(list, 1, Len(list)) = list
    BY <1>1
  <2> QED
    BY <1>2, <1>3, <1>4, <2>1
<1>6. ps = {}
  BY <1>3
<1>7. Picked(rows, ps) = <<>>
  <2>1. Cardinality(ps) = 0
    BY <1>6, FS_EmptySet
  <2>2. 1..Cardinality(ps) = {}
    BY <2>1
  <2> QED
    BY <2>2 DEF Picked
<1>8. r.txs \o Picked(rows, ps) = list
  BY <1>1, <1>5, <1>7, ConcatEmptySeq
<1>9. SubSeq(list, 1, IF Len(list) > Kept THEN Kept ELSE Len(list)) = list
  <2> DEFINE n == Len(list)
  <2>1. n \in Nat /\ n <= Kept /\ Kept \in Nat /\ SubSeq(list, 1, n) = list
    BY <1>1
  <2> HIDE DEF n
  <2>2. (IF n > Kept THEN Kept ELSE n) = n
    BY <2>1
  <2>3. SubSeq(list, 1, IF n > Kept THEN Kept ELSE n) = list
    BY <2>1, <2>2
  <2> QED
    BY <2>3 DEF n
<1> QED
  BY <1>8, <1>9 DEF Applied

\* An answer is on its way: the page has what it will have with it.
LEMMA PageAnswered ==
    ASSUME FeedInv, PageInv, asked # Nothing, reply = Nothing, asked # Whole => ~More(asked),
           reply' = Mempool(asked), shrunk' = (shrunk /\ asked # Whole),
           UNCHANGED <<coreVars, list, gone, seq, burst, listed, cut, rows, top, asked>>
    PROVE  PageInv'
<1>1. reply' # Nothing /\ Mempool(asked).top = seq
  BY MempoolIs DEF Mempool
<1>2. OnPage' = Applied(Mempool(asked)) /\ Had' = seq
  <2>1. Applied(reply)' = Applied(Mempool(asked))
    BY DEF Applied, Picked, NthOf
  <2>2. Had' = seq
    BY <1>1 DEF Had
  <2> QED
    BY <1>1, <2>1, <2>2 DEF OnPage
<1>3. /\ list \in Seq(Row) /\ seq \in Nat /\ \A x \in Range(list) : x \in Row /\ x.seq \in Nat /\ x.tx \in Nat
      /\ \A x \in Range(list) : x.seq <= seq /\ x.tx \in listed
      /\ cut \in Nat /\ cut <= seq /\ Len(list) <= Kept /\ Descending(list)
      /\ UNCHANGED <<list, gone, seq, listed, cut, pool, top, asked>>
  BY RowsOfList DEF FeedInv, LiveInv, LiveTypes, ListOrder, coreVars
<1>4. CutSeen'
  BY <1>2, <1>3 DEF CutSeen
<1>5. \A q, x \in Range(list) : /\ q.seq > x.seq <=> q.tx > x.tx
                                /\ q.tx = x.tx => q = x
  <2> SUFFICES ASSUME NEW i \in DOMAIN list, NEW j \in DOMAIN list
               PROVE  /\ list[i].seq > list[j].seq <=> list[i].tx > list[j].tx
                      /\ list[i].tx = list[j].tx => list[i] = list[j]
    BY DEF Range
  <2>1. i < j \/ j < i \/ i = j
    BY <1>3
  <2>2. /\ list[i].seq \in Nat /\ list[i].tx \in Nat /\ list[j].seq \in Nat /\ list[j].tx \in Nat
        /\ i < j => list[i].seq > list[j].seq /\ list[i].tx > list[j].tx
        /\ j < i => list[j].seq > list[i].seq /\ list[j].tx > list[i].tx
    BY <1>3 DEF Range, Descending
  <2> QED
    BY <2>1, <2>2
<1>6. CASE asked = Whole
  <2>1. OnPage' = list
    BY <1>2, <1>6, WholeIs
  <2>2. PageTypes'
    BY <1>1, <1>2, <1>3, <2>1 DEF PageInv, PageTypes
  <2>3. Agree'
    BY <1>3, <1>5, <2>1 DEF Agree
  <2>4. HasList'
    BY <1>3, <2>1 DEF HasList
  <2>5. HolesDue'
    <3>1. \A t \in listed \cap pool, v \in Range(list) : v.tx < t => \E u \in Range(list) : u.tx = t
      BY DEF FeedInv, NoneBetween
    <3> QED
      BY <1>3, <2>1, <3>1 DEF HolesDue
  <2> QED
    BY <1>4, <2>2, <2>3, <2>4, <2>5 DEF PageInv
<1>7. CASE asked # Whole
  <2> DEFINE s == Applied(Mempool(asked))
  <2>1. asked = top /\ Had = top
    BY <1>7 DEF PageInv, PageTypes, Had
  <2>2. /\ s \in Seq(Row) /\ Descending(s) /\ Len(s) <= Kept
        /\ \A v \in Range(s) : v \in Range(list) \/ v \in Range(OnPage)
        /\ Len(list) <= Len(s) /\ \A i \in DOMAIN list : s[i] = list[i]
        /\ \A v \in Range(s), i \in DOMAIN list : list[i].seq <= v.seq => v \in Range(list)
        /\ \A u \in Range(OnPage), v \in Range(s) : v.tx < u.tx /\ u.tx \in pool => u \in Range(s)
    BY <1>7, <2>1, AppliedIs
  <2> HIDE DEF s
  <2>3. OnPage' = s
    BY <1>2 DEF s
  <2>4. Range(list) \subseteq Range(s)
    <3> SUFFICES ASSUME NEW i \in DOMAIN list PROVE list[i] \in Range(s)
      BY DEF Range
    <3>1. i \in DOMAIN s
      <4>1. Len(s) \in Nat /\ DOMAIN s = 1..Len(s) /\ Len(list) \in Nat /\ DOMAIN list = 1..Len(list) /\ Len(list) <= Len(s)
        BY <1>3, <2>2
      <4> QED
        BY <4>1
    <3> QED
      BY <2>2, <3>1 DEF Range
  <2>5. \A v \in Range(OnPage) : v.seq \in Nat /\ v.tx \in Nat /\ v.seq <= Had /\ v.tx \in listed /\ Had \in Nat /\ Had <= seq
    BY OnPageRows DEF PageInv, PageTypes
  <2>6. PageTypes'
    <3>1. \A v \in Range(s) : v.seq <= seq /\ v.tx \in listed
      BY <1>3, <2>2, <2>5
    <3>2. asked' \in {Nothing, Whole, top'}
      BY <1>3, <2>1
    <3>3. reply' # Nothing => asked' # Nothing
      BY <1>3
    <3> QED
      BY <1>2, <1>3, <2>2, <2>3, <3>1, <3>2, <3>3 DEF PageTypes
  <2>7. Agree'
    <3> SUFFICES ASSUME NEW q \in Range(list), NEW v \in Range(s)
                 PROVE  /\ q.seq > v.seq <=> q.tx > v.tx
                        /\ q.tx = v.tx => q = v
      BY <1>3, <2>3 DEF Agree
    <3> QED
      BY <1>5, <2>2 DEF PageInv, Agree
  <2>8. HasList'
    <3>1. \A q \in Range(list) : q \in Range(s)
      BY <2>4
    <3>2. \A q \in Range(list), v \in Range(s) : q.seq <= v.seq => v \in Range(list)
      BY <2>2 DEF Range
    <3> QED
      BY <1>3, <2>3, <3>1, <3>2 DEF HasList
  <2>9. HolesDue'
    <3> SUFFICES ASSUME ~shrunk, NEW t \in listed \cap pool, NEW v \in Range(s), v.tx < t PROVE \E u \in Range(s) : u.tx = t
      BY <1>3, <1>7, <2>3 DEF HolesDue
    <3>1. CASE v \in Range(list)
      BY <2>4, <3>1 DEF FeedInv, NoneBetween
    <3>2. CASE v \notin Range(list)
      <4>1. v \in Range(OnPage)
        BY <2>2, <3>2
      \* The list is not full: it would leave no room for v.
      <4>2. Len(list) # Kept
        <5> SUFFICES ASSUME Len(list) = Kept PROVE FALSE
          OBVIOUS
        <5>1. PICK i \in DOMAIN s : s[i] = v
          BY DEF Range
        <5>2. i \in DOMAIN list
          <6>1. DOMAIN s = 1..Len(s) /\ Len(s) \in Nat /\ DOMAIN list = 1..Len(list) /\ Len(s) <= Len(list)
            BY <1>3, <2>2
          <6>2. Len(list) \in Nat
            BY <1>3
          <6> QED
            BY <6>1, <6>2
        <5> QED
          BY <2>2, <3>2, <5>1, <5>2 DEF Range
      <4>3. ~(cut > Had)
        <5>1. cut <= Had
          BY <4>2 DEF PageInv, CutSeen
        <5> QED
          BY <1>3, <2>5, <4>1, <5>1
      <4>4. CASE \E u \in Range(OnPage) : u.tx = t
        BY <2>2, <4>4
      <4>5. CASE \E q \in Range(list) : q.tx = t
        BY <2>4, <4>5
      <4> QED
        BY <4>1, <4>3, <4>4, <4>5 DEF PageInv, HolesDue
    <3> QED
      BY <3>1, <3>2
  <2> QED
    BY <1>4, <2>6, <2>7, <2>8, <2>9 DEF PageInv
<1> QED
  BY <1>6, <1>7

LEMMA PageStep == FeedInv /\ PageInv /\ [LiveNext]_liveVars => PageInv'
<1> SUFFICES ASSUME FeedInv, PageInv, [LiveNext]_liveVars PROVE PageInv'
  OBVIOUS
\* Nothing that the page has moves, nor what it is compared with.
<1>1. ASSUME UNCHANGED <<list, gone, seq, listed, cut, shrunk, rows, top, reply>>, listed \cap pool' \subseteq listed \cap pool,
             asked' \in {Nothing, Whole, top} /\ (reply # Nothing => asked' # Nothing)
      PROVE  PageInv'
  <2>1. OnPage' = OnPage /\ Had' = Had
    BY <1>1, OnPageStays
  <2>2. PageTypes' /\ Agree' /\ CutSeen' /\ HolesDue'
    BY <1>1, <2>1 DEF PageInv, PageTypes, Agree, CutSeen, HolesDue
  <2>3. HasList'
    BY <1>1, <2>1 DEF PageInv, HasList, LogFull, NewerMined
  <2> QED
    BY <2>2, <2>3 DEF PageInv
<1>2. asked \in {Nothing, Whole, top} /\ (reply # Nothing => asked # Nothing)
  BY DEF PageInv, PageTypes
<1>3. CASE Arrive
  <2>1. arrived' \notin listed /\ pool' = pool \cup {arrived'}
    BY <1>3 DEF Arrive, FeedInv, LiveInv, LiveTypes, ListOrder
  <2> QED
    BY <1>1, <1>2, <1>3, <2>1 DEF Arrive, listVars, pageVars
<1>4. CASE MineBlock
  BY <1>1, <1>2, <1>4 DEF MineBlock, listVars, pageVars
<1>5. CASE EndBurst \/ UNCHANGED liveVars
  BY <1>1, <1>2, <1>5 DEF EndBurst, liveVars, coreVars, listVars, pageVars
<1>6. CASE Ask
  BY <1>1, <1>2, <1>6 DEF Ask, coreVars, listVars
<1>7. CASE Serve
  <2>1. CASE asked' = Whole /\ UNCHANGED <<reply, shrunk>>
    <3>1. Whole # Nothing
      BY LiveConstants DEF Whole
    <3> QED
      BY <1>1, <1>7, <2>1, <3>1 DEF Serve, coreVars
  <2>2. CASE asked' = Nothing /\ UNCHANGED <<reply, shrunk>>
    BY <1>1, <1>7, <2>2 DEF Serve, coreVars
  <2>3. CASE (asked # Whole => ~More(asked)) /\ reply' = Mempool(asked) /\ shrunk' = (shrunk /\ asked # Whole) /\ asked' = asked
    BY <1>7, <2>3, PageAnswered DEF Serve
  <2> QED
    BY <1>7, <2>1, <2>2, <2>3 DEF Serve
<1>8. CASE Apply
  <2>1. /\ reply # Nothing /\ rows' = Applied(reply) /\ top' = reply.top /\ asked' = Nothing /\ reply' = Nothing
        /\ UNCHANGED <<list, gone, seq, listed, cut, shrunk, pool>>
    BY <1>8 DEF Apply, coreVars, listVars
  <2>2. OnPage' = OnPage /\ Had' = Had
    BY <2>1 DEF OnPage, Had
  <2>3. PageTypes' /\ Agree' /\ CutSeen' /\ HolesDue'
    BY <2>1, <2>2 DEF PageInv, PageTypes, Agree, CutSeen, HolesDue
  <2>4. HasList'
    BY <2>1, <2>2 DEF PageInv, HasList, LogFull, NewerMined
  <2> QED
    BY <2>3, <2>4 DEF PageInv
<1>9. CASE Record
  BY <1>9, PageRecords
<1> QED
  BY <1>3, <1>4, <1>5, <1>6, <1>7, <1>8, <1>9 DEF LiveNext

\* A page that is up to date shows the list, then older rows, with no hole among them
\* but for the arrivals that "shrunk" names, for any sizes of the list and the log, any
\* transactions and blocks, and whatever answers are lost (mp.go List, app.html).
THEOREM PageWhole == LiveSpec => []PageShowsList
<1>1. FeedInv /\ PageInv => PageShowsList
  <2> SUFFICES ASSUME FeedInv, PageInv, Current PROVE IsPrefix(list, rows) /\ (shrunk \/ NoHole)
    BY DEF PageShowsList
  <2>1. top = seq /\ reply = Nothing /\ OnPage = rows /\ Had = seq
    BY DEF Current, PageInv, PageTypes, OnPage, Had
  <2>2. /\ list \in Seq(Row) /\ rows \in Seq(Row) /\ seq \in Nat /\ Descending(list) /\ Descending(rows)
        /\ cut \in Nat /\ cut <= seq /\ \A q \in Range(list) : q.seq <= seq /\ q.seq \in Nat
    BY <2>1, RowsOfList DEF FeedInv, LiveInv, LiveTypes, ListOrder, PageInv, PageTypes
  <2>3. \A j \in DOMAIN gone : gone[j].seq \in Nat /\ gone[j].seq <= seq
    <3>1. \A j \in DOMAIN gone : gone[j] \in Row
      BY DEF FeedInv, LogOrder
    <3> QED
      BY <3>1 DEF FeedInv, LogOrder, Row
  <2>4. ~LogFull /\ NewerMined(Had) = {}
    <3>1. NewerMined(Had) = {}
      BY <2>1, <2>2, <2>3 DEF NewerMined
    <3>2. LogFull => 1 \in DOMAIN gone
      BY LiveConstants DEF LogFull, FeedInv, LogOrder
    <3> QED
      BY <2>1, <2>2, <2>3, <3>1, <3>2 DEF LogFull
  <2>5. Range(list) \subseteq Range(rows) /\ \A v \in Range(rows), i \in DOMAIN list : list[i].seq <= v.seq => v \in Range(list)
    <3>1. /\ \A q \in Range(list) : q \in Range(rows)
          /\ \A q \in Range(list), v \in Range(rows) : q.seq <= v.seq => v \in Range(list)
      BY <2>1, <2>2, <2>4 DEF PageInv, HasList
    <3> QED
      BY <3>1 DEF Range
  <2>6. Len(list) <= Len(rows) /\ \A i \in DOMAIN list : rows[i] = list[i]
    BY <2>2, <2>5, BeginsWith
  <2>7. IsPrefix(list, rows)
    <3>1. Len(list) \in Nat /\ Len(rows) \in Nat /\ DOMAIN list = 1..Len(list)
      BY <2>2
    <3>2. SubSeq(rows, 1, Len(list)) = list /\ SubSeq(list, 1, Len(list)) = list
      BY <2>2, <2>6, <3>1
    <3> QED
      BY <2>6, <3>2 DEF IsPrefix
  <2>8. shrunk \/ NoHole
    <3> SUFFICES ASSUME ~shrunk, NEW t \in listed \cap pool, NEW i \in DOMAIN rows, rows[i].tx < t
                 PROVE  \E j \in DOMAIN rows : rows[j].tx = t
      BY DEF NoHole
    <3>1. ~(cut > Had) /\ rows[i] \in Range(rows)
      BY <2>1, <2>2 DEF Range
    <3>2. (\E u \in Range(rows) : u.tx = t) \/ \E q \in Range(list) : q.tx = t /\ q.seq > Had
      BY <2>1, <3>1 DEF PageInv, HolesDue
    <3>3. \A q \in Range(list) : ~(q.seq > Had)
      BY <2>1, <2>2
    <3> QED
      BY <3>2, <3>3 DEF Range
  <2> QED
    BY <2>7, <2>8
<1> QED
  BY <1>1, FeedInitOK, FeedStep, PageInitOK, PageStep, PTL DEF LiveSpec

-----------------------------------------------------------------------------
(* Events and the renders they replace.                                    *)

\* The timer's function has nothing to throttle.
TimerStep == doing["timer"] # "notify"

\* No copy, and no render about to become one, is older than version v.
Fresh(v) ==
    /\ cached # NoRender => cached >= v
    /\ \A p \in Pages : at[p] = "put" => got[p] >= v

\* What is told is not ahead of the data.  From the dropping of the copies until
\* the event goes out the data does not change, so the version that will be told
\* is the one the copies are measured against.
Served ==
    /\ told <= version["fees"]
    /\ raced \/ Fresh(told)
    /\ doing["fees"] = "send" => raced \/ Fresh(version["fees"])

IInv == EventsTypes /\ TimerStep

USE EventsConstants

-----------------------------------------------------------------------------

LEMMA InitOK == EventsInit => IInv /\ ChangeAnnounced /\ Served
<1> SUFFICES ASSUME EventsInit PROVE IInv /\ ChangeAnnounced /\ Served
  OBVIOUS
<1>1. ch \in [Pages -> Seq(Kinds)] /\ \A p \in Pages : Len(ch[p]) <= Cap
  BY DEF EventsInit
<1>2. IInv
  BY <1>1 DEF EventsInit, IInv, EventsTypes, TimerStep, Kinds, Goroutines
<1>3. ChangeAnnounced /\ Served
  BY DEF EventsInit, ChangeAnnounced, Served, Fresh, Kinds, Goroutines
<1> QED
  BY <1>2, <1>3

\* One lemma for the steps of Notify, one for those of a page.
LEMMA NotifyType ==
    ASSUME IInv, (\E k \in Kinds : Change(k)) \/ (\E g \in Goroutines : Notify(g)) \/ IntervalOver \/ Fire \/ Expire
    PROVE  IInv'
<1> USE DEF IInv, EventsTypes, TimerStep, Goroutines
<1>1. ASSUME NEW k \in Kinds, Change(k) PROVE IInv'
  BY <1>1 DEF Change, Go, cacheVars, cardVars, streamVars, Kinds
<1>2. ASSUME NEW g \in Goroutines, Throttle(g) PROVE IInv'
  BY <1>2 DEF Throttle, Go, cacheVars, cardVars, streamVars, Kinds, Throttled
<1>3. ASSUME NEW g \in Goroutines, Invalidate(g) PROVE IInv'
  BY <1>3 DEF Invalidate, Go, cacheVars, cardVars, streamVars, Kinds
<1>4. ASSUME NEW g \in Goroutines, Send(g) PROVE IInv'
  <2>1. KindOf(g) \in Kinds
    BY DEF KindOf, Kinds
  <2>2. ch' \in [Pages -> Seq(Kinds)] /\ \A p \in Pages : Len(ch'[p]) <= Cap
    BY <1>4, <2>1 DEF Send
  <2> QED
    BY <1>4, <2>1, <2>2 DEF Send, Go, cacheVars, cardVars, Kinds
<1>5. CASE IntervalOver
  BY <1>5 DEF IntervalOver, cacheVars, cardVars, streamVars, Kinds
<1>6. CASE Fire
  BY <1>6 DEF Fire, Go, cacheVars, cardVars, streamVars, Kinds
<1>7. CASE Expire
  BY <1>7 DEF Expire, notifyVars, cardVars, streamVars, Kinds
<1> QED
  BY <1>1, <1>2, <1>3, <1>4, <1>5, <1>6, <1>7 DEF Notify

LEMMA PageType ==
    ASSUME IInv, NEW p \in Pages, Event(p) \/ Poll(p) \/ Stream(p) \/ Fetch(p)
    PROVE  IInv'
<1> USE DEF IInv, EventsTypes, TimerStep, notifyVars
<1>1. CASE Event(p)
  <2>1. ch' \in [Pages -> Seq(Kinds)] /\ \A q \in Pages : Len(ch'[q]) <= Cap
    BY <1>1 DEF Event
  <2> QED
    BY <1>1, <2>1 DEF Event, AskCard, cacheVars
<1>2. CASE Poll(p)
  BY <1>2 DEF Poll, AskCard, cacheVars, streamVars
<1>3. CASE Stream(p)
  <2>1. ch' \in [Pages -> Seq(Kinds)] /\ \A q \in Pages : Len(ch'[q]) <= Cap
    BY <1>3 DEF Stream
  <2> QED
    BY <1>3, <2>1 DEF Stream, cacheVars, cardVars
<1>4. CASE Get(p)
  BY <1>4 DEF Get, Show, cacheVars, streamVars
<1>5. CASE Render(p)
  BY <1>5 DEF Render, cacheVars, streamVars, Kinds
<1>6. CASE Put(p)
  BY <1>6 DEF Put, Show, streamVars
<1> QED
  BY <1>1, <1>2, <1>3, <1>4, <1>5, <1>6 DEF Fetch

LEMMA NextType == IInv /\ [EventsNext]_eventVars => IInv'
<1> SUFFICES ASSUME IInv, [EventsNext]_eventVars PROVE IInv'
  OBVIOUS
<1>1. CASE UNCHANGED eventVars
  BY <1>1 DEF IInv, EventsTypes, TimerStep, eventVars, notifyVars, cacheVars, cardVars, streamVars
<1> QED
  BY <1>1, NotifyType, PageType DEF EventsNext

THEOREM Invariant == EventsSpec => []IInv
  BY InitOK, NextType, PTL DEF EventsSpec

\* Every variable keeps its type, and no channel holds more than its room.
THEOREM TypeCorrect == EventsSpec => []EventsTypes
<1>1. IInv => EventsTypes
  BY DEF IInv
<1> QED
  BY <1>1, Invariant, PTL
-----------------------------------------------------------------------------

LEMMA AnnouncedNext == IInv /\ ChangeAnnounced /\ [EventsNext]_eventVars => ChangeAnnounced'
<1> SUFFICES ASSUME IInv, ChangeAnnounced, [EventsNext]_eventVars PROVE ChangeAnnounced'
  OBVIOUS
<1> USE DEF IInv, EventsTypes, TimerStep, ChangeAnnounced, Goroutines, KindOf, Kinds, Throttled, Go
<1>1. ASSUME NEW k \in Kinds, Change(k) PROVE ChangeAnnounced'
  BY <1>1 DEF Change
<1>2. ASSUME NEW g \in Goroutines, Throttle(g) PROVE ChangeAnnounced'
  BY <1>2 DEF Throttle
<1>3. ASSUME NEW g \in Goroutines, Invalidate(g) PROVE ChangeAnnounced'
  BY <1>3 DEF Invalidate
<1>4. ASSUME NEW g \in Goroutines, Send(g) PROVE ChangeAnnounced'
  BY <1>4 DEF Send
<1>5. CASE IntervalOver \/ Expire
  BY <1>5 DEF IntervalOver, Expire, notifyVars
<1>8. CASE Fire
  <2>1. doing'["timer"] = "invalidate" /\ "timer" \in Goroutines
    BY <1>8 DEF Fire
  <2> QED
    BY <1>8, <2>1 DEF Fire
<1>6. ASSUME NEW p \in Pages, Event(p) \/ Poll(p) \/ Stream(p) \/ Fetch(p) PROVE ChangeAnnounced'
  BY <1>6 DEF Event, Poll, Stream, Fetch, Get, Render, Put, notifyVars
<1>7. CASE UNCHANGED eventVars
  BY <1>7 DEF eventVars, notifyVars
<1> QED
  BY <1>1, <1>2, <1>3, <1>4, <1>5, <1>6, <1>7, <1>8 DEF EventsNext, Notify

\* A change is announced late rather than lost: until it is, a timer is set or
\* a goroutine is on its way to announce it (app.throttle).
THEOREM Announced == EventsSpec => []ChangeAnnounced
  BY InitOK, Invariant, AnnouncedNext, PTL DEF EventsSpec

-----------------------------------------------------------------------------

LEMMA ServedNext == IInv /\ Served /\ [EventsNext]_eventVars => Served'
<1> SUFFICES ASSUME IInv, Served, [EventsNext]_eventVars PROVE Served'
  OBVIOUS
<1> USE DEF IInv, EventsTypes, TimerStep, Served, Fresh
<1>1. ASSUME NEW k \in Kinds, Change(k) PROVE Served'
  BY <1>1 DEF Change, Go, Goroutines, Kinds, cacheVars, cardVars
<1>2. ASSUME NEW g \in Goroutines, Throttle(g) PROVE Served'
  BY <1>2 DEF Throttle, Go, Goroutines, Kinds, cacheVars, cardVars
<1>3. ASSUME NEW g \in Goroutines, Invalidate(g) PROVE Served'
  <2>1. CASE KindOf(g) = "fees"
    <3>1. raced' \/ Fresh(version["fees"])'
      BY <1>3, <2>1 DEF Invalidate, cardVars, Kinds
    <3>2. Fresh(version["fees"])' => Fresh(told)'
      BY <1>3, <2>1 DEF Invalidate, cardVars, Kinds
    <3> QED
      BY <1>3, <3>1, <3>2 DEF Invalidate
  <2>2. CASE KindOf(g) # "fees"
    BY <1>3, <2>2 DEF Invalidate, Go, Goroutines, Kinds, KindOf, cacheVars, cardVars
  <2> QED
    BY <2>1, <2>2
<1>4. ASSUME NEW g \in Goroutines, Send(g) PROVE Served'
  BY <1>4 DEF Send, Go, Goroutines, Kinds, KindOf, cacheVars, cardVars
<1>5. CASE IntervalOver \/ Fire \/ Expire
  BY <1>5 DEF IntervalOver, Fire, Expire, Go, Goroutines, Kinds, notifyVars, cacheVars, cardVars
<1>6. ASSUME NEW p \in Pages, Event(p) \/ Poll(p) \/ Stream(p) PROVE Served'
  <2>1. \A q \in Pages : at'[q] = "put" => at[q] = "put"
    BY <1>6 DEF Event, Poll, Stream, AskCard, cardVars
  <2>2. UNCHANGED <<version, doing, cached, raced, got, told>>
    BY <1>6 DEF Event, Poll, Stream, notifyVars, cacheVars, cardVars
  <2> QED
    BY <2>1, <2>2
<1>7. ASSUME NEW p \in Pages, Get(p) PROVE Served'
  BY <1>7 DEF Get, Show, notifyVars, cacheVars
<1>8. ASSUME NEW p \in Pages, Render(p) PROVE Served'
  BY <1>8 DEF Render, Kinds, notifyVars, cacheVars
<1>9. ASSUME NEW p \in Pages, Put(p) PROVE Served'
  BY <1>9 DEF Put, Show, Kinds, notifyVars
<1>10. CASE UNCHANGED eventVars
  BY <1>10 DEF eventVars, notifyVars, cacheVars, cardVars
<1> QED
  BY <1>1, <1>2, <1>3, <1>4, <1>5, <1>6, <1>7, <1>8, <1>9, <1>10 DEF EventsNext, Notify, Fetch

\* Once a change has been told, no render from before it is served, unless it
\* was under way when the copies were dropped (invalidate before notify's sends).
THEOREM NoOldCopy == EventsSpec => []StaleIsRaced
<1>1. Served => StaleIsRaced
  BY DEF Served, Fresh, StaleIsRaced, ToldIsServed
<1> QED
  BY <1>1, InitOK, Invariant, ServedNext, PTL DEF EventsSpec
=============================================================================
