------------------------------- MODULE Visits -------------------------------
(***************************************************************************)
(* A reader of the Telegram Mini App going from page to page: what each    *)
(* place offers to tap, where the server puts the page it answers with,    *)
(* what it serves from memory, and where Back goes.                        *)
(*                                                                         *)
(* There is one block, transaction, address and miner, which link to each  *)
(* other as any do, so an id is told by its kind.  Left out: the figures   *)
(* of a page, and its bell.                                                *)
(***************************************************************************)
EXTENDS Integers, FiniteSets

CONSTANTS
    ReaderLangs, ReaderLang,      \* langs, and this reader's
    MaxTaps, MaxWaiting, MaxHeldPages, MaxNodeStops \* bounds

ASSUME VisitsConstants == ReaderLang \in ReaderLangs

Panels == {"home", "blocks", "addresses", "watches"}
Slots == {"blocklist", "addrpanel"}

VARIABLES
    panel, content,    \* the tab the reader is on; what each slot holds
    waiting, taps,     \* the requests under way
    held,              \* blocksCache: the details pages in memory
    nodeUp, nodeStops
visitVars == <<panel, content, waiting, taps, held, nodeUp, nodeStops>>

-----------------------------------------------------------------------------
(* URLs and what they are answered with.                                   *)

Url(path, id, from, down) == [path |-> path, id |-> id, from |-> from, down |-> down]
Search(q, from) == Url("search", q, from, FALSE)

\* isPanel guards what a URL says of the tab.
Panel(name, otherwise) == IF name \in Panels THEN name ELSE otherwise
TabOf(slot) == IF slot = "addrpanel" THEN "addresses" ELSE "blocks"
SlotOf(url) == IF url.path \in {"address", "addresses"} THEN "addrpanel" ELSE "blocklist"
Origin(url) == Panel(url.from, TabOf(SlotOf(url)))

\* search: the shape of a txid first, which a block's hash with its leading zeros has not,
\* then a height, then an address.  Mutant: where the reader started is not passed on.
Classified(q) == CASE q = "tx" -> "tx" [] q = "height" -> "block" [] OTHER -> "address"
RedirectedAnew(url) ==
    IF url.path = "search" THEN Url(Classified(url.id), url.id, "home", FALSE) ELSE url
Redirected(url) ==
    IF url.path = "search" THEN Url(Classified(url.id), url.id, Panel(url.from, "home"), FALSE) ELSE url

\* Back: the list, down to the row that was tapped, and then the tab; a transaction of the
\* mempool's goes back to the mempool, which is Home's.
BackToList(url) ==
    Url("blocks", "", IF url.path = "mempool" THEN Panel(url.from, "home") ELSE Origin(url), url.down)
BackToAddrList(url) == Url("addresses", "", Origin(url), url.down)
BackOf(url) ==
    IF url.path = "tx" /\ url.from = "mempool" THEN Url("mempool", "", "", FALSE)
    ELSE IF SlotOf(url) = "addrpanel" THEN BackToAddrList(url) ELSE BackToList(url)

\* What the loaders make of an id: one the node has a header for is a block's, one that is
\* no address says so, and without the node there is only what the database has: the
\* figures of an address, if its statistics are gathered.
TxShows(id) == IF ~nodeUp THEN {"failed"} ELSE IF id = "hash" THEN {"block"} ELSE {"tx"}
AddrShows(id) ==
    IF nodeUp THEN {IF id = "address" THEN "address" ELSE "notAddress"}
    ELSE {"failed"} \cup (IF id = "address" THEN {"figures"} ELSE {})
Shown(url) ==
    CASE url.path = "tx" -> TxShows(url.id)
      [] url.path = "address" -> AddrShows(url.id)
      [] OTHER -> {url.path}

Page(lang, url, shows) == [url |-> url, lang |-> lang, shows |-> shows, from |-> Origin(url), back |-> BackOf(url)]
List(lang, url) == [url |-> url, lang |-> lang, shows |-> "list", from |-> Origin(url), back |-> url]

\* A link inside a page carries the page's own origin, but for a miner's and the mempool's.
LinksOf(page) ==
    CASE page.shows = "block" -> {Search("hash", page.from), Url("miner", "miner", "", TRUE)}
      [] page.shows = "tx" -> {Search("height", page.from), Search("address", page.from)}
      [] page.shows = "address" -> {Url("tx", "tx", page.from, FALSE), Search("address", page.from)}
      [] page.shows = "mempool" -> {Url("tx", "tx", "mempool", FALSE)}
      [] page.shows = "list" -> IF SlotOf(page.url) = "addrpanel" THEN {Url("address", "address", "", TRUE)}
                                ELSE {Url("block", "height", "", TRUE), Url("miner", "miner", "", TRUE)}
      [] OTHER -> {}

\* What a tab offers: the page its slot holds, or the tab's own.
Offered ==
    CASE panel = "home" -> {Search(q, "home") : q \in {"hash", "height", "tx", "address"}}
                           \cup {Url("mempool", "", "home", FALSE)}
      [] panel = "watches" -> {Url("tx", "tx", "watches", FALSE), Url("address", "address", "watches", FALSE)}
      [] OTHER -> {}

-----------------------------------------------------------------------------
(* The pages in memory.                                                    *)

\* key.  Mutants: an entry is filed by the URL alone, or by the path and the id.
KeyOfUrl(lang, url) == <<url>>
KeyOfPath(lang, url) == <<lang, url.path, url.id>>
Key(lang, url) == <<lang, url>>

Memorable(url) == url.path \in {"block", "tx", "address", "miner"}
HeldFor(lang, url) == {p \in held : Key(p.lang, p.url) = Key(lang, url)}

\* cached, after the redirect; the mempool is rendered on every request.
Rendered(lang, url) ==
    IF Memorable(url) /\ HeldFor(lang, url) # {} THEN HeldFor(lang, url)
    ELSE IF url.path \in {"blocks", "addresses"} THEN {List(lang, url)}
    ELSE {Page(lang, url, shows) : shows \in Shown(url)}

\* An entry makes room for another; any of them may be the eldest.
Keep(p) ==
    IF p \in held \/ ~Memorable(p.url) THEN held' = held
    ELSE IF Cardinality(held) < MaxHeldPages THEN held' = held \cup {p}
    ELSE \E old \in held : held' = (held \ {old}) \cup {p}

-----------------------------------------------------------------------------
(* The reader, and the others.                                             *)

VisitsInit ==
    /\ panel \in Panels /\ waiting = {} /\ taps = 0 /\ held = {} /\ nodeUp = TRUE /\ nodeStops = 0
    /\ content = [s \in Slots |->
        [page |-> List(ReaderLang, Url(IF s = "addrpanel" THEN "addresses" ELSE "blocks", "", "", FALSE)),
         began |-> "", lost |-> FALSE]]

\* began: the tab where this chain of taps started; lost: a link that does not say so has
\* been on the way.
Request(url, in) ==
    [url |-> url,
     began |-> IF in = "" \/ content[in].page.shows = "list" THEN panel ELSE content[in].began,
     lost |-> /\ in # "" /\ content[in].page.shows # "list"
              /\ content[in].lost \/ url.path = "miner" \/ url.from = "mempool"]

Ask1(url, in) ==
    /\ taps < MaxTaps /\ Cardinality(waiting) < MaxWaiting /\ taps' = taps + 1
    /\ waiting' = waiting \cup {Request(url, in)}
    /\ UNCHANGED <<panel, content, held, nodeUp, nodeStops>>

TapTab == \E url \in Offered : Ask1(url, "")
TapLink == \E s \in Slots : panel = TabOf(s) /\ \E url \in LinksOf(content[s].page) : Ask1(url, s)
TapBack == \E s \in Slots : /\ panel = TabOf(s) /\ content[s].page.shows # "list"
                            /\ Ask1(content[s].page.back, s)
SwitchTab ==
    /\ taps < MaxTaps /\ taps' = taps + 1 /\ \E p \in Panels \ {panel} : panel' = p
    /\ UNCHANGED <<content, waiting, held, nodeUp, nodeStops>>

\* details, /mempool and the two lists: the answer names the slot it belongs in and the
\* tab to show, by the request and not by what is in memory.
Answer ==
    \E r \in waiting :
        LET url == Redirected(r.url) IN
        \E p \in Rendered(ReaderLang, url) :
            /\ content' = [content EXCEPT ![SlotOf(url)] = [page |-> p, began |-> r.began, lost |-> r.lost]]
            /\ panel' = IF url.path \in {"blocks", "addresses"} THEN Panel(url.from, TabOf(SlotOf(url)))
                        ELSE TabOf(SlotOf(url))
            /\ Keep(p) /\ waiting' = waiting \ {r} /\ UNCHANGED <<taps, nodeUp, nodeStops>>

\* Another reader, in any language and from any tab, has asked for the same things.
AnotherReads ==
    /\ \E r \in waiting, lang \in ReaderLangs, from \in Panels :
        LET url == Redirected([r.url EXCEPT !.from = IF @ \in Panels THEN from ELSE @]) IN
        \E p \in Rendered(lang, url) : p \notin held /\ Memorable(url) /\ Keep(p)
    /\ UNCHANGED <<panel, content, waiting, taps, nodeUp, nodeStops>>

\* A new block's event, or the end of what is kept.
Cleared == held # {} /\ held' = {} /\ UNCHANGED <<panel, content, waiting, taps, nodeUp, nodeStops>>

NodeFails == /\ nodeUp /\ nodeStops < MaxNodeStops /\ nodeUp' = FALSE /\ nodeStops' = nodeStops + 1
             /\ UNCHANGED <<panel, content, waiting, taps, held>>
NodeReturns == ~nodeUp /\ nodeUp' = TRUE /\ UNCHANGED <<panel, content, waiting, taps, held, nodeStops>>

VisitsNext ==
    \/ TapTab \/ TapLink \/ TapBack \/ SwitchTab \/ Answer \/ AnotherReads
    \/ Cleared \/ NodeFails \/ NodeReturns

VisitsSpec == VisitsInit /\ [][VisitsNext]_visitVars

-----------------------------------------------------------------------------
(* Properties.                                                             *)

\* Whatever pages others have had rendered, and in whatever order answers come, Back on a
\* page goes to the tab where the taps that led to it began, unless a link that says
\* nothing of it was among them; and the page is in the reader's language.
BackToOrigin ==
    \A s \in Slots :
        LET c == content[s] IN
        c.page.shows # "list" =>
            c.page.lang = ReaderLang /\ (c.lost \/ c.page.back.from = c.began)
=============================================================================
