------------------------------ MODULE FeedWalk ------------------------------
(***************************************************************************)
(* A household server's feed read from its first page to its last: which   *)
(* pages are asked for, at which addresses, and what the answer says of    *)
(* the part it left out.  The server, the names and the clock are free: a  *)
(* page lists any entries and any next link, an answer may redirect, a     *)
(* name resolves differently every time.                                   *)
(*                                                                         *)
(* An address is what it looks like and, when it carries another address,  *)
(* what that one is.  What a page says of an entry is not kept.            *)
(***************************************************************************)
EXTENDS Naturals, FiniteSets

CONSTANTS
  Urls, Base,     \* the addresses of pages, and the one the household gave
  Fetchable,      \* those is_fetchable takes
  Origin,         \* [Urls -> origins]
  Addresses,      \* records of outer and inner classes
  MaxPages, MaxEntries, MaxRedirects,
  PageEntries,    \* bound: a page holds at most this many held entries
  None

VARIABLES
  step,       \* where the walk is: see Steps
  target,     \* the page being asked for
  at,         \* the address the redirects have led to
  hops,       \* redirects followed for this page
  untried,    \* admitted addresses not yet tried
  seen, pages, found, truncated,
  late,       \* the deadline of the walk is past
  next,       \* the next link of the page read last
  offered,    \* history: entries the pages read have listed
  asked,      \* history: pages asked for, a page as often as it was
  sent        \* history: the last request, by page address and network address

vars == <<step, target, at, hops, untried, seen, pages, found, truncated, late,
          next, offered, asked, sent>>

Steps == {"idle", "turn", "hop", "connect", "asked", "done", "failed"}
Over == {"done", "failed"}

(* classify: an address that carries another is what that one is. *)
Classify(a) ==
  IF a.outer \in {"unspecified", "loopback"} \/ a.inner = None THEN a.outer ELSE a.inner

(* is_fetchable and origin_of *)
Takes(u) == u \in Fetchable
SameOrigin(u, v) == Origin[u] = Origin[v]

Household == {"loopback", "private", "public"}
Permits(a) == Classify(a) \in Household

Init ==
  /\ step = "idle" /\ target = None /\ at = None /\ hops = 0 /\ untried = {}
  /\ seen = {} /\ pages = 0 /\ found = 0 /\ truncated = FALSE /\ late = FALSE
  /\ next = None /\ offered = 0 /\ asked = [u \in Urls |-> 0] /\ sent = None

----------------------------------------------------------------------------
(* An address that cannot be fetched is refused before anything is asked. *)
Begin ==
  /\ step = "idle"
  /\ step' = IF Takes(Base) THEN "turn" ELSE "failed"
  /\ target' = Base
  /\ UNCHANGED <<at, hops, untried, seen, pages, found, truncated, late, next,
                 offered, asked, sent>>

Turn ==
  /\ step = "turn"
  /\ IF pages >= MaxPages \/ found >= MaxEntries \/ late
     THEN step' = "done" /\ truncated' = TRUE /\ UNCHANGED <<at, hops, seen, asked>>
     ELSE /\ step' = "hop" /\ at' = target /\ hops' = 0
          /\ seen' = seen \cup {target}
          /\ asked' = [asked EXCEPT ![target] = @ + 1]
          /\ UNCHANGED truncated
  /\ UNCHANGED <<target, untried, pages, found, late, next, offered, sent>>

(* The name is looked up anew for every request; the walk fails where none *)
(* of its addresses is one to connect to.                                  *)
Resolve ==
  /\ step = "hop"
  /\ \E answer \in SUBSET Addresses :
       LET admitted == {a \in answer : Permits(a)} IN
       IF admitted = {} THEN step' = "failed" /\ UNCHANGED untried
       ELSE step' = "connect" /\ untried' = admitted
  /\ UNCHANGED <<target, at, hops, seen, pages, found, truncated, late, next,
                 offered, asked, sent>>

(* The request goes to the addresses that were looked at, one by one until *)
(* one answers.                                                            *)
Connect ==
  /\ step = "connect"
  /\ \E a \in untried :
       /\ sent' = <<at, a>>
       /\ untried' = untried \ {a}
       /\ step' \in {"asked", IF untried' = {} THEN "failed" ELSE "connect"}
  /\ UNCHANGED <<target, at, hops, seen, pages, found, truncated, late, next,
                 offered, asked>>

(* A redirect is followed on the same scheme, host and port, twice at most. *)
Redirect ==
  /\ step = "asked"
  /\ \E there \in Urls :
       IF SameOrigin(there, at) /\ hops < MaxRedirects
       THEN at' = there /\ hops' = hops + 1 /\ step' = "hop"
       ELSE step' = "failed" /\ UNCHANGED <<at, hops>>
  /\ UNCHANGED <<target, untried, seen, pages, found, truncated, late, next, offered,
                 asked, sent>>

(* No answer in time, one too large, an error, or what is no feed. *)
Fail ==
  /\ step = "asked"
  /\ step' = "failed"
  /\ UNCHANGED <<target, at, hops, untried, seen, pages, found, truncated, late, next,
                 offered, asked, sent>>

(* Where a page's next link leads: nowhere, off the server, to a page that *)
(* was asked for already, or on.                                           *)
Follow(link) ==
  CASE link = None -> "done"
    [] link # None /\ (~ Takes(link) \/ ~ SameOrigin(link, Base)) -> "failed"
    [] OTHER -> IF link \in seen THEN "done" ELSE "turn"

ReadPage ==
  /\ step = "asked"
  /\ \E entries \in 0 .. PageEntries, link \in Urls \cup {None} :
       LET room == MaxEntries - found
           taken == IF entries > room THEN room ELSE entries IN
       /\ found' = found + taken
       /\ offered' = offered + entries
       /\ truncated' = (truncated \/ taken < entries)
       /\ next' = link
       /\ step' = Follow(link)
       /\ target' = IF Follow(link) = "turn" THEN link ELSE target
  /\ pages' = pages + 1
  /\ UNCHANGED <<at, hops, untried, seen, late, asked, sent>>

(* The clock. *)
Pass ==
  /\ step \notin Over /\ ~ late
  /\ late' = TRUE
  /\ UNCHANGED <<step, target, at, hops, untried, seen, pages, found, truncated, next,
                 offered, asked, sent>>

Walk == Begin \/ Turn \/ Resolve \/ Connect \/ Redirect \/ Fail \/ ReadPage

Next == Walk \/ Pass

Spec == Init /\ [][Next]_vars /\ WF_vars(Walk)

----------------------------------------------------------------------------
TypeOK ==
  /\ step \in Steps /\ target \in Urls \cup {None} /\ at \in Urls \cup {None}
  /\ hops \in 0 .. MaxRedirects /\ untried \subseteq Addresses
  /\ seen \subseteq Urls /\ pages \in 0 .. MaxPages /\ found \in 0 .. MaxEntries
  /\ truncated \in BOOLEAN /\ late \in BOOLEAN /\ next \in Urls \cup {None}
  /\ asked \in [Urls -> Nat] /\ sent \in (Urls \X Addresses) \cup {None}

(* A walk that ends well and says nothing of a part left out has taken     *)
(* every entry of every page the feed links on from the first: the answer  *)
(* a member reads as "the whole server" is the whole server.               *)
TruncationIsTold ==
  step = "done" /\ ~ truncated => found = offered /\ (next = None \/ next \in seen)

(* No page is asked for twice, so a feed whose last page links back to its *)
(* first is imported once.                                                 *)
PagesReadOnce == \A u \in Urls : asked[u] <= 1

(* Every request stays on the server the household named, whatever links   *)
(* and redirects the feed holds, and reaches an address the policy admits, *)
(* whatever its name resolves to by then: the login leaves the server for  *)
(* nobody, and no address is checked in one guise and used in another.     *)
WalkStaysHome ==
  sent # None =>
    /\ Origin[sent[1]] = Origin[Base]
    /\ (IF sent[2].inner # None THEN sent[2].inner ELSE sent[2].outer) \in Household

(* A walk ends, however long the feed is and in whatever circle it leads. *)
WalkEnds == step = "turn" ~> step \in Over
=============================================================================
