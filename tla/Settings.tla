------------------------------ MODULE Settings ------------------------------
(***************************************************************************)
(* The settings page, the list of catalogues it orders, and the releases   *)
(* and environments the stored rows outlive.                               *)
(*                                                                         *)
(* One PUT writes several rows, each committed by itself, and is refused   *)
(* at the first that the environment supplies, whatever it has written by  *)
(* then.  The list of catalogues is stored as it was said under one        *)
(* release and read under another with more catalogues or fewer.  A        *)
(* channel's health is forgotten by a write to what configures it, and     *)
(* the lookup cache emptied by a write to who is asked.                    *)
(*                                                                         *)
(* A digest reads the mail settings when it begins, and records what came  *)
(* of it when it is delivered: a PUT may come between.  PUTs are served in *)
(* turns, and so are digests.  One mail setting of each kind stands for    *)
(* the others of its kind and the other channels; which catalogue a book   *)
(* is asked of first is in Lookups, and the rest of the record of the      *)
(* channels in SenderHealth.                                               *)
(***************************************************************************)
EXTENDS Naturals, FiniteSets, Sequences, SequencesExt

CONSTANTS
  Rosters,         \* the releases: each the catalogues it knows, in DEFAULT_ORDER
  Google,          \* the one whose key is a settings row
  Environments,    \* the sets of settings the environment may supply
  Rows,            \* the lists that may be stored to begin with
  Lists,           \* the lists a page may send
  MaxPuts, MaxRestarts, MaxFields    \* bounds

Releases == 1 .. Len(Rosters)
Sources == UNION {ToSet(Rosters[r]) : r \in Releases}

RostersAreOrders == \A r \in Releases : IsInjective(Rosters[r]) /\ Rosters[r] # <<>>

VARIABLES
  release,    \* the one that runs
  pins,       \* what its environment supplies
  row,        \* the stored list of catalogues, empty if there is none
  google,     \* the Google Books switch and key as stored
  mail,       \* the mail server and its use of TLS as stored
  sending,    \* the digest under way: the mail settings it read
  health,     \* the last failure recorded, and the mail settings it is of
  cache,      \* a catalogue whose record the lookup cache holds, if it holds one
  said,       \* [Sources -> what the administrators last said of it]
  order,      \* which catalogue the household put before which
  torn,       \* a PUT refused half way has changed who is asked since
  puts, restarts

vars == <<release, pins, row, google, mail, sending, health, cache, said, order, torn, puts,
          restarts>>

Entry == [source : Sources, enabled : {"on", "off", "odd"}]
Mail == [server : 0 .. MaxPuts, tls : BOOLEAN]

(* A delivery, under way or failed: of which settings, and whether they    *)
(* were written before it was over.                                        *)
Delivery == [of : Mail, real : BOOLEAN, overtaken : BOOLEAN]
NoDelivery == [of |-> [server |-> 0, tls |-> FALSE], real |-> FALSE, overtaken |-> FALSE]

Silent == "silent"

----------------------------------------------------------------------------
(* sources *)

Roster == ToSet(Rosters[release])

Named(list) == {list[n].source : n \in DOMAIN list}

(* The catalogues of a list that this release knows, each where it is      *)
(* first named, and on only if the row says so outright.                   *)
Known(list) ==
  LET first == SelectSeq([n \in DOMAIN list |-> n],
                 LAMBDA n : /\ list[n].source \in Roster
                            /\ \A k \in 1 .. n - 1 : list[k].source # list[n].source)
  IN [n \in DOMAIN first |->
        [list[first[n]] EXCEPT !.enabled = IF @ = "on" THEN "on" ELSE "off"]]

AllOn(sources) == [n \in DOMAIN sources |-> [source |-> sources[n], enabled |-> "on"]]

(* parse: what the row does not name comes after, in the release's order,  *)
(* and on.                                                                 *)
Parse(list) ==
  LET known == Known(list)  there == Named(known)
  IN known \o AllOn(SelectSeq(Rosters[release], LAMBDA s : s \notin there))

Plan == Parse(row)

On(plan) == {e.source : e \in {x \in ToSet(plan) : x.enabled = "on"}}

(* Which catalogue of a list comes before which. *)
Order(list) ==
  {<<list[p[1]].source, list[p[2]].source>> : p \in {k \in (DOMAIN list) \X (DOMAIN list) : k[1] < k[2]}}

(* Of a list that names a catalogue twice, the last word. *)
LastWord(list, s) ==
  LET words == {n \in DOMAIN list : list[n].source = s}
  IN list[CHOOSE n \in words : \A k \in words : k <= n].enabled

Spoken(list) == [n \in DOMAIN list |-> [list[n] EXCEPT !.enabled = LastWord(list, list[n].source)]]

----------------------------------------------------------------------------
(* settings_store *)

KeyInForce == "key" \in pins \/ google.key

(* ready_sources: of the catalogues here, Google alone needs anything. *)
Ready == {s \in Roster : s = Google => google.on /\ KeyInForce}

(* catalogue_sources *)
Asked == On(Plan) \cap Ready

----------------------------------------------------------------------------
(* update_settings *)

(* As FromWire, the rest being read as it is in force. *)
FromWire_InForce(list) ==
  LET inForce == [n \in DOMAIN Plan |->
                    [Plan[n] EXCEPT !.enabled = IF Plan[n].source \in Asked THEN "on" ELSE "off"]]
  IN Parse(Spoken(list) \o SelectSeq(inForce, LAMBDA e : e.source \notin Named(list)))

(* from_wire, and serialise: what is named leads, the rest keeps its place *)
(* and its state, and what the row of another release named is gone.       *)
FromWire(list) ==
  Parse(Spoken(list) \o SelectSeq(Plan, LAMBDA e : e.source \notin Named(list)))

(* A request: of each field what it says, or silence. *)
Silences == [switch |-> Silent, key |-> Silent, server |-> Silent, tls |-> Silent, list |-> <<>>]

Spoke(p) == {f \in DOMAIN p : p[f] # Silences[f]}

Fields ==
  [switch : {Silent, "on", "off"}, key : {Silent, "given", "blank"},
   server : {Silent, "other"}, tls : {Silent, "flipped"}, list : {<<>>} \cup Lists]

Payloads == {p \in Fields : Cardinality(Spoke(p)) <= MaxFields}

(* _refuse_if_pinned *)
Pinned(p, f) == p[f] # Silences[f] /\ f \in pins

(* How far a request gets: the rows are written in this order, and the     *)
(* first that is pinned ends it.                                           *)
ReachesServer(p) == ~ Pinned(p, "key")
ReachesList(p) == ReachesServer(p) /\ ~ Pinned(p, "server")
ReachesEnd(p) == ReachesList(p) /\ ~ Pinned(p, "tls")

WritesKey(p) == p.key # Silent /\ ~ Pinned(p, "key")
WritesServer(p) == p.server # Silent /\ ReachesList(p)
WritesList(p) == p.list # <<>> /\ ReachesList(p)
WritesTls(p) == p.tls # Silent /\ ReachesEnd(p)

(* _store: whatever configures the channel drops what was said of it. *)
Forgets(p) == WritesServer(p) \/ WritesTls(p)

DecidesWhoIsAsked(p) == p.list # <<>> \/ p.switch # Silent \/ p.key # Silent

Put(p) ==
  /\ puts' = puts + 1 /\ Named(p.list) \subseteq Roster
  /\ google' = [on |-> IF p.switch = Silent THEN google.on ELSE p.switch = "on",
                key |-> IF WritesKey(p) THEN p.key = "given" ELSE google.key]
  /\ mail' = [server |-> IF WritesServer(p) THEN puts' ELSE mail.server,
              tls |-> IF WritesTls(p) THEN ~ mail.tls ELSE mail.tls]
  /\ row' = IF WritesList(p) THEN FromWire(p.list) ELSE row
  /\ said' = IF ~ WritesList(p) THEN said
             ELSE [s \in Sources |-> IF s \in Named(p.list) THEN LastWord(p.list, s)
                                     ELSE IF s \in Roster THEN said[s] ELSE "nothing"]
  /\ order' = IF ~ WritesList(p) THEN order
              ELSE Named(p.list) \X (Roster \ Named(p.list))
                     \cup {o \in Order(Plan) : Named(p.list) \cap {o[1], o[2]} = {}}
  /\ health' = IF Forgets(p) THEN NoDelivery ELSE health
  /\ sending' = [sending EXCEPT !.overtaken = @ \/ (sending.real /\ Forgets(p))]
  /\ LET dropped == ReachesEnd(p) /\ DecidesWhoIsAsked(p) IN
       /\ cache' = IF dropped THEN {} ELSE cache
       /\ torn' = (~ dropped /\ (torn \/ DecidesWhoIsAsked(p)))
  /\ UNCHANGED <<release, pins, restarts>>

----------------------------------------------------------------------------
(* What reads the settings, and what outlives a process *)

(* A lookup is answered by one that is asked, and remembered. *)
Remember(s) ==
  /\ cache = {} /\ s \in Asked /\ cache' = {s}
  /\ UNCHANGED <<release, pins, row, google, mail, sending, health, said, order, torn, puts, restarts>>

(* A digest reads the mail settings and hands its message over, which is   *)
(* awaited.                                                                *)
BeginDelivery ==
  /\ ~ sending.real
  /\ sending' = [NoDelivery EXCEPT !.of = mail, !.real = TRUE]
  /\ UNCHANGED <<release, pins, row, google, mail, health, cache, said, order, torn, puts, restarts>>

(* record_run: sent or refused, whatever has been written meanwhile.       *)
RecordDelivery ==
  /\ sending.real
  /\ health' \in {NoDelivery, sending}
  /\ sending' = NoDelivery
  /\ UNCHANGED <<release, pins, row, google, mail, cache, said, order, torn, puts, restarts>>

(* Another release or another environment: the rows stay, the cache and a  *)
(* digest under way do not.                                                *)
Restart(r, env) ==
  /\ restarts < MaxRestarts /\ restarts' = restarts + 1
  /\ release' = r /\ pins' = env /\ cache' = {} /\ torn' = FALSE /\ sending' = NoDelivery
  /\ UNCHANGED <<row, google, mail, health, said, order, puts>>

Init ==
  /\ release \in Releases /\ pins \in Environments /\ row \in Rows
  /\ google = [on |-> TRUE, key |-> TRUE] /\ mail = [server |-> 0, tls |-> TRUE]
  /\ sending = NoDelivery /\ health = NoDelivery /\ cache = {} /\ said = [s \in Sources |-> "nothing"] /\ torn = FALSE
  /\ order = {o \in Order(Plan) : {o[1], o[2]} \subseteq Named(row)}
  /\ puts = 0 /\ restarts = 0

Next ==
  \/ puts < MaxPuts /\ \E p \in Payloads : Put(p)
  \/ \E s \in Sources : Remember(s)
  \/ BeginDelivery \/ RecordDelivery
  \/ \E r \in Releases, env \in Environments : Restart(r, env)

Spec == Init /\ [][Next]_vars

----------------------------------------------------------------------------
(* Properties *)

(* The page lists each catalogue of the release once, whatever the row is. *)
TypeOK ==
  /\ release \in Releases /\ pins \in Environments /\ row \in Seq(Entry)
  /\ google \in [on : BOOLEAN, key : BOOLEAN] /\ mail \in Mail /\ {sending, health} \subseteq Delivery
  /\ cache \subseteq Sources /\ said \in [Sources -> {"nothing", "on", "off"}] /\ order \subseteq Sources \X Sources
  /\ torn \in BOOLEAN
  /\ Len(Plan) = Len(Rosters[release]) /\ Named(Plan) = Roster

(* What was last said of a catalogue stands through the requests that do   *)
(* not name it and the releases that know it.  A list stored under a       *)
(* release that does not know it forgets it, and it is on again.           *)
SaidStands ==
  LET on == On(Plan) IN
    \A s \in Roster : said[s] # "nothing" => (s \in on <=> said[s] = "on")

(* The household's order is its own: a request moves the catalogues it     *)
(* names ahead of the others, and no other and no release changes places.  *)
OrderStands == order \cap (Roster \X Roster) \subseteq Order(Plan)

(* What the page stores is what the program uses from then on: a value the *)
(* environment supplies is not written under it.                           *)
NothingUnread ==
  /\ google'.key # google.key => "key" \notin pins
  /\ mail'.server # mail.server => "server" \notin pins
  /\ mail'.tls # mail.tls => "tls" \notin pins

(* A failure on record is of the mail settings as they are stored: the     *)
(* banner goes with whichever of them is corrected.  Unless they were      *)
(* corrected while the delivery was awaited: record_run writes it after    *)
(* forget_health has been, and it stands until the next digest or write.   *)
FailureIsOfThese == health.real /\ ~ health.overtaken => health.of = mail

(* No record is remembered of a catalogue that is not asked: unless a PUT  *)
(* that changed who is asked was refused at a later field.                 *)
CacheFollowsThePlan == ~ torn => cache \subseteq Asked
=============================================================================
