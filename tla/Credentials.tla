---------------------------- MODULE Credentials ----------------------------
(***************************************************************************)
(* The logins the library holds at other people's servers, and the key     *)
(* they are sealed with.                                                   *)
(*                                                                         *)
(* A login is known by the origin it was entered for, a key by a model     *)
(* value, and sealing is what it binds: the version, the key and, since    *)
(* the second version, the origin.  Roster stands for the catalogues this  *)
(* build ships, whose address a restored archive may change until the next *)
(* start; the other sources are a household's own servers, each under a    *)
(* key of its own that is never used again.                                *)
(***************************************************************************)
EXTENDS Naturals, FiniteSets, FiniteSetTheorems, TLAPS

CONSTANTS
  Procs, Keys, Origins,
  Roster, Pub,  \* the roster source and the origin this build publishes for it
  Servers,      \* credential keys of household servers
  None

(* Of a login it tells the origin it was entered for, or that it is the    *)
(* environment's or the one a catalogue publishes.                         *)
CredentialsAssumption ==
  /\ Roster \notin Servers /\ Pub \in Origins
  /\ None \notin Keys \cup Origins
  /\ {"pinned", "shipped"} \cap Origins = {}

VARIABLES
  store,    \* [Stores -> the key it holds, or None]
  avail,    \* the stores that can be written, for the whole behaviour
  drawn,    \* the keys that exist
  row,      \* [Sources -> its envelope, or None]
  addr,     \* [Sources -> the origin of its address, or None for no server]
  pinned,   \* whether the deployment's environment names the roster login
  sent,     \* the login the last request carried and where to, or None
  req,      \* [Procs -> the request it serves]
  overlap   \* whether requests overlap or take turns

vars == <<store, avail, drawn, row, addr, pinned, sent, req, overlap>>

Sources == {Roster} \cup Servers
Stores == {"env", "keychain", "file"}
Writable == {"keychain", "file"}
Idle == [op |-> "idle"]
Envelope == [version : {1, 2}, key : Keys, for : Origins]

Held == {s \in Stores : store[s] # None}
KeysHeld == {store[s] : s \in Held}

(* from_env, where the environment names a login. *)
FromEnv(s) == s = Roster /\ pinned

(* key_material: the key they agree on; None where they do not, or are     *)
(* empty, and then nothing is sealed or opened.                            *)
Material == IF Cardinality(KeysHeld) = 1 THEN CHOOSE k \in KeysHeld : TRUE ELSE None

Sealed(key, origin) == [version |-> 2, key |-> key, for |-> origin]

(* An envelope of the first version opens only where this build publishes  *)
(* the source; one of the second at the origin it was sealed over.         *)
Opens(s, e, at) ==
  e.key = Material /\ IF e.version = 1 THEN s = Roster /\ at = Pub ELSE e.for = at

Stranded ==
  {s \in Sources : row[s] # None /\ (row[s].key # Material \/ (row[s].version = 1 /\ s # Roster))}

Quiet == \A p \in Procs : req[p] = Idle

Ready(p) == req[p] = Idle /\ (overlap \/ Quiet)

Done(p) == req' = [req EXCEPT ![p] = Idle]

Same == UNCHANGED <<avail, pinned, overlap>> /\ sent' = None

----------------------------------------------------------------------------
(* The key *)

(* store_key: the first store that can be written takes the key, and every *)
(* other that can be written is cleared.                                   *)
Kept(key) ==
  [s \in Stores |->
     IF s \notin avail THEN store[s]
     ELSE IF s = "keychain" \/ "keychain" \notin avail THEN key ELSE None]

ReadGenerate(p) ==
  /\ Ready(p) /\ Held = {} /\ Stranded = {} /\ avail # {}
  /\ \E k \in Keys \ drawn : /\ req' = [req EXCEPT ![p] = [op |-> "generate", key |-> k]]
                             /\ drawn' = drawn \cup {k}
  /\ UNCHANGED <<store, row, addr>> /\ Same

WriteGenerate(p) ==
  /\ req[p].op = "generate"
  /\ store' = Kept(req[p].key) /\ Done(p) /\ UNCHANGED <<drawn, row, addr>> /\ Same

(* An admin types the words of a key. *)
RestoreKey(p, k) ==
  /\ Ready(p) /\ k \in drawn /\ store["env"] \in {None, k} /\ avail # {}
  /\ store' = Kept(k) /\ UNCHANGED <<drawn, row, addr, req>> /\ Same

(* Store by store, until one that cannot be cleared. *)
ForgetKey(p) ==
  /\ Ready(p) /\ store["env"] = None
  /\ store' = [s \in Stores |->
       IF s = "file" /\ store["keychain"] # None /\ "keychain" \notin avail THEN store[s]
       ELSE IF s \in avail THEN None ELSE store[s]]
  /\ UNCHANGED <<drawn, row, addr, req>> /\ Same

----------------------------------------------------------------------------
(* Logins *)

(* put: a roster login is sealed over the published address, whatever the  *)
(* row says; a server's over the address its row has.                      *)
ReadPut(p, s) ==
  /\ Ready(p) /\ addr[s] # None /\ Material # None /\ ~ FromEnv(s)
  /\ req' = [req EXCEPT ![p] =
       [op |-> "put", source |-> s,
        envelope |-> Sealed(Material, IF s = Roster THEN Pub ELSE addr[s])]]
  /\ UNCHANGED <<store, drawn, row, addr>> /\ Same

CommitPut(p) ==
  /\ req[p].op = "put"
  /\ row' = [row EXCEPT ![req[p].source] = req[p].envelope]
  /\ Done(p) /\ UNCHANGED <<store, drawn, addr>> /\ Same

ForgetLogin(p, s) ==
  /\ Ready(p) /\ row[s] # None
  /\ row' = [row EXCEPT ![s] = None] /\ UNCHANGED <<store, drawn, addr, req>> /\ Same

----------------------------------------------------------------------------
(* A household's servers *)

(* A server is never given the key of one there was. *)
AddServer(p, s, o) ==
  /\ Ready(p) /\ s \in Servers /\ addr[s] = None /\ row[s] = None
  /\ addr' = [addr EXCEPT ![s] = o] /\ UNCHANGED <<store, drawn, row, req>> /\ Same

(* A move drops the login first, and commits that alone. *)
Edit(p, s, o) ==
  /\ Ready(p) /\ s \in Servers /\ addr[s] \notin {None, o}
  /\ row' = [row EXCEPT ![s] = None]
  /\ req' = [req EXCEPT ![p] = [op |-> "edit", source |-> s, to |-> o]]
  /\ UNCHANGED <<store, drawn, addr>> /\ Same

CommitEdit(p) ==
  /\ req[p].op = "edit"
  /\ addr' = [addr EXCEPT ![req[p].source] = IF @ = None THEN @ ELSE req[p].to]
  /\ Done(p) /\ UNCHANGED <<store, drawn, row>> /\ Same

Remove(p, s) ==
  /\ Ready(p) /\ s \in Servers /\ addr[s] # None
  /\ addr' = [addr EXCEPT ![s] = None]
  /\ req' = [req EXCEPT ![p] = [op |-> "remove", source |-> s]]
  /\ UNCHANGED <<store, drawn, row>> /\ Same

CommitRemove(p) ==
  /\ req[p].op = "remove"
  /\ row' = [row EXCEPT ![req[p].source] = None]
  /\ Done(p) /\ UNCHANGED <<store, drawn, addr>> /\ Same

----------------------------------------------------------------------------
(* What a request to a catalogue carries *)

(* The first level with anything to say wins, whether or not it works. *)
Resolved(s) ==
  IF FromEnv(s) THEN "pinned"
  ELSE IF row[s] # None THEN IF Opens(s, row[s], addr[s]) THEN row[s].for ELSE None
  ELSE IF s = Roster /\ addr[s] = Pub THEN "shipped" ELSE None

(* An envelope of the first version that opened is sealed again, and kept  *)
(* where the caller commits.                                               *)
Request(s) ==
  /\ addr[s] # None
  /\ sent' = IF Resolved(s) = None THEN None ELSE [login |-> Resolved(s), to |-> addr[s]]
  /\ \/ UNCHANGED row
     \/ /\ Resolved(s) \in Origins
        /\ row' = [row EXCEPT ![s] = Sealed(Material, addr[s])]
  /\ UNCHANGED <<store, avail, drawn, addr, pinned, req, overlap>>

----------------------------------------------------------------------------
(* Archives and restarts *)

(* Of an archive's rows a household's logins are left out. *)
Restored(rows) == [s \in Sources |-> IF s = Roster THEN rows[s] ELSE None]

(* Any archive of a library whose keys exist, of this release or another. *)
Restore(rows, at) ==
  /\ row' = rows /\ addr' = at
  /\ UNCHANGED <<store, drawn, req>> /\ Same

Archives ==
  LET envelopes(version, origins) == {[version |-> version, key |-> k, for |-> o] : k \in drawn, o \in origins}
      served == [Servers -> {None} \cup envelopes(2, Origins)]
  IN {[s \in Sources |-> IF s = Roster THEN login ELSE at[s]] :
        login \in {None} \cup envelopes(1, {Pub}) \cup envelopes(2, {Pub}), at \in served}

(* Whatever was being done is lost, and the roster is read from the build. *)
Restart ==
  /\ req' = [p \in Procs |-> Idle]
  /\ addr' = [addr EXCEPT ![Roster] = Pub]
  /\ pinned' \in BOOLEAN /\ sent' = None
  /\ UNCHANGED <<store, avail, drawn, row, overlap>>

(* Logins of an earlier release may be there, under a key that is or is    *)
(* not, and more keys than the stores hold may be written down.            *)
Init ==
  /\ avail \in {{}, {"file"}, Writable}
  /\ drawn \in SUBSET Keys /\ drawn # {}
  /\ store \in [Stores -> drawn \cup {None}] /\ (Held \subseteq avail => Cardinality(KeysHeld) <= 1)
  /\ addr \in {[s \in Sources |-> IF s = Roster THEN Pub ELSE o] : o \in Origins}
  /\ \E old \in SUBSET Sources, k \in drawn, v \in {1, 2} :
       row = [s \in Sources |-> IF s \in old THEN [version |-> v, key |-> k, for |-> addr[s]] ELSE None]
  /\ pinned \in BOOLEAN /\ overlap \in BOOLEAN
  /\ sent = None /\ req = [p \in Procs |-> Idle]

Next ==
  \/ \E p \in Procs :
       \/ ReadGenerate(p) \/ WriteGenerate(p) \/ ForgetKey(p)
       \/ CommitPut(p) \/ CommitEdit(p) \/ CommitRemove(p)
       \/ \E k \in Keys : RestoreKey(p, k)
       \/ \E s \in Sources : ReadPut(p, s) \/ ForgetLogin(p, s) \/ Remove(p, s)
       \/ \E s \in Servers, o \in Origins : AddServer(p, s, o) \/ Edit(p, s, o)
  \/ \E s \in Sources : Request(s)
  \/ Restart
  \/ /\ Quiet
     /\ \E rows \in {Restored(a) : a \in Archives}, o \in Origins, at \in [Servers -> Origins] :
          Restore(rows, [s \in Sources |-> IF s = Roster THEN o ELSE at[s]])

Spec == Init /\ [][Next]_vars

----------------------------------------------------------------------------
(* Properties *)

(* Keys are keys that exist, and what cannot be written never changes. *)
TypeOK ==
  /\ KeysHeld \subseteq drawn
  /\ \A s \in Sources : row[s] # None => row[s] \in Envelope /\ row[s].key \in drawn
  /\ \A s \in Sources : addr[s] \in Origins \cup {None}
  /\ store["env"] # None => store["env"] \in drawn

(* A stored login is sent to the origin it was entered for and nowhere     *)
(* else: not after its server moved, while it was being stored, after a    *)
(* crash, a restore or a release that changed the address.                 *)
LoginsStayHome == sent # None /\ sent.login \in Origins => sent.login = sent.to

(* The login a catalogue publishes is not sent in place of one the library *)
(* stored, also when that one no longer opens.                             *)
NoStandIn == sent # None /\ sent.login = "shipped" => row[Roster] = None

(* A key is made only where it strands nothing: no login is stored, sealed *)
(* under whatever key, when the new one is written, while requests take    *)
(* turns.                                                                  *)
GenerateStrandsNothing ==
  \A p \in Procs :
    ~ overlap /\ req[p].op = "generate" /\ store' # store => \A s \in Sources : row[s] = None

(* Wherever every store with a key can be written, the stores agree,       *)
(* however requests that generate, restore and forget one overlap.         *)
StoresAgree == Held \subseteq avail => Cardinality(KeysHeld) <= 1

----------------------------------------------------------------------------
(* Proofs: for any number of requests, keys, origins and servers. *)

Requests ==
  {Idle} \cup [op : {"generate"}, key : Keys]
         \cup [op : {"put"}, source : Sources, envelope : Envelope]
         \cup [op : {"edit"}, source : Servers, to : Origins]
         \cup [op : {"remove"}, source : Sources]

TypeInv ==
  /\ avail \subseteq Writable /\ drawn \subseteq Keys
  /\ store \in [Stores -> drawn \cup {None}]
  /\ row \in [Sources -> Envelope \cup {None}]
  /\ addr \in [Sources -> Origins \cup {None}]
  /\ req \in [Procs -> Requests]

(* What is sealed is sealed under a key there is, and for the roster over  *)
(* the address this build publishes.                                       *)
SealedRight(s, e) == e.key \in drawn /\ (s = Roster => e.for = Pub)

LoginsInv ==
  /\ \A s \in Sources : row[s] # None => SealedRight(s, row[s])
  /\ \A p \in Procs : req[p].op = "put" => SealedRight(req[p].source, req[p].envelope)
  /\ \A p \in Procs : req[p].op = "generate" => req[p].key \in drawn

SentInv == LoginsStayHome /\ NoStandIn

(* The writer of a key found no login, and nobody stores one in its turn.  *)
TurnsInv ==
  ~ overlap =>
    /\ \A p, q \in Procs : p # q => req[p] = Idle \/ req[q] = Idle
    /\ \A p \in Procs : req[p].op = "generate" => \A s \in Sources : row[s] = None

IInv == TypeInv /\ LoginsInv /\ SentInv /\ StoresAgree /\ TurnsInv

LEMMA NoneOrOne == ASSUME NEW k, NEW S, S \subseteq {k} PROVE Cardinality(S) <= 1
<1>1. Cardinality({k}) = 1 /\ IsFiniteSet({k})
  BY FS_Singleton
<1>2. Cardinality(S) <= Cardinality({k}) /\ Cardinality(S) \in Nat
  BY <1>1, FS_Subset, FS_CardinalityType
<1> QED BY <1>1, <1>2

LEMMA MaterialIsHeld ==
  ASSUME TypeInv
  PROVE  Material \in drawn \cup {None} /\ (Held = {} => Material = None)
<1>1. KeysHeld \subseteq drawn
  BY DEF TypeInv, KeysHeld, Held
<1>2. Held = {} => KeysHeld = {}
  BY DEF KeysHeld
<1>3. CASE KeysHeld = {}
  <2>1. Cardinality(KeysHeld) # 1
    BY <1>3, FS_EmptySet
  <2> QED BY <2>1 DEF Material
<1>4. CASE KeysHeld # {}
  <2>1. (CHOOSE k \in KeysHeld : TRUE) \in KeysHeld
    BY <1>4
  <2> QED BY <1>1, <1>2, <1>4, <2>1 DEF Material
<1> QED BY <1>3, <1>4

LEMMA IdleIsIdle == Idle.op = "idle" /\ Idle \in Requests
BY DEF Idle, Requests

LEMMA SealedIsEnvelope ==
  ASSUME NEW k \in Keys, NEW o \in Origins
  PROVE  Sealed(k, o) \in Envelope /\ Sealed(k, o).key = k /\ Sealed(k, o).for = o
BY DEF Sealed, Envelope

(* What a source's login is sent with, where it is a stored one. *)
LEMMA ResolvedIsForHere ==
  ASSUME CredentialsAssumption, TypeInv, LoginsInv, NEW s \in Sources, addr[s] # None,
         Resolved(s) \in Origins
  PROVE  /\ row[s] # None /\ Resolved(s) = addr[s]
         /\ Material = row[s].key /\ Material \in drawn
         /\ s = Roster => addr[s] = Pub
<1>1. Resolved(s) # "pinned" /\ Resolved(s) # "shipped" /\ Resolved(s) # None
  BY DEF CredentialsAssumption
<1>2. row[s] # None /\ Opens(s, row[s], addr[s]) /\ Resolved(s) = row[s].for
  BY <1>1 DEF Resolved
<1>3. Material = row[s].key /\ SealedRight(s, row[s])
  BY <1>2 DEF Opens, LoginsInv
<1> QED BY <1>2, <1>3 DEF Opens, SealedRight

LEMMA InitInv == ASSUME CredentialsAssumption PROVE Init => IInv
<1> SUFFICES ASSUME Init PROVE IInv
  OBVIOUS
<1>1. PICK old \in SUBSET Sources, k \in drawn, v \in {1, 2} :
        row = [s \in Sources |-> IF s \in old THEN [version |-> v, key |-> k, for |-> addr[s]]
                                              ELSE None]
  BY DEF Init
<1>2. drawn \subseteq Keys /\ avail \subseteq Writable /\ store \in [Stores -> drawn \cup {None}]
  BY DEF Init, Writable
<1>3. PICK o \in Origins : addr = [s \in Sources |-> IF s = Roster THEN Pub ELSE o]
  BY DEF Init
<1>4. addr \in [Sources -> Origins] /\ addr[Roster] = Pub
  BY <1>3 DEF CredentialsAssumption, Sources
<1>5. ASSUME NEW s \in Sources, row[s] # None
      PROVE  row[s] \in Envelope /\ SealedRight(s, row[s])
  <2>1. row[s] = [version |-> v, key |-> k, for |-> addr[s]]
    BY <1>1, <1>5
  <2> QED BY <1>2, <1>4, <2>1 DEF Envelope, SealedRight
<1>6. row \in [Sources -> Envelope \cup {None}]
  BY <1>1, <1>5
<1>7. TypeInv
  BY <1>2, <1>4, <1>6, IdleIsIdle DEF Init, TypeInv
<1>8. LoginsInv
  BY <1>5, IdleIsIdle DEF Init, LoginsInv
<1>9. SentInv /\ TurnsInv
  BY IdleIsIdle DEF Init, SentInv, LoginsStayHome, NoStandIn, TurnsInv
<1>10. StoresAgree
  BY DEF Init, StoresAgree
<1> QED BY <1>7, <1>8, <1>9, <1>10 DEF IInv

(* store_key leaves the key where it can, and nothing else there. *)
LEMMA KeptAgrees ==
  ASSUME TypeInv, NEW k \in drawn, store' = Kept(k), UNCHANGED avail
  PROVE  StoresAgree' /\ store' \in [Stores -> drawn \cup {None}]
<1>1. store' \in [Stores -> drawn \cup {None}]
  BY DEF Kept, TypeInv
<1>2. ASSUME Held' \subseteq avail PROVE KeysHeld' \subseteq {k}
  <2> SUFFICES ASSUME NEW s \in Stores, store'[s] # None PROVE store'[s] = k
    BY DEF KeysHeld, Held
  <2>1. s \in avail
    BY <1>2 DEF Held
  <2> QED BY <2>1 DEF Kept
<1> QED BY <1>1, <1>2, NoneOrOne DEF StoresAgree

(* What a step leaves in the stores is a key there is. *)
LEMMA NextStores ==
  ASSUME IInv, Next
  PROVE  /\ drawn \subseteq drawn' /\ drawn' \subseteq Keys
         /\ avail' \subseteq Writable
         /\ store' \in [Stores -> drawn' \cup {None}]
         /\ StoresAgree'
<1> USE DEF Same
<1>0. TypeInv /\ LoginsInv /\ StoresAgree
  BY DEF IInv
<1>a. avail' \subseteq Writable /\ drawn \subseteq drawn' /\ drawn' \subseteq Keys
  BY <1>0 DEF TypeInv, Next, ReadGenerate, WriteGenerate, ForgetKey, CommitPut, CommitEdit,
       CommitRemove, RestoreKey, ReadPut, ForgetLogin, Remove, AddServer, Edit, Request, Restart,
       Restore
<1>1. ASSUME NEW p \in Procs, WriteGenerate(p)
      PROVE  store' \in [Stores -> drawn' \cup {None}] /\ StoresAgree'
  <2>1. req[p].key \in drawn /\ store' = Kept(req[p].key) /\ UNCHANGED <<avail, drawn>>
    BY <1>0, <1>1 DEF WriteGenerate, LoginsInv
  <2> QED BY <1>0, <2>1, KeptAgrees
<1>2. ASSUME NEW p \in Procs, NEW k \in Keys, RestoreKey(p, k)
      PROVE  store' \in [Stores -> drawn' \cup {None}] /\ StoresAgree'
  <2>1. k \in drawn /\ store' = Kept(k) /\ UNCHANGED <<avail, drawn>>
    BY <1>2 DEF RestoreKey
  <2> QED BY <1>0, <2>1, KeptAgrees
<1>3. ASSUME NEW p \in Procs, ForgetKey(p)
      PROVE  store' \in [Stores -> drawn' \cup {None}] /\ StoresAgree'
  <2>1. store' = [s \in Stores |->
          IF s = "file" /\ store["keychain"] # None /\ "keychain" \notin avail THEN store[s]
          ELSE IF s \in avail THEN None ELSE store[s]]
    BY <1>3 DEF ForgetKey
  <2>2. store' \in [Stores -> drawn' \cup {None}]
    BY <1>0, <1>a, <2>1 DEF TypeInv
  <2>3. ASSUME Held' \subseteq avail' PROVE KeysHeld' = {}
    <3>1. SUFFICES ASSUME NEW s \in Stores, store'[s] # None PROVE FALSE
      BY DEF KeysHeld, Held
    <3>2. s \in avail /\ s \in Writable
      BY <1>0, <1>3, <2>3, <3>1 DEF Held, ForgetKey, TypeInv
    <3>3. s = "file" /\ store["keychain"] # None /\ "keychain" \notin avail
      BY <2>1, <3>1, <3>2
    <3>4. "keychain" \in Stores /\ store'["keychain"] = store["keychain"]
      BY <2>1, <3>3 DEF Stores
    <3>5. "keychain" \in Held'
      BY <3>3, <3>4 DEF Held
    <3> QED BY <1>3, <2>3, <3>3, <3>5 DEF ForgetKey
  <2>4. KeysHeld' = {} => KeysHeld' \subseteq {None}
    OBVIOUS
  <2> QED BY <2>2, <2>3, <2>4, NoneOrOne DEF StoresAgree
<1>4. ASSUME UNCHANGED <<store, avail>>
      PROVE  store' \in [Stores -> drawn' \cup {None}] /\ StoresAgree'
  BY <1>0, <1>a, <1>4 DEF TypeInv, StoresAgree, Held, KeysHeld
<1>5. \/ UNCHANGED <<store, avail>>
      \/ \E p \in Procs : WriteGenerate(p) \/ ForgetKey(p) \/ \E k \in Keys : RestoreKey(p, k)
  BY DEF Next, ReadGenerate, CommitPut, CommitEdit, CommitRemove, ReadPut, ForgetLogin,
       Remove, AddServer, Edit, Request, Restart, Restore
<1> QED BY <1>a, <1>1, <1>2, <1>3, <1>4, <1>5

(* What a request may hold, among keys `keys` that there are. *)
Fine(r, keys) ==
  /\ r \in Requests
  /\ r.op = "put" => /\ r.source \in Sources /\ r.envelope \in Envelope
                     /\ r.envelope.key \in keys
                     /\ r.source = Roster => r.envelope.for = Pub
  /\ r.op = "generate" => r.key \in keys

LEMMA RequestsAreFine ==
  ASSUME TypeInv, LoginsInv
  PROVE  \A p \in Procs : Fine(req[p], drawn)
<1> SUFFICES ASSUME NEW p \in Procs PROVE Fine(req[p], drawn)
  OBVIOUS
<1>1. req[p] \in Requests
  BY DEF TypeInv
<1>2. req[p].op = "put" => req[p].source \in Sources /\ req[p].envelope \in Envelope
  BY <1>1 DEF Requests, Idle
<1> QED BY <1>1, <1>2 DEF LoginsInv, SealedRight, Fine

LEMMA NextRequests ==
  ASSUME CredentialsAssumption, IInv, Next
  PROVE  req' \in [Procs -> Requests] /\ \A p \in Procs : Fine(req'[p], drawn')
<1>0. TypeInv /\ LoginsInv
  BY DEF IInv
<1>a. drawn \subseteq drawn' /\ drawn' \subseteq Keys
  BY NextStores
<1>b. Fine(Idle, drawn')
  BY IdleIsIdle DEF Fine
<1>c. \A p \in Procs : Fine(req[p], drawn')
  BY <1>0, <1>a, RequestsAreFine DEF Fine
<1>d. ASSUME NEW p \in Procs, \E r : Fine(r, drawn') /\ req' = [req EXCEPT ![p] = r]
      PROVE  req' \in [Procs -> Requests] /\ \A q \in Procs : Fine(req'[q], drawn')
  <2>1. PICK r : Fine(r, drawn') /\ req' = [req EXCEPT ![p] = r]
    BY <1>d
  <2>2. req \in [Procs -> Requests] /\ r \in Requests
    BY <1>0, <2>1 DEF TypeInv, Fine
  <2>3. \A q \in Procs : req'[q] = r \/ req'[q] = req[q]
    BY <2>1, <2>2
  <2> QED BY <1>c, <2>1, <2>2, <2>3
<1>1. ASSUME NEW p \in Procs, ReadGenerate(p)
      PROVE  \E r : Fine(r, drawn') /\ req' = [req EXCEPT ![p] = r]
  <2>1. PICK k \in Keys : req' = [req EXCEPT ![p] = [op |-> "generate", key |-> k]] /\ k \in drawn'
    BY <1>1 DEF ReadGenerate
  <2>2. Fine([op |-> "generate", key |-> k], drawn')
    BY <2>1 DEF Fine, Requests
  <2> QED BY <2>1, <2>2
<1>2. ASSUME NEW p \in Procs, NEW s \in Sources, ReadPut(p, s)
      PROVE  \E r : Fine(r, drawn') /\ req' = [req EXCEPT ![p] = r]
  <2> DEFINE o == IF s = Roster THEN Pub ELSE addr[s]
             e == Sealed(Material, o)
             r == [op |-> "put", source |-> s, envelope |-> e]
  <2>1. o \in Origins /\ (s = Roster => o = Pub) /\ Material \in Keys /\ Material \in drawn'
    BY <1>0, <1>2, <1>a, MaterialIsHeld DEF ReadPut, TypeInv, CredentialsAssumption
  <2>2. e \in Envelope /\ e.key = Material /\ e.for = o
    BY <2>1, SealedIsEnvelope
  <2>3. req' = [req EXCEPT ![p] = r]
    BY <1>2 DEF ReadPut
  <2> HIDE DEF e, o
  <2>4. r \in Requests
    BY <2>2 DEF Requests
  <2>5. Fine(r, drawn')
    BY <2>1, <2>2, <2>4 DEF Fine
  <2> QED BY <2>3, <2>5
<1>3. ASSUME NEW p \in Procs, NEW s \in Sources, NEW to \in Origins, Edit(p, s, to)
      PROVE  \E r : Fine(r, drawn') /\ req' = [req EXCEPT ![p] = r]
  <2>1. Fine([op |-> "edit", source |-> s, to |-> to], drawn')
    BY <1>3 DEF Edit, Fine, Requests
  <2> QED BY <1>3, <2>1 DEF Edit
<1>4. ASSUME NEW p \in Procs, NEW s \in Sources, Remove(p, s)
      PROVE  \E r : Fine(r, drawn') /\ req' = [req EXCEPT ![p] = r]
  <2>1. Fine([op |-> "remove", source |-> s], drawn')
    BY DEF Fine, Requests
  <2> QED BY <1>4, <2>1 DEF Remove
<1>5. ASSUME NEW p \in Procs, WriteGenerate(p) \/ CommitPut(p) \/ CommitEdit(p) \/ CommitRemove(p)
      PROVE  \E r : Fine(r, drawn') /\ req' = [req EXCEPT ![p] = r]
  BY <1>5, <1>b DEF WriteGenerate, CommitPut, CommitEdit, CommitRemove, Done
<1>6. CASE Restart
  BY <1>6, <1>b, IdleIsIdle DEF Restart
<1>7. CASE UNCHANGED req
  BY <1>0, <1>7, <1>c DEF TypeInv
<1>8. \/ UNCHANGED req \/ Restart
      \/ \E p \in Procs :
           \/ ReadGenerate(p) \/ WriteGenerate(p) \/ CommitPut(p) \/ CommitEdit(p) \/ CommitRemove(p)
           \/ \E s \in Sources : ReadPut(p, s) \/ Remove(p, s)
           \/ \E s \in Servers, to \in Origins : Edit(p, s, to)
  BY DEF Next, ForgetKey, RestoreKey, ForgetLogin, AddServer, Request, Restore
<1>9. Servers \subseteq Sources
  BY DEF Sources
<1> QED BY <1>1, <1>2, <1>3, <1>4, <1>5, <1>6, <1>7, <1>8, <1>9, <1>d

(* A stored login as it may be, of source s. *)
Stored(s, e, keys) ==
  e = None \/ (e \in Envelope /\ e.key \in keys /\ (s = Roster => e.for = Pub))

LEMMA NextAddresses ==
  ASSUME CredentialsAssumption, IInv, Next PROVE addr' \in [Sources -> Origins \cup {None}]
<1>0. addr \in [Sources -> Origins \cup {None}] /\ req \in [Procs -> Requests]
  BY DEF IInv, TypeInv
<1>1. ASSUME NEW p \in Procs, CommitEdit(p) PROVE addr' \in [Sources -> Origins \cup {None}]
  <2>1. req[p].to \in Origins
    BY <1>0, <1>1, IdleIsIdle DEF CommitEdit, Requests, Idle
  <2> QED BY <1>0, <1>1, <2>1 DEF CommitEdit
<1>2. CASE Restart
  BY <1>0, <1>2 DEF Restart, CredentialsAssumption
<1>3. ASSUME NEW p \in Procs, NEW s \in Servers, NEW o \in Origins, AddServer(p, s, o)
      PROVE  addr' \in [Sources -> Origins \cup {None}]
  BY <1>0, <1>3 DEF AddServer
<1>4. ASSUME NEW p \in Procs, NEW s \in Sources, Remove(p, s)
      PROVE  addr' \in [Sources -> Origins \cup {None}]
  BY <1>0, <1>4 DEF Remove
<1>5. ASSUME NEW rows, NEW o \in Origins, NEW at \in [Servers -> Origins],
             Restore(rows, [s \in Sources |-> IF s = Roster THEN o ELSE at[s]])
      PROVE  addr' \in [Sources -> Origins \cup {None}]
  BY <1>5 DEF Restore, Sources
<1>6. CASE UNCHANGED addr
  BY <1>0, <1>6
<1>7. \/ UNCHANGED addr \/ Restart
      \/ \E p \in Procs :
           \/ CommitEdit(p)
           \/ \E s \in Sources : Remove(p, s)
           \/ \E s \in Servers, o \in Origins : AddServer(p, s, o)
      \/ \E rows \in {Restored(a) : a \in Archives}, o \in Origins, at \in [Servers -> Origins] :
           Restore(rows, [s \in Sources |-> IF s = Roster THEN o ELSE at[s]])
  BY DEF Next, ReadGenerate, WriteGenerate, ForgetKey, RestoreKey, ReadPut, CommitPut,
       ForgetLogin, Edit, CommitRemove, Request
<1> QED BY <1>1, <1>2, <1>3, <1>4, <1>5, <1>6, <1>7

(* A step stores a login as it may be, of one source, or a whole archive's. *)
LEMMA NextRows ==
  ASSUME CredentialsAssumption, IInv, Next
  PROVE  /\ row' \in [Sources -> Envelope \cup {None}]
         /\ \A s \in Sources : Stored(s, row'[s], drawn')
<1>0. TypeInv /\ LoginsInv /\ row \in [Sources -> Envelope \cup {None}]
  BY DEF IInv, TypeInv
<1>a. drawn \subseteq drawn' /\ drawn' \subseteq Keys
  BY NextStores
<1>b. \A s \in Sources : Stored(s, row[s], drawn')
  BY <1>0, <1>a DEF Stored, LoginsInv, SealedRight
<1>c. ASSUME NEW s \in Sources, \E e : Stored(s, e, drawn') /\ row' = [row EXCEPT ![s] = e]
      PROVE  /\ row' \in [Sources -> Envelope \cup {None}]
             /\ \A q \in Sources : Stored(q, row'[q], drawn')
  <2>1. PICK e : Stored(s, e, drawn') /\ row' = [row EXCEPT ![s] = e]
    BY <1>c
  <2>2. e \in Envelope \cup {None}
    BY <2>1 DEF Stored
  <2>3. \A q \in Sources : IF q = s THEN row'[q] = e ELSE row'[q] = row[q]
    BY <1>0, <2>1
  <2>4. row' \in [Sources -> Envelope \cup {None}]
    BY <1>0, <2>1, <2>2
  <2> QED BY <1>b, <2>1, <2>3, <2>4
<1>d. \A s : Stored(s, None, drawn')
  BY DEF Stored
<1>1. ASSUME NEW p \in Procs, CommitPut(p)
      PROVE  \E s \in Sources : \E e : Stored(s, e, drawn') /\ row' = [row EXCEPT ![s] = e]
  <2>1. Fine(req[p], drawn) /\ req[p].op = "put"
    BY <1>0, <1>1, RequestsAreFine DEF CommitPut
  <2>2. req[p].source \in Sources /\ Stored(req[p].source, req[p].envelope, drawn')
    BY <1>a, <2>1 DEF Fine, Stored
  <2> QED BY <1>1, <2>2 DEF CommitPut
<1>2. ASSUME NEW p \in Procs, CommitRemove(p)
      PROVE  \E s \in Sources : \E e : Stored(s, e, drawn') /\ row' = [row EXCEPT ![s] = e]
  <2>1. req[p] \in Requests /\ req[p].op = "remove"
    BY <1>0, <1>2 DEF CommitRemove, TypeInv
  <2>2. req[p].source \in Sources
    BY <2>1 DEF Requests, Idle
  <2> QED BY <1>2, <1>d, <2>2 DEF CommitRemove
<1>3. ASSUME NEW p \in Procs, NEW s \in Sources,
             ForgetLogin(p, s) \/ \E o \in Origins : Edit(p, s, o)
      PROVE  \E e : Stored(s, e, drawn') /\ row' = [row EXCEPT ![s] = e]
  BY <1>3, <1>d DEF ForgetLogin, Edit
<1>4. ASSUME NEW s \in Sources, Request(s), ~ UNCHANGED row
      PROVE  \E e : Stored(s, e, drawn') /\ row' = [row EXCEPT ![s] = e]
  <2>1. addr[s] # None /\ Resolved(s) \in Origins /\ row' = [row EXCEPT ![s] = Sealed(Material, addr[s])]
    BY <1>4 DEF Request
  <2>2. Material \in drawn /\ (s = Roster => addr[s] = Pub) /\ addr[s] \in Origins /\ Material \in Keys
    BY <1>0, <2>1, ResolvedIsForHere DEF TypeInv
  <2>3. Stored(s, Sealed(Material, addr[s]), drawn')
    BY <1>a, <2>2, SealedIsEnvelope DEF Stored
  <2> QED BY <2>1, <2>3
<1>5. ASSUME NEW a \in Archives, row' = Restored(a), UNCHANGED drawn
      PROVE  /\ row' \in [Sources -> Envelope \cup {None}]
             /\ \A s \in Sources : Stored(s, row'[s], drawn')
  <2>1. Roster \in Sources /\ \A s \in Sources : row'[s] = IF s = Roster THEN a[s] ELSE None
    BY <1>5 DEF Restored, Sources
  <2>2. a[Roster] = None \/ \E v \in {1, 2}, k \in drawn : a[Roster] = [version |-> v, key |-> k, for |-> Pub]
    BY DEF Archives, Sources
  <2>3. Stored(Roster, a[Roster], drawn')
    <3>1. CASE a[Roster] = None
      BY <3>1, <1>d
    <3>2. ASSUME NEW v \in {1, 2}, NEW k \in drawn, a[Roster] = [version |-> v, key |-> k, for |-> Pub]
          PROVE  Stored(Roster, a[Roster], drawn')
      <4>1. k \in Keys /\ k \in drawn' /\ Pub \in Origins
        BY <1>a, <1>5 DEF CredentialsAssumption
      <4>2. a[Roster] \in Envelope
        BY <3>2, <4>1 DEF Envelope
      <4> QED BY <3>2, <4>1, <4>2 DEF Stored
    <3> QED BY <2>2, <3>1, <3>2
  <2>4. \A s \in Sources : Stored(s, row'[s], drawn')
    BY <1>d, <2>1, <2>3
  <2>5. \A s \in Sources : row'[s] \in Envelope \cup {None}
    BY <2>4 DEF Stored
  <2> QED BY <1>5, <2>4, <2>5 DEF Restored
<1>6. CASE UNCHANGED row
  BY <1>0, <1>b, <1>6
<1>7. \/ UNCHANGED row
      \/ \E p \in Procs :
           \/ CommitPut(p) \/ CommitRemove(p)
           \/ \E s \in Sources : ForgetLogin(p, s)
           \/ \E s \in Servers, o \in Origins : Edit(p, s, o)
      \/ \E s \in Sources : Request(s) /\ ~ UNCHANGED row
      \/ \E a \in Archives : row' = Restored(a) /\ UNCHANGED drawn
  BY DEF Next, ReadGenerate, WriteGenerate, ForgetKey, RestoreKey, ReadPut, CommitEdit,
       Remove, AddServer, Restart, Restore
<1>8. Servers \subseteq Sources
  BY DEF Sources
<1> QED BY <1>c, <1>1, <1>2, <1>3, <1>4, <1>5, <1>6, <1>7, <1>8

LEMMA NextSent ==
  ASSUME CredentialsAssumption, IInv, Next PROVE SentInv'
<1>0. TypeInv /\ LoginsInv
  BY DEF IInv
<1>1. ASSUME sent' = None PROVE SentInv'
  BY <1>1 DEF SentInv, LoginsStayHome, NoStandIn
<1>2. ASSUME NEW s \in Sources, Request(s), sent' # None PROVE SentInv'
  <2>1. /\ addr[s] # None /\ Resolved(s) # None
        /\ sent' = [login |-> Resolved(s), to |-> addr[s]]
        /\ UNCHANGED row \/ Resolved(s) \in Origins
    BY <1>2 DEF Request
  <2>2. LoginsStayHome'
    BY <1>0, <2>1, ResolvedIsForHere DEF LoginsStayHome
  <2>3. ASSUME Resolved(s) = "shipped" PROVE s = Roster /\ row[s] = None /\ UNCHANGED row
    <3>1. "shipped" \notin Origins
      BY DEF CredentialsAssumption
    <3>2. row[s] = None
      <4>1. row[s] # None => row[s].for \in Origins
        BY <1>0 DEF TypeInv, Envelope
      <4> QED BY <2>1, <2>3, <3>1, <4>1 DEF Resolved
    <3>3. s = Roster
      BY <2>1, <2>3, <3>2 DEF Resolved
    <3> QED BY <2>1, <2>3, <3>1, <3>2, <3>3
  <2>4. NoStandIn'
    BY <2>1, <2>3 DEF NoStandIn
  <2> QED BY <2>2, <2>4 DEF SentInv
<1>3. sent' = None \/ \E s \in Sources : Request(s)
  BY DEF Next, ReadGenerate, WriteGenerate, ForgetKey, RestoreKey, ReadPut, CommitPut,
       ForgetLogin, AddServer, Edit, CommitEdit, Remove, CommitRemove, Restart, Restore, Same
<1> QED BY <1>1, <1>2, <1>3

(* Nothing is stored and sealed under a key where there is no key. *)
LEMMA NothingStrandedNothingStored ==
  ASSUME CredentialsAssumption, TypeInv, Held = {}, Stranded = {}
  PROVE  \A s \in Sources : row[s] = None
<1> SUFFICES ASSUME NEW s \in Sources, row[s] # None PROVE FALSE
  OBVIOUS
<1>1. row[s].key \in Keys /\ Material = None
  BY MaterialIsHeld DEF TypeInv, Envelope
<1>2. row[s].key # Material
  BY <1>1 DEF CredentialsAssumption
<1> QED BY <1>2 DEF Stranded

LEMMA NextTurns ==
  ASSUME CredentialsAssumption, IInv, Next PROVE TurnsInv'
<1> USE DEF Same
<1>0. TypeInv /\ LoginsInv /\ TurnsInv /\ req \in [Procs -> Requests]
  BY DEF IInv, TypeInv
<1>a. UNCHANGED overlap
  BY DEF Next, ReadGenerate, WriteGenerate, ForgetKey, RestoreKey, ReadPut, CommitPut,
       ForgetLogin, AddServer, Edit, CommitEdit, Remove, CommitRemove, Request, Restart, Restore
<1> DEFINE TakeTurns ==
      /\ \A p, q \in Procs : p # q => req'[p] = Idle \/ req'[q] = Idle
      /\ \A p \in Procs : req'[p].op = "generate" => \A s \in Sources : row'[s] = None
<1> SUFFICES ASSUME ~ overlap PROVE TakeTurns
  BY <1>a DEF TurnsInv
<1>b. /\ \A p, q \in Procs : p # q => req[p] = Idle \/ req[q] = Idle
      /\ \A p \in Procs : req[p].op = "generate" => \A s \in Sources : row[s] = None
  BY <1>0 DEF TurnsInv
<1>c. ASSUME NEW p \in Procs, NEW r, req' = [req EXCEPT ![p] = r],
             \A q \in Procs \ {p} : req[q] = Idle,
             r.op = "generate" => \A s \in Sources : row'[s] = None
      PROVE  TakeTurns
  <2>1. req'[p] = r /\ \A q \in Procs \ {p} : req'[q] = Idle
    BY <1>0, <1>c
  <2> QED BY <1>c, <2>1, IdleIsIdle
<1>d. \A p \in Procs : Ready(p) => \A q \in Procs : req[q] = Idle
  BY DEF Ready, Quiet
<1>e. \A p \in Procs : req[p].op # "idle" => \A q \in Procs \ {p} : req[q] = Idle
  BY <1>b, IdleIsIdle
<1>1. ASSUME NEW p \in Procs, ReadGenerate(p)
      PROVE  TakeTurns
  <2>1. PICK k \in Keys : req' = [req EXCEPT ![p] = [op |-> "generate", key |-> k]]
    BY <1>1 DEF ReadGenerate
  <2>2. \A s \in Sources : row'[s] = None
    BY <1>0, <1>1, NothingStrandedNothingStored DEF ReadGenerate
  <2> QED BY <1>1, <1>c, <1>d, <2>1, <2>2 DEF ReadGenerate
<1>2. ASSUME NEW p \in Procs, NEW s \in Sources, ReadPut(p, s) \/ Remove(p, s) \/ \E o \in Origins : Edit(p, s, o)
      PROVE  TakeTurns
  <2>1. \E r : req' = [req EXCEPT ![p] = r] /\ r.op # "generate"
    <3>1. CASE ReadPut(p, s)
      <4> DEFINE r == [op |-> "put", source |-> s,
                       envelope |-> Sealed(Material, IF s = Roster THEN Pub ELSE addr[s])]
      <4>1. r.op # "generate"
        OBVIOUS
      <4> QED BY <3>1, <4>1 DEF ReadPut
    <3>2. CASE Remove(p, s)
      <4>1. [op |-> "remove", source |-> s].op # "generate"
        OBVIOUS
      <4> QED BY <3>2, <4>1 DEF Remove
    <3>3. ASSUME NEW o \in Origins, Edit(p, s, o)
          PROVE  \E r : req' = [req EXCEPT ![p] = r] /\ r.op # "generate"
      <4>1. [op |-> "edit", source |-> s, to |-> o].op # "generate"
        OBVIOUS
      <4> QED BY <3>3, <4>1 DEF Edit
    <3> QED BY <1>2, <3>1, <3>2, <3>3
  <2>2. Ready(p)
    BY <1>2 DEF ReadPut, Remove, Edit
  <2> QED BY <1>c, <1>d, <2>1, <2>2
<1>3. ASSUME NEW p \in Procs, WriteGenerate(p) \/ CommitPut(p) \/ CommitEdit(p) \/ CommitRemove(p)
      PROVE  TakeTurns
  <2>1. req' = [req EXCEPT ![p] = Idle] /\ req[p].op # "idle"
    BY <1>3 DEF WriteGenerate, CommitPut, CommitEdit, CommitRemove, Done
  <2> QED BY <1>c, <1>e, <2>1, IdleIsIdle
<1>4. CASE \A p \in Procs : req'[p] = Idle
  BY <1>4, IdleIsIdle
<1>5. ASSUME UNCHANGED req, \A s \in Sources : row[s] = None => row'[s] = None
      PROVE  TakeTurns
  BY <1>5, <1>b
<1>6. ASSUME NEW p \in Procs, NEW s \in Sources, ForgetLogin(p, s)
      PROVE  UNCHANGED req /\ \A z \in Sources : row[z] = None => row'[z] = None
  BY <1>0, <1>6 DEF ForgetLogin, TypeInv
<1>7. ASSUME NEW s \in Sources, Request(s)
      PROVE  UNCHANGED req /\ \A z \in Sources : row[z] = None => row'[z] = None
  <2>1. addr[s] # None /\ UNCHANGED req /\ (UNCHANGED row \/ Resolved(s) \in Origins)
    BY <1>7 DEF Request
  <2>2. Resolved(s) \in Origins => row[s] # None
    BY <1>0, <2>1, ResolvedIsForHere
  <2>3. \A z \in Sources : z # s => row'[z] = row[z]
    BY <1>0, <1>7 DEF Request, TypeInv
  <2> QED BY <2>1, <2>2, <2>3
<1>8. CASE Quiet /\ UNCHANGED req
  BY <1>8, IdleIsIdle DEF Quiet
<1> HIDE DEF TakeTurns
<1>9. \/ UNCHANGED <<req, row>>
      \/ Quiet /\ UNCHANGED req
      \/ \A p \in Procs : req'[p] = Idle
      \/ \E s \in Sources : Request(s)
      \/ \E p \in Procs :
           \/ ReadGenerate(p) \/ WriteGenerate(p) \/ CommitPut(p) \/ CommitEdit(p) \/ CommitRemove(p)
           \/ \E s \in Sources : ReadPut(p, s) \/ Remove(p, s) \/ ForgetLogin(p, s)
           \/ \E s \in Sources, o \in Origins : Edit(p, s, o)
  BY DEF Next, ForgetKey, RestoreKey, AddServer, Restart, Restore, Sources
<1> QED BY <1>1, <1>2, <1>3, <1>4, <1>5, <1>6, <1>7, <1>8, <1>9

LEMMA NextInv == ASSUME CredentialsAssumption PROVE IInv /\ [Next]_vars => IInv'
<1> SUFFICES ASSUME IInv, [Next]_vars PROVE IInv'
  OBVIOUS
<1>1. CASE UNCHANGED vars
  BY <1>1 DEF vars, IInv, TypeInv, LoginsInv, SealedRight, SentInv, LoginsStayHome, NoStandIn,
       StoresAgree, Held, KeysHeld, TurnsInv
<1>2. CASE Next
  <2>1. TypeInv'
    BY <1>2, NextStores, NextRequests, NextRows, NextAddresses DEF TypeInv
  <2>2. LoginsInv'
    BY <1>2, NextRequests, NextRows DEF LoginsInv, SealedRight, Stored, Fine
  <2>3. SentInv' /\ StoresAgree' /\ TurnsInv'
    BY <1>2, NextSent, NextStores, NextTurns
  <2> QED BY <2>1, <2>2, <2>3 DEF IInv
<1> QED BY <1>1, <1>2

(* The inductive invariant, of any number of threads, keys and servers. *)
THEOREM Inductive == ASSUME CredentialsAssumption PROVE Spec => []IInv
BY InitInv, NextInv, PTL DEF Spec

(* Stores, logins and addresses are of keys and origins there are          *)
(* (key_material, put).                                                    *)
THEOREM TypesHold == ASSUME CredentialsAssumption PROVE Spec => []TypeOK
<1>1. IInv => TypeOK
  <2> SUFFICES ASSUME IInv PROVE TypeOK
    OBVIOUS
  <2>1. KeysHeld \subseteq drawn
    BY DEF IInv, TypeInv, KeysHeld, Held
  <2>2. \A s \in Sources : row[s] # None => row[s] \in Envelope /\ row[s].key \in drawn
    BY DEF IInv, TypeInv, LoginsInv, SealedRight
  <2>3. (\A s \in Sources : addr[s] \in Origins \cup {None})
        /\ (store["env"] # None => store["env"] \in drawn)
    BY DEF IInv, TypeInv, Stores
  <2> QED BY <2>1, <2>2, <2>3 DEF TypeOK
<1> QED BY <1>1, Inductive, PTL

(* A login that is stored is sent to the origin it was entered for, and    *)
(* nowhere else (credentials.py, what an envelope is sealed over).         *)
THEOREM LoginsStayHomeAlways == ASSUME CredentialsAssumption PROVE Spec => []LoginsStayHome
<1>1. IInv => LoginsStayHome
  BY DEF IInv, SentInv
<1> QED BY <1>1, Inductive, PTL

(* Nor is the login a catalogue publishes sent in place of a stored one    *)
(* (the levels of the resolution).                                         *)
THEOREM NoStandInEver == ASSUME CredentialsAssumption PROVE Spec => []NoStandIn
<1>1. IInv => NoStandIn
  BY DEF IInv, SentInv
<1> QED BY <1>1, Inductive, PTL

(* Wherever every store with a key can be written, the stores agree        *)
(* (store_key and forget_key).                                             *)
THEOREM StoresAgreeAlways == ASSUME CredentialsAssumption PROVE Spec => []StoresAgree
<1>1. IInv => StoresAgree
  BY DEF IInv
<1> QED BY <1>1, Inductive, PTL

(* While requests take turns, a key is written only where no login is      *)
(* stored, under whatever key: it strands none.                            *)
THEOREM GenerateStrandsNothingEver ==
  ASSUME CredentialsAssumption PROVE Spec => [][GenerateStrandsNothing]_vars
<1>1. IInv /\ [Next]_vars => [GenerateStrandsNothing]_vars
  <2> SUFFICES ASSUME IInv, Next, NEW p \in Procs, ~ overlap, req[p].op = "generate", store' # store
               PROVE  \A s \in Sources : row[s] = None
    BY DEF GenerateStrandsNothing
  <2> QED BY DEF IInv, TurnsInv
<1> QED BY <1>1, Inductive, PTL DEF Spec
=============================================================================
