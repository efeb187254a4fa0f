---------------------------- MODULE ModelCatalog ----------------------------
(***************************************************************************)
(* The models of one account: how a refresh turns the upstream's catalog   *)
(* into public model IDs (model_provider.go, qodercontrol/models.go), the  *)
(* registry that keeps what they stand for (model_registry.go), the        *)
(* panel's own list (management.go), and the chat requests that name a     *)
(* public ID and are resolved against the registry each time a stream is   *)
(* opened, after a queue wait once more (executor.go, chat_request.go).    *)
(*                                                                         *)
(* A public ID is "qoder/" and a word; here it is the word, which is also  *)
(* what is left of an unresolved one.  Words are names and internal IDs,   *)
(* trimmed, the numbered IDs <<id, k>> for "id-k", and <<"qoder", word>>   *)
(* for a word that has the prefix itself.  The upstream's IDs have none.   *)
(***************************************************************************)
EXTENDS Naturals, FiniteSets, SequencesExt

CONSTANTS
    Words,        \* display names and internal IDs: they may coincide
    NoWord,       \* an empty string
    Catalogs,     \* what the upstream may offer: a sequence of scenes, each a
                  \* sequence of [id, name, meta] entries
    Refreshers,   \* calls of model.for_auth by the host
    Chats,        \* chat requests
    MaxRefreshes, \* bound: refreshes that store a catalog
    MaxOpens,     \* bound: how often a request opens a stream (queue waits)
    MaxLoads      \* bound: how often the panel is loaded

Entries(scenes) == UNION {ToSet(scenes[i]) : i \in DOMAIN scenes}

ASSUME CatalogAssumption ==
    /\ \A scenes \in Catalogs : scenes \in Seq(Seq(Entries(scenes)))
    /\ {MaxRefreshes, MaxOpens, MaxLoads} \subseteq Nat

VARIABLES
    catalog,      \* the upstream's catalog
    stores,       \* how many catalogs were stored
    registry,     \* byAuth of the account: public ID -> record; and history:
                  \* the number of the store and the catalog it came from
    host,         \* the list the host shows: rows; and history: its store
    refresh,      \* each refresh: idle, fetched or stored, with its listing
    panel,        \* the rows of the management panel, and their catalog
    chat          \* each chat request

catalogVars == <<catalog, stores, registry, host, refresh, panel, chat>>

NoMeta   == [reasoning |-> FALSE, limit |-> 0]
NoRecord == [id |-> NoWord, meta |-> NoMeta]
Empty    == [mapping |-> <<>>, rows |-> <<>>]

----------------------------------------------------------------------------
(* Reading the catalog.                                                    *)

\* modelDisplayName and displayNameForModel: a missing name is the ID itself.
displayNameForModel(m) == IF m.name = NoWord THEN m.id ELSE m.name

Orders(n) == {order \in [1 .. n -> 1 .. n] : \A i, j \in 1 .. n : order[i] = order[j] => i = j}

\* collectModels walks JSON objects in the order of a Go map, which is another
\* one at each call: scenes come in any order, the entries of a scene in theirs,
\* and of each internal ID the first entry stays.
Distinct(entries, m) ==
    IF m.id = NoWord \/ \E i \in DOMAIN entries : entries[i].id = m.id
      THEN entries ELSE Append(entries, m)

collectModels(scenes) ==
    {FoldLeft(Distinct, <<>>, FlattenSeq([i \in DOMAIN scenes |-> scenes[order[i]]])) :
     order \in Orders(Len(scenes))}

\* What FetchModels may return: of the signed catalog, of which none is an error,
\* or, without the runtime fields of the credential, of the plain list, which is
\* taken as it is, empty too.
Fetched(scenes) == (collectModels(scenes) \ {<<>>}) \cup {FlattenSeq(scenes)}

\* A slip: the fallback is taken without looking whether it is in use.
uniquePublicModelID_unchecked(name, id, mapping) ==
    IF name \notin DOMAIN mapping \/ mapping[name].id = id THEN name ELSE id

\* The name, or the internal ID if another model has the name already, or that
\* ID with the first free number.
uniquePublicModelID(name, id, mapping) ==
    LET Free(word) == word \notin DOMAIN mapping \/ mapping[word].id = id
        suffix == CHOOSE k \in 2 .. Cardinality(DOMAIN mapping) + 2 :
                     /\ <<id, k>> \notin DOMAIN mapping
                     /\ \A j \in 2 .. k - 1 : <<id, j>> \in DOMAIN mapping
    IN  CASE Free(name) -> name
          [] ~Free(name) /\ Free(id) -> id
          [] OTHER -> <<id, suffix>>

WithRecord(mapping, word, record) ==
    [w \in DOMAIN mapping \cup {word} |-> IF w = word THEN record ELSE mapping[w]]

\* One entry of the catalog, in authService.models: an entry without ID or with
\* an ID that came before is passed over.
AddModel(listing, m) ==
    LET name     == displayNameForModel(m)
        publicID == uniquePublicModelID(name, m.id, listing.mapping)
        record   == [id |-> m.id, meta |-> m.meta]
    IN  IF m.id = NoWord \/ \E i \in DOMAIN listing.rows : listing.rows[i].record.id = m.id
          THEN listing
          ELSE [mapping |-> WithRecord(listing.mapping, publicID, record),
                rows |-> Append(listing.rows, [public |-> publicID, name |-> name, record |-> record])]

Listing(fetched) == FoldLeft(AddModel, Empty, fetched)

\* The panel merges by name and profile: the first model of a name stays.
AddRow(rows, m) ==
    LET name == displayNameForModel(m)
    IN  IF m.id = NoWord \/ \E i \in DOMAIN rows : rows[i].name = name
          THEN rows ELSE Append(rows, [name |-> name, id |-> m.id])

PanelRows(fetched) == FoldLeft(AddRow, <<>>, fetched)

----------------------------------------------------------------------------
CatalogInit ==
    /\ catalog \in Catalogs
    /\ stores = 0
    /\ registry = [mapping |-> <<>>, store |-> 0, catalog |-> <<>>]
    /\ host = [rows |-> <<>>, store |-> 0]
    /\ refresh = [f \in Refreshers |->
                    [at |-> "idle", listing |-> Empty, store |-> 0, catalog |-> <<>>]]
    /\ panel = [rows |-> <<>>, catalog |-> <<>>, loads |-> 0]
    /\ chat = [c \in Chats |-> [at |-> "idle", row |-> NoWord, store |-> 0,
                                effort |-> "none", opens |-> 0, sent |-> NoWord,
                                from |-> [store |-> 0, catalog |-> <<>>]]]

\* The upstream offers other models from now on.
CatalogChanges ==
    /\ catalog' \in Catalogs \ {catalog}
    /\ UNCHANGED <<stores, registry, host, refresh, panel, chat>>

\* authService.models asks the upstream; without an answer nothing is stored.
FetchModels(f) ==
    /\ refresh[f].at = "idle" /\ stores < MaxRefreshes
    /\ \E fetched \in Fetched(catalog) :
          refresh' = [refresh EXCEPT ![f] = [at |-> "fetched", listing |-> Listing(fetched),
                                             store |-> 0, catalog |-> catalog]]
    /\ UNCHANGED <<catalog, stores, registry, host, panel, chat>>

\* A slip: what is known already is kept.
storeCatalog_merged(f) ==
    /\ refresh[f].at = "fetched" /\ stores < MaxRefreshes
    /\ stores' = stores + 1
    /\ LET old == registry.mapping
           new == refresh[f].listing.mapping
       IN  registry' = [mapping |-> [w \in DOMAIN old \cup DOMAIN new |->
                                       IF w \in DOMAIN old THEN old[w] ELSE new[w]],
                        store |-> stores', catalog |-> refresh[f].catalog]
    /\ refresh' = [refresh EXCEPT ![f].at = "stored", ![f].store = stores']
    /\ UNCHANGED <<catalog, host, panel, chat>>

\* The whole mapping of the account is replaced under the lock.
storeCatalog(f) ==
    /\ refresh[f].at = "fetched" /\ stores < MaxRefreshes
    /\ stores' = stores + 1
    /\ registry' = [mapping |-> refresh[f].listing.mapping, store |-> stores',
                    catalog |-> refresh[f].catalog]
    /\ refresh' = [refresh EXCEPT ![f].at = "stored", ![f].store = stores']
    /\ UNCHANGED <<catalog, host, panel, chat>>

\* The RPC's answer reaches the host; two answers may do so in any order.
HostLists(f) ==
    /\ refresh[f].at = "stored"
    /\ host' = [rows |-> refresh[f].listing.rows, store |-> refresh[f].store]
    /\ refresh' = [refresh EXCEPT ![f] = [at |-> "idle", listing |-> Empty, store |-> 0,
                                          catalog |-> <<>>]]
    /\ UNCHANGED <<catalog, stores, registry, panel, chat>>

\* GET /qoder/models asks the upstream itself and stores nothing.
ManagementModels ==
    /\ panel.loads < MaxLoads
    /\ \E fetched \in Fetched(catalog) :
          panel' = [rows |-> PanelRows(fetched), catalog |-> catalog, loads |-> panel.loads + 1]
    /\ UNCHANGED <<catalog, stores, registry, host, refresh, chat>>

----------------------------------------------------------------------------
(* A chat request.                                                         *)

\* A word that has the prefix itself: "qoder/qoder/x" is the public ID.
Prefixed(word) == <<"qoder", word>>

\* What the registry holds for a public ID: one prefix is taken off for a second
\* look-up.  (It is never put on: parseChatPayload has done so.)
resolveRecord(mapping, word) ==
    LET bare == {w \in DOMAIN mapping : word = Prefixed(w)}
    IN  CASE word \in DOMAIN mapping -> mapping[word]
          [] word \notin DOMAIN mapping /\ bare # {} -> mapping[CHOOSE w \in bare : TRUE]
          [] OTHER -> NoRecord

\* parseChatPayload and toCosyRequest: an unknown ID is sent as it is, without
\* its prefix; thinking is enabled for reasoning models unless declined.
Outbound(word, record, effort) ==
    [model |-> IF record.id = NoWord THEN word ELSE record.id,
     thinking |-> record.meta.reasoning /\ effort # "none",
     limit |-> record.meta.limit]

OwnWords == {[public |-> word, name |-> word, record |-> NoRecord] :
             word \in Words \cup {Prefixed(w) : w \in Words}}

\* The client picks a row of the host's list, or names a word of its own.
Begin(c) ==
    /\ chat[c].at = "idle"
    /\ \E effort \in {"none", "high"}, row \in ToSet(host.rows) \cup OwnWords :
          chat' = [chat EXCEPT ![c] = [@ EXCEPT
                      !.at = "open", !.row = row, !.effort = effort,
                      !.store = IF row \in OwnWords THEN 0 ELSE host.store]]
    /\ UNCHANGED <<catalog, stores, registry, host, refresh, panel>>

\* StreamChat resolves the model anew each time queueAwait opens a stream.
StreamChat(c) ==
    /\ chat[c].at \in {"open", "waiting"} /\ chat[c].opens < MaxOpens
    /\ LET row == chat[c].row
       IN  chat' = [chat EXCEPT ![c] = [@ EXCEPT
                       !.at = "streaming", !.opens = @ + 1,
                       !.from = [store |-> registry.store, catalog |-> registry.catalog],
                       !.sent = Outbound(row.public, resolveRecord(registry.mapping, row.public),
                                        chat[c].effort)]]
    /\ UNCHANGED <<catalog, stores, registry, host, refresh, panel>>

\* The upstream refuses with a queue hint and the executor waits.
Refused(c) ==
    /\ chat[c].at = "streaming"
    /\ chat' = [chat EXCEPT ![c].at = "waiting"]
    /\ UNCHANGED <<catalog, stores, registry, host, refresh, panel>>

CatalogNext ==
    \/ CatalogChanges \/ ManagementModels
    \/ \E f \in Refreshers : FetchModels(f) \/ storeCatalog(f) \/ HostLists(f)
    \/ \E c \in Chats : Begin(c) \/ StreamChat(c) \/ Refused(c)

CatalogSpec == CatalogInit /\ [][CatalogNext]_catalogVars

----------------------------------------------------------------------------
(* Correctness.                                                            *)

\* A word that means one and the same model in a catalog whatever its order:
\* the name of that model only, under this name only, and no other's ID, with
\* or without a number.
Means(word, scenes, record) ==
    \A m \in Entries(scenes) :
        /\ displayNameForModel(m) = word => record = [id |-> m.id, meta |-> m.meta]
        /\ m.id = record.id => displayNameForModel(m) = word
        /\ m.id = word => m.id = record.id
        /\ word \notin {m.id} \X Nat

\* Names may coincide with each other, with internal IDs and across scenes:
\* still every model of the catalog is listed under one public ID, no two under
\* the same, and the mapping stored with the list resolves each to its model
\* (uniquePublicModelID).
CatalogIsOneToOne ==
    \A f \in Refreshers : refresh[f].at # "idle" =>
        LET rows    == refresh[f].listing.rows
            mapping == refresh[f].listing.mapping
        IN  /\ \A i, j \in DOMAIN rows : rows[i].public = rows[j].public => i = j
            /\ \A i \in DOMAIN rows : mapping[rows[i].public] = rows[i].record
            /\ {m.id : m \in Entries(refresh[f].catalog)} \ {NoWord} =
               {rows[i].record.id : i \in DOMAIN rows}

\* A request by a listed ID goes to the model it was listed for, with that
\* model's limit and thinking, each time its stream is opened.  Only one thing
\* may change that: another refresh was stored than the one the host showed, and
\* in its catalog the ID does not mean that model whatever the order.
ListedModelIsCalled ==
    \A c \in Chats : chat[c].opens > 0 /\ chat[c].store # 0 =>
        LET row == chat[c].row
        IN  \/ chat[c].sent = Outbound(row.public, row.record, chat[c].effort)
            \/ /\ chat[c].from.store # chat[c].store
               /\ ~ /\ Means(row.public, chat[c].from.catalog, row.record)
                    /\ row.record.id \in {m.id : m \in Entries(chat[c].from.catalog)}

\* The panel lists names on its own: of the same catalog, each is one that a
\* request can use, and calls a model of that name, or the one whose ID, numbered
\* or not, the name is; unless the catalog has a model under two names, of which
\* one fetch takes one and one the other.
PanelNamesAreCallable ==
    panel.catalog = registry.catalog =>
        \A row \in ToSet(panel.rows) :
            \/ /\ row.name \in DOMAIN registry.mapping
               /\ \E m \in Entries(panel.catalog) :
                     /\ m.id = registry.mapping[row.name].id
                     /\ row.name \in {displayNameForModel(m), m.id} \cup ({m.id} \X Nat)
            \/ \E m \in Entries(panel.catalog) :
                  m.id = row.id /\ displayNameForModel(m) # row.name
============================================================================
