-------------------------------- MODULE Rag --------------------------------
(***************************************************************************)
(* The knowledge base behind the chats (platform/rag): consumers of three  *)
(* event types cut chunks and index them in Qdrant, one collection per     *)
(* shop, while requests search it.  All requests share one RAGFetcher,     *)
(* whose query and source filter are set before it is read.                *)
(***************************************************************************)
EXTENDS Naturals, FiniteSets

CONSTANTS RagShops,
          Topics,      \* what a chunk or a query is about; they match when equal
          Indexers,    \* sources the event consumers index, one goroutine each
          ReaderKinds, \* of requests: "customer", "admin" or a content job
          Readers,     \* slots of requests
          TopK,        \* hits asked for
          RagBudgets, MaxRagFailures   \* bounds: pairs [chunks, searches] a behaviour may use

VARIABLES
    points,      \* points[c]: the chunks of Qdrant's collection c
    collections, \* collections Qdrant has
    created,     \* createdCollections: shops this process has made one for
    embeddings,  \* queries whose vector is in Redis
    query, sources,   \* the fields of the shared RAGFetcher
    index,       \* index[c]: [pc, chunk], the batch of consumer c
    search,      \* search[r]: [pc, kind, shop, asked, filter, vector, used, hits, apart]
    ragBudget, chunks, searches, ragFailures, \* counted for the bounds
    lostChunks   \* chunks whose event was acknowledged and that were not stored

ragVars == <<points, collections, created, embeddings, query, sources, index,
             search, ragBudget, chunks, searches, ragFailures, lostChunks>>
indexVars == <<index, created, chunks, lostChunks, ragBudget>>
searchVars == <<search, query, sources, embeddings, searches, ragBudget>>

RagConstants == /\ RagBudgets \subseteq [chunks: Nat, searches: Nat]
                /\ MaxRagFailures \in Nat

All == {"return", "product", "insight", "ai_reply", "review"}   \* ValidSources
\* A nil or empty filter selects all sources.
SourcesOf(s) == IF s = {} THEN All ELSE s

\* A shop's collection.
\* Seeded bug: the name keeps so little of the shop's id that all shops share it.
CollectionNameShort(s) == "rag_"
CollectionName(s) == <<"rag_", s>>

NoChunk == [no |-> 0, shop |-> "", source |-> "", topic |-> ""]
IdleIndex == [pc |-> "idle", chunk |-> NoChunk]
IdleSearch == [pc |-> "idle", kind |-> "", shop |-> "", asked |-> "", filter |-> {},
               used |-> "", by |-> {}, hits |-> {}, apart |-> TRUE]

RagInit ==
    /\ points = [c \in {CollectionName(s) : s \in RagShops} |-> {}]
    /\ collections = {} /\ created = {} /\ embeddings = {}
    /\ query = "" /\ sources = {}
    /\ index = [c \in Indexers |-> IdleIndex] /\ search = [r \in Readers |-> IdleSearch]
    /\ ragBudget \in RagBudgets /\ chunks = 0 /\ searches = 0 /\ ragFailures = 0 /\ lostChunks = {}

RagFail == ragFailures < MaxRagFailures /\ ragFailures' = ragFailures + 1

--------------------------------------------------------------------------
(* Indexing.  Every delivery makes a new chunk under a fresh id, so a second  *)
(* event of the same entity adds a copy.  The handler returns nil whatever    *)
(* happens, and the event is acknowledged.                                    *)
\* MakeChunks: sources off the whitelist are left out.
MakeChunk(c, s, t) == [no |-> chunks + 1, shop |-> s, source |-> c, topic |-> t]
IndexEvent(c, s, t) ==
    /\ index[c].pc = "idle" /\ chunks < ragBudget.chunks
    /\ IF c \in All THEN /\ index' = [index EXCEPT ![c] = [chunk |-> MakeChunk(c, s, t), pc |-> "embed"]]
                          /\ chunks' = chunks + 1
       ELSE UNCHANGED <<index, chunks>>
    /\ UNCHANGED <<points, collections, created, searchVars, ragFailures, lostChunks>>
DropChunk(c) == /\ index' = [index EXCEPT ![c] = IdleIndex]
                /\ lostChunks' = lostChunks \cup {index[c].chunk}
\* indexGroup: a failure of Ollama drops the chunk; the collection is looked for once
\* per process.
Embed(c) ==
    /\ index[c].pc = "embed"
    /\ \/ /\ index' = [index EXCEPT ![c].pc =
                          IF index[c].chunk.shop \in created THEN "upsert" ELSE "look"]
          /\ UNCHANGED <<ragFailures, lostChunks>>
       \/ RagFail /\ DropChunk(c)
    /\ UNCHANGED <<points, collections, created, chunks, searchVars>>

\* EnsureCollection: look, then create; of two consumers that both find none, the
\* second is refused and its chunk is dropped.
HasCollection(s) == CollectionName(s) \in collections
LookForCollection(c) ==
    LET s == index[c].chunk.shop IN
    /\ index[c].pc = "look"
    /\ \/ /\ index' = [index EXCEPT ![c].pc =
                          IF HasCollection(s) THEN "upsert" ELSE "create"]
          /\ created' = IF HasCollection(s) THEN created \cup {s} ELSE created
          /\ UNCHANGED <<ragFailures, lostChunks>>
       \/ RagFail /\ DropChunk(c) /\ UNCHANGED created
    /\ UNCHANGED <<points, collections, chunks, searchVars>>
CreateCollection(c) ==
    LET s == index[c].chunk.shop IN
    /\ index[c].pc = "create"
    /\ \/ /\ ~HasCollection(s)
          /\ collections' = collections \cup {CollectionName(s)}
          /\ created' = created \cup {s} /\ index' = [index EXCEPT ![c].pc = "upsert"]
          /\ UNCHANGED <<ragFailures, lostChunks>>
       \/ /\ IF HasCollection(s) THEN UNCHANGED ragFailures ELSE RagFail
          /\ DropChunk(c) /\ UNCHANGED <<collections, created>>
    /\ UNCHANGED <<points, chunks, searchVars>>
UpsertBatch(c) ==
    LET chunk == index[c].chunk IN
    /\ index[c].pc = "upsert"
    /\ \/ /\ points' = [points EXCEPT ![CollectionName(chunk.shop)] = @ \cup {chunk}]
          /\ index' = [index EXCEPT ![c] = IdleIndex] /\ UNCHANGED <<ragFailures, lostChunks>>
       \/ RagFail /\ DropChunk(c) /\ UNCHANGED points
    /\ UNCHANGED <<collections, created, chunks, searchVars>>
\* The process restarts: Redis, Qdrant and the unacknowledged events outlive it; the
\* rest of a batch is not delivered again by this code.
Restart ==
    /\ RagFail /\ created' = {} /\ query' = "" /\ sources' = {}
    /\ lostChunks' = lostChunks \cup {index[c].chunk : c \in {d \in Indexers : index[d].pc # "idle"}}
    /\ index' = [c \in Indexers |-> IdleIndex] /\ search' = [r \in Readers |-> IdleSearch]
    /\ UNCHANGED <<points, collections, embeddings, ragBudget, chunks, searches>>

--------------------------------------------------------------------------
(* Searching.  A chat with a customer sets the filter and the query, an        *)
(* assistant of the merchant only the query, a content job the filter once and *)
(* the query for each product; then the other fetchers run, and Fetch reads    *)
(* both fields.                                                                *)
ContentJobs == {"desc", "blog", "social"}
FilterOf(k) == CASE k \in {"customer", "social"} -> {"product", "review"}
                 [] k = "desc" -> {"product", "review", "ai_reply"}
                 [] k = "blog" -> {"product", "review", "insight"}
                 [] OTHER -> {}
Underway == {r \in Readers : search[r].pc \notin {"idle", "done"}}
SetSources(r, k, s) ==
    /\ search[r].pc = "idle" /\ searches < ragBudget.searches /\ searches' = searches + 1
    /\ search' = [q \in Readers |->
          IF q = r THEN [IdleSearch EXCEPT !.pc = "set", !.kind = k, !.shop = s,
                                           !.filter = FilterOf(k), !.apart = Underway = {}]
          ELSE [search[q] EXCEPT !.apart = @ /\ q \notin Underway]]
    /\ sources' = IF k = "admin" THEN sources ELSE FilterOf(k)
    /\ UNCHANGED <<points, collections, indexVars, embeddings, query, ragFailures>>
\* InjectWithQuery: an empty query leaves the one that is there.
SetQuery(r, q) ==
    /\ search[r].pc = "set" /\ (q = "" => search[r].kind = "admin")
    /\ query' = IF q # "" THEN q ELSE query
    /\ search' = [search EXCEPT ![r].pc = "fetch", ![r].asked = q]
    /\ UNCHANGED <<points, collections, indexVars, embeddings, sources, searches, ragFailures>>
\* Fetch: the fields are read and the query embedded, unless its vector is cached.
\* Redis may be away; when Ollama fails too the answer is empty.
Fetch(r) ==
    /\ search[r].pc = "fetch"
    /\ \/ /\ query # "" /\ UNCHANGED ragFailures
          /\ search' = [search EXCEPT ![r].pc = "search", ![r].used = query, ![r].by = sources]
          /\ embeddings' \in {embeddings, embeddings \cup {query}}
       \/ /\ IF query = "" THEN UNCHANGED ragFailures ELSE query \notin embeddings /\ RagFail
          /\ search' = [search EXCEPT ![r].pc = "done"] /\ UNCHANGED embeddings
    /\ UNCHANGED <<points, collections, indexVars, query, sources, searches>>
EmbeddingExpires(q) == /\ q \in embeddings /\ embeddings' = embeddings \ {q}
                       /\ UNCHANGED <<points, collections, indexVars, search, query,
                                      sources, searches, ragFailures>>
\* SearchWithText: a missing collection is made and searched; an error is an empty
\* answer.
FilteredHits(r) == LET found == {p \in points[CollectionName(search[r].shop)] :
                            p.topic = search[r].used /\ p.source \in SourcesOf(search[r].by)}
           IN {h \in SUBSET found : Cardinality(h) =
                  IF Cardinality(found) < TopK THEN Cardinality(found) ELSE TopK}
SearchWithText(r) ==
    /\ search[r].pc = "search"
    /\ \/ /\ \E h \in FilteredHits(r) : search' = [search EXCEPT ![r].pc = "done", ![r].hits = h]
          /\ collections' = collections \cup {CollectionName(search[r].shop)}
          /\ UNCHANGED ragFailures
       \/ RagFail /\ search' = [search EXCEPT ![r].pc = "done"] /\ UNCHANGED collections
    /\ UNCHANGED <<points, indexVars, embeddings, query, sources, searches>>
\* The prompt is built; a job goes on to its next product without the filter set.
Answer(r) ==
    /\ search[r].pc = "done"
    /\ search' = [search EXCEPT ![r] = IdleSearch]
    /\ UNCHANGED <<points, collections, indexVars, embeddings, query, sources, searches, ragFailures>>
NextQuery(r) ==
    /\ search[r].pc = "done" /\ search[r].kind \in ContentJobs
    /\ searches < ragBudget.searches /\ searches' = searches + 1
    /\ search' = [q \in Readers |->
          IF q = r THEN [search[r] EXCEPT !.pc = "set", !.hits = {}, !.used = "", !.by = {},
                                          !.apart = FALSE]
          ELSE [search[q] EXCEPT !.apart = @ /\ q \notin Underway]]
    /\ UNCHANGED <<points, collections, indexVars, embeddings, query, sources, ragFailures>>

--------------------------------------------------------------------------
RagNext ==
    \/ \E c \in Indexers : \/ \E s \in RagShops, t \in Topics : IndexEvent(c, s, t)
                            \/ Embed(c) \/ LookForCollection(c) \/ CreateCollection(c) \/ UpsertBatch(c)
    \/ Restart \/ \E q \in Topics : EmbeddingExpires(q)
    \/ \E r \in Readers : \/ \E k \in ReaderKinds, s \in RagShops : SetSources(r, k, s)
                          \/ \E q \in Topics \cup {""} : SetQuery(r, q)
                          \/ Fetch(r) \/ SearchWithText(r) \/ Answer(r) \/ NextQuery(r)

RagSpec == RagInit /\ [][RagNext]_ragVars

RagTypeOK ==
    /\ query \in Topics \cup {""} /\ sources \subseteq All /\ embeddings \subseteq Topics
    /\ created \subseteq RagShops /\ ragFailures \in 0..MaxRagFailures
    /\ chunks \in 0..ragBudget.chunks
    /\ \A c \in DOMAIN points : \A p \in points[c] : p.source \in Indexers

\* What one shop has indexed is never in the prompt of another.
HitsOfOwnShop == \A r \in Readers : \A h \in search[r].hits : h.shop = search[r].shop
\* A request that ran alone searched with its own query and, if it sets one, its own
\* filter.
AloneIsOwn == \A r \in Readers :
    search[r].apart /\ search[r].used # "" =>
        /\ search[r].asked # "" => search[r].used = search[r].asked
        /\ search[r].kind # "admin" => search[r].by = search[r].filter
\* A collection the process believes to exist exists, so that an upsert is never
\* refused for want of one.
CreatedExist == \A s \in created : CollectionName(s) \in collections
\* Every chunk that was cut is stored, on its way or known to be lost. Without a
\* failure a consumer loses at most one chunk of a shop, to the one moment in which
\* someone else makes the shop's collection.
ChunksKept ==
    /\ \A n \in 1..chunks : \E p \in (UNION {points[c] : c \in DOMAIN points}) \cup lostChunks
                                   \cup {index[c].chunk : c \in Indexers} : p.no = n
    /\ ragFailures = 0 => \A p, q \in lostChunks : p.shop = q.shop /\ p.source = q.source => p = q
\* A shop's chunks are never in another shop's prompt, a request that ran alone searched
\* with its own query, and no chunk disappears without a trace (rag, fetcher.go).
RagSound == HitsOfOwnShop /\ AloneIsOwn /\ CreatedExist /\ ChunksKept

\* A search is made with the query its own request has set.
SearchesOwnQuery == \A r \in Readers :
    search[r].used # "" /\ search[r].asked # "" => search[r].used = search[r].asked
=============================================================================
