------------------------------ MODULE Content ------------------------------
(***************************************************************************)
(* The content factory of one shop: jobs write pieces of content with the  *)
(* LLM (handler/content.go), pieces are posted to one social platform      *)
(* (handler/social.go), get a row of content_performances from an event,   *)
(* and are looked up by the task that pulls the platform's numbers and by  *)
(* the attribution of orders (content_metrics.go, content_attribution.go). *)
(***************************************************************************)
EXTENDS Naturals, Sequences, FiniteSets

CONSTANTS JobIds, JobSize,    \* concurrent jobs; products of a job
          States,             \* OAuth states that AuthURL may issue, from 1
          Callbacks, Posters, \* concurrent callbacks and publications
          Platform,           \* the platform's name, not ""
          ContentBudgets      \* bounds; a budget is [jobs, states, callbacks,
                              \* publishes, pulls, failures]

VARIABLES
    job,      \* job[j]: [pc, results, status]
    pieces,   \* content_pieces: of <<job, product>>, [status, platform], or NoPiece
    inbox,    \* content.generated events that wait for their consumer: sets of pieces
    perf,     \* pieces with a row of content_performances
    states,   \* states in Redis
    callback, \* callback[c]: [pc, state, known]
    conn,     \* social_connections: number of the active row's token, 0 without
    connects, \* connects[s]: callbacks of a state that stored a token
    racedStates, \* states of which two callbacks ran at once
    poster,   \* poster[p]: [pc, piece, id]
    posts,    \* social_posts: [id, piece]
    posted,   \* posts at the platform
    leaving,  \* Disconnect has deleted the posts and not yet the connection
    crossed,  \* publications that a Disconnect has met
    removed,  \* publications whose row was deleted, or could not be stored
    metrics,  \* content_platform_metrics: pieces with a row
    refused,  \* orders that AttributeOrder has refused
    used,     \* what has been used of the budget
    budget    \* the bounds of this behaviour

jobVars == <<job, pieces, inbox, perf>>
authVars == <<states, callback, conn, connects, racedStates>>
postVars == <<poster, posts, posted, leaving, crossed, removed>>
pullVars == <<metrics, refused>>
contentVars == <<jobVars, authVars, postVars, pullVars, used, budget>>

BudgetNames == {"jobs", "states", "callbacks", "publishes", "pulls", "failures"}
ContentConstants == /\ JobSize \in Nat \ {0} /\ States \subseteq Nat \ {0}
                    /\ ContentBudgets \subseteq [BudgetNames -> Nat]
PieceIds == JobIds \X (1..JobSize)
NoPiece == [status |-> "none", platform |-> ""]
None == <<0, 0>>     \* a publication without a content piece
Idle == [pc |-> "idle"]

ContentInit ==
    /\ job = [j \in JobIds |-> [pc |-> "idle", results |-> <<>>, status |-> "none"]]
    /\ pieces = [p \in PieceIds |-> NoPiece] /\ inbox = {} /\ perf = {}
    /\ states = {} /\ callback = [c \in Callbacks |-> Idle] /\ conn = 0
    /\ connects = [s \in States |-> 0] /\ racedStates = {}
    /\ poster = [p \in Posters |-> Idle] /\ posts = {} /\ posted = {} /\ leaving = FALSE
    /\ crossed = {} /\ removed = {} /\ metrics = {} /\ refused = 0
    /\ budget \in ContentBudgets /\ used = [k \in DOMAIN budget |-> 0]

Use(what) == used[what] < budget[what] /\ used' = [used EXCEPT ![what] = @ + 1]

--------------------------------------------------------------------------
(* The job: one product after the other, the row at the end *)
Generate(j) ==
    /\ job[j].status = "none" /\ Use("jobs")
    /\ job' = [job EXCEPT ![j] = [pc |-> "write", results |-> <<>>, status |-> "processing"]]
    /\ UNCHANGED <<pieces, inbox, perf, authVars, postVars, pullVars, budget>>
\* Seeded bug: the loop is left at the first product that fails.
AfterProduct(results) == IF results[Len(results)] = "error" \/ Len(results) = JobSize
                         THEN "publish" ELSE "write"
NextProduct(results) == IF Len(results) = JobSize THEN "publish" ELSE "write"
\* The product's content and its piece; or no answer of the LLM; or no row for the piece.
\* Nothing sets the platform of a piece, here or later.
WriteProduct(j) ==
    LET id == <<j, Len(job[j].results) + 1>>
        with(r) == job' = [job EXCEPT ![j].results = Append(@, r),
                                      ![j].pc = NextProduct(Append(job[j].results, r))]
    IN
    /\ job[j].pc = "write"
    /\ \/ /\ with("piece") /\ pieces' = [pieces EXCEPT ![id] = [status |-> "generated", platform |-> ""]]
          /\ UNCHANGED used
       \/ \E r \in {"error", "content"} : Use("failures") /\ with(r) /\ UNCHANGED pieces
    /\ UNCHANGED <<inbox, perf, authVars, postVars, pullVars, budget>>
\* content.generated is published by a goroutine whose context ends with the job.
PiecesOf(j) == {<<j, i>> : i \in {k \in DOMAIN job[j].results : job[j].results[k] = "piece"}}
PublishGenerated(j) ==
    /\ job[j].pc = "publish" /\ job' = [job EXCEPT ![j].pc = "store"]
    /\ \/ inbox' = inbox \cup {PiecesOf(j)} /\ UNCHANGED used
       \/ Use("failures") /\ UNCHANGED inbox
    /\ UNCHANGED <<pieces, perf, authVars, postVars, pullVars, budget>>
\* The job is "completed" whatever its products have become.
StoreJob(j) ==
    /\ job[j].pc = "store"
    /\ \/ job' = [job EXCEPT ![j].pc = "done", ![j].status = "completed"] /\ UNCHANGED used
       \/ Use("failures") /\ job' = [job EXCEPT ![j].pc = "done"]
    /\ UNCHANGED <<pieces, inbox, perf, authVars, postVars, pullVars, budget>>
\* The process ends, and with it the goroutine; nothing looks for the job again.
JobDies(j) ==
    /\ job[j].pc \in {"write", "publish", "store"} /\ Use("failures")
    /\ job' = [job EXCEPT ![j].pc = "done"]
    /\ UNCHANGED <<pieces, inbox, perf, authVars, postVars, pullVars, budget>>
OnContentGenerated(ids) ==
    /\ ids \in inbox /\ inbox' = inbox \ {ids}
    /\ perf' = perf \cup {p \in ids : pieces[p] # NoPiece}
    /\ UNCHANGED <<job, pieces, authVars, postVars, pullVars, used, budget>>

--------------------------------------------------------------------------
(* The connection *)
AuthURL(s) ==
    /\ s = used.states + 1 /\ Use("states") /\ states' = states \cup {s}
    /\ UNCHANGED <<jobVars, callback, conn, connects, racedStates, postVars, pullVars, budget>>
StateExpires(s) ==
    /\ s \in states /\ states' = states \ {s}
    /\ UNCHANGED <<jobVars, callback, conn, connects, racedStates, postVars, pullVars, used, budget>>
\* The state is read, then deleted, then the code exchanged and the row stored.
ReadState(c, s) ==
    /\ callback[c].pc = "idle" /\ Use("callbacks")
    /\ callback' = [callback EXCEPT ![c] = [pc |-> "delete", state |-> s, known |-> s \in states]]
    /\ racedStates' = IF \E d \in Callbacks : callback[d].pc # "idle" /\ callback[d].state = s
                THEN racedStates \cup {s} ELSE racedStates
    /\ UNCHANGED <<jobVars, states, conn, connects, postVars, pullVars, budget>>
DeleteState(c) ==
    /\ callback[c].pc = "delete" /\ states' = states \ {callback[c].state}
    /\ callback' = [callback EXCEPT ![c] = IF callback[c].known
                                           THEN [callback[c] EXCEPT !.pc = "store"] ELSE Idle]
    /\ UNCHANGED <<jobVars, conn, connects, racedStates, postVars, pullVars, used, budget>>
StoreConnection(c) ==
    LET s == callback[c].state IN
    /\ callback[c].pc = "store" /\ callback' = [callback EXCEPT ![c] = Idle]
    /\ \/ /\ conn' = s /\ connects' = [connects EXCEPT ![s] = @ + 1] /\ UNCHANGED used
       \/ Use("failures") /\ UNCHANGED <<conn, connects>>
    /\ UNCHANGED <<jobVars, states, racedStates, postVars, pullVars, budget>>
\* Disconnect: the posts, to prevent orphans, then the connection.
Publishing == {p \in Posters : poster[p].pc # "idle"}
DeletePosts ==
    /\ conn # 0 /\ ~leaving /\ leaving' = TRUE
    /\ posts' = {} /\ removed' = removed \cup {x.id : x \in posts}
    /\ crossed' = crossed \cup {poster[p].id : p \in Publishing}
    /\ UNCHANGED <<jobVars, authVars, poster, posted, pullVars, used, budget>>
DeleteConnection ==
    /\ leaving /\ leaving' = FALSE /\ conn' = 0
    /\ crossed' = crossed \cup {poster[p].id : p \in Publishing}
    /\ UNCHANGED <<jobVars, states, callback, connects, racedStates, poster, posts, posted, removed,
                   pullVars, used, budget>>

--------------------------------------------------------------------------
(* Publication of a piece, or of something else *)
BeginPublish(p, piece) ==
    /\ poster[p].pc = "idle" /\ conn # 0 /\ Use("publishes")
    /\ piece \in {None} \cup {i \in PieceIds : pieces[i] # NoPiece}
    /\ poster' = [poster EXCEPT ![p] = [pc |-> "post", piece |-> piece, id |-> used.publishes + 1]]
    /\ crossed' = IF leaving THEN crossed \cup {used.publishes + 1} ELSE crossed
    /\ UNCHANGED <<jobVars, authVars, posts, posted, leaving, removed, pullVars, budget>>
PostToPlatform(p) ==
    /\ poster[p].pc = "post"
    /\ \/ /\ poster' = [poster EXCEPT ![p].pc = "save"]
          /\ posted' = posted \cup {[id |-> poster[p].id, piece |-> poster[p].piece]}
          /\ UNCHANGED used
       \/ Use("failures") /\ poster' = [poster EXCEPT ![p] = Idle] /\ UNCHANGED posted
    /\ UNCHANGED <<jobVars, authVars, posts, leaving, crossed, removed, pullVars, budget>>
\* The post exists; a row that cannot be stored is logged.
SavePost(p) ==
    /\ poster[p].pc = "save" /\ poster' = [poster EXCEPT ![p].pc = "mark"]
    /\ \/ /\ posts' = posts \cup {[id |-> poster[p].id, piece |-> poster[p].piece]}
          /\ UNCHANGED <<removed, used>>
       \/ Use("failures") /\ removed' = removed \cup {poster[p].id} /\ UNCHANGED posts
    /\ UNCHANGED <<jobVars, authVars, posted, leaving, crossed, pullVars, budget>>
\* The error of the update is not looked at.
MarkPublished(p) ==
    /\ poster[p].pc = "mark" /\ poster' = [poster EXCEPT ![p] = Idle]
    /\ \/ /\ pieces' = IF poster[p].piece = None THEN pieces
                       ELSE [pieces EXCEPT ![poster[p].piece].status = "published"]
          /\ UNCHANGED used
       \/ Use("failures") /\ UNCHANGED pieces
    /\ UNCHANGED <<job, inbox, perf, authVars, posts, posted, leaving, crossed, removed,
                   pullVars, budget>>
DeletePost(x) ==
    /\ x \in posts /\ posts' = posts \ {x} /\ removed' = removed \cup {x.id}
    /\ UNCHANGED <<jobVars, authVars, poster, posted, leaving, crossed, pullVars, used, budget>>

--------------------------------------------------------------------------
\* PullPlatformMetrics: a row for every piece of the platform that has a post there.
Pulled == {p \in PieceIds : /\ pieces[p].platform = Platform
                            /\ pieces[p].status \in {"published", "generated"}
                            /\ \E x \in posts : x.piece = p}
PullMetrics ==
    /\ Use("pulls") /\ metrics' = IF conn = 0 THEN metrics ELSE metrics \cup Pulled
    /\ UNCHANGED <<jobVars, authVars, postVars, refused, budget>>
\* AttributeOrder compares two empty strings and so finds no access token, ever.
AttributeOrder ==
    /\ Use("pulls") /\ refused' = refused + 1
    /\ UNCHANGED <<jobVars, authVars, postVars, metrics, budget>>

ContentNext ==
    \/ \E j \in JobIds : Generate(j) \/ WriteProduct(j) \/ PublishGenerated(j) \/ StoreJob(j) \/ JobDies(j)
    \/ \E ids \in inbox : OnContentGenerated(ids)
    \/ \E s \in States : AuthURL(s) \/ StateExpires(s) \/ \E c \in Callbacks : ReadState(c, s)
    \/ \E c \in Callbacks : DeleteState(c) \/ StoreConnection(c)
    \/ DeletePosts \/ DeleteConnection
    \/ \E p \in Posters : \/ \E piece \in PieceIds \cup {None} : BeginPublish(p, piece)
                          \/ PostToPlatform(p) \/ SavePost(p) \/ MarkPublished(p)
    \/ \E x \in posts : DeletePost(x)
    \/ PullMetrics \/ AttributeOrder

ContentSpec == ContentInit /\ [][ContentNext]_contentVars

ContentTypeOK == /\ conn \in States \cup {0} /\ states \subseteq States /\ racedStates \subseteq States
                 /\ perf \subseteq PieceIds /\ metrics \subseteq PieceIds
                 /\ \A k \in DOMAIN budget : used[k] <= budget[k]

\* JobStatus: a job that is shown as completed has an answer for every product, in
\* order, and shows exactly the pieces its results name.
JobsWhole == \A j \in JobIds : job[j].status = "completed" =>
    /\ Len(job[j].results) = JobSize
    /\ PiecesOf(j) = {p \in PieceIds : p[1] = j /\ pieces[p] # NoPiece}
\* A performance row belongs to a piece whose job has come to its end, or died there.
RowsAfterJobs == \A p \in perf : pieces[p] # NoPiece /\ Len(job[p[1]].results) = JobSize
\* A state connects once, if its callbacks do not run at the same time.
StateOnce == \A s \in States \ racedStates : connects[s] <= 1
\* Posts without a connection, which Disconnect deletes so that there be none, come only
\* from publications that a Disconnect has met.
NoOrphans == conn = 0 => \A x \in posts : x.id \in crossed
\* A piece is published, and a row stored, only if the platform has the post. A
\* publication that has come to its end has its row, unless that was removed or lost.
PostsTrue ==
    /\ posts \subseteq posted
    /\ \A p \in PieceIds : pieces[p].status = "published" => \E x \in posted : x.piece = p
    /\ \A x \in posted : (\A p \in Publishing : poster[p].id # x.id) =>
          x \in posts \/ x.id \in removed
\* Jobs, connections, posts and their numbers agree with what was asked, allowed and
\* published (content.go, social.go).
ContentSound == JobsWhole /\ RowsAfterJobs /\ StateOnce /\ NoOrphans /\ PostsTrue
=============================================================================
