------------------------------ MODULE ReadPlane ------------------------------
(***************************************************************************)
(* What the door answers while the record changes under it: search, paged  *)
(* reads and the trail of both (packages/content/src/service.ts, lib/read, *)
(* lib/takedown, lib/admit, lib/snapshot, lib/rlog), beside an ingest that *)
(* gates and flips, a rollback, takedowns and the collector.               *)
(*                                                                         *)
(* Every statement has its own snapshot (READ COMMITTED), so an action is  *)
(* a statement; the embedding of the query is an await of its own.  One    *)
(* viewer is modelled: what the audience, the lifecycle and the trust      *)
(* floor decide about a document of a generation is given by Shown.        *)
(***************************************************************************)
EXTENDS Windowing

CONSTANTS
    Agents,    \* callers
    Gens,      \* generations, 1..N; the ingests build them in order
    Parent,    \* Parent[g]: the nodes of g, each with the section it is filed in
    Chunks,    \* Chunks[g][d]: the chunks of a document
    Shown,     \* Shown[g]: the documents of g that the viewer's scope admits
    Headings,  \* sections that an agent may ask for
    Budget,    \* characters of a page
    MaxRows,   \* bounds the denials in force
    None

\* A chunk, as it is stored: its heading's path and its length.
StoredChunk == [id : Nat, hp : Seq(STRING), size : Nat]

ASSUME ReadAssumption ==
    /\ Gens \subseteq Nat \ {0} /\ 1 \in Gens
    /\ \A g \in Gens : \A d \in DOMAIN Chunks[g] : Chunks[g][d] \in Seq(StoredChunk)
    /\ Headings \subseteq Seq(STRING)

VARIABLES
    active, rollbackGen,  \* the corpus row; 0: nothing
    built,      \* generations built so far
    gated,     \* the generation that passed the gate and awaits its flip; 0: none
    reaped,     \* generations collected
    denylist,   \* the rows in force: id and scope
    trail,      \* the row of retrieval_log that an agent's last call left, if any
    call,       \* an agent's call: what it asks for and how far it is
    token,      \* the generation an agent's token pins; 0: none
    book,       \* the pages an agent has put together
    reply,      \* what an agent was answered last
    servable,   \* generations servable at some moment of an agent's call
    barred      \* documents no read might serve, at any moment of the call

readVars == <<active, rollbackGen, built, gated, reaped, denylist, trail, call, token, book, reply,
          servable, barred>>

record == <<active, rollbackGen, built, gated, reaped, denylist>>

Nodes(g) == IF g = 0 THEN {} ELSE DOMAIN Parent[g]
Documents == UNION {DOMAIN Chunks[g] : g \in Gens}
Idle == [at |-> "idle"]
Heard == [at |-> "answered"]
Opened(d, path) ==
    [doc |-> d, path |-> path, gen |-> 0, pages |-> <<>>, next |-> Start, whole |-> FALSE, steady |-> TRUE]
NoBook == Opened(None, <<>>)
Unanswered == [kind |-> "none"]
NoRow == [action |-> "none", gen |-> 0]

-----------------------------------------------------------------------------
\* deniedCte: what the rows name in a generation, and all that is filed under
\* what they name with its subtree.
DeniedIn(g, rows) ==
    LET Above[n \in Nodes(g)] ==
            IF Parent[g][n] = None THEN {} ELSE {Parent[g][n]} \cup Above[Parent[g][n]]
    IN  {n \in Nodes(g) : \E r \in rows : r.id = n \/ (r.scope = "subtree" /\ r.id \in Above[n])}

\* admittedCte, of documents.
Admitted(g, rows) == IF g = 0 THEN {} ELSE Shown[g] \ DeniedIn(g, rows)

\* What an unpinned read may serve now.
Live == Admitted(active, denylist)

Servable == {active, rollbackGen} \ {0}

\* The calls under way have seen the record as it is now.
Calling == {a \in Agents : call[a] \notin {Idle, Heard}}

Seen ==
    LET pointers == {active', rollbackGen'} \ {0}
        now == Admitted(active', denylist')
    IN  /\ servable' = [a \in Agents |-> servable[a] \cup (IF a \in Calling THEN pointers ELSE {})]
        /\ barred' = [a \in Agents |-> IF a \in Calling THEN barred[a] \ now ELSE barred[a]]

ReadInit ==
    /\ active \in {0, 1} /\ built = active /\ rollbackGen = 0 /\ gated = 0 /\ reaped = {} /\ denylist = {}
    /\ trail = [a \in Agents |-> NoRow] /\ call = [a \in Agents |-> Idle] /\ token = [a \in Agents |-> 0]
    /\ book = [a \in Agents |-> NoBook] /\ reply = [a \in Agents |-> Unanswered]
    /\ servable = [a \in Agents |-> {}] /\ barred = [a \in Agents |-> {}]

-----------------------------------------------------------------------------
\* The denials in force that match no document of a generation.
Orphaned(g) == {r \in denylist : r.id \notin Nodes(g)}

\* assertGovernanceServable, of the generation just built.
Gate ==
    /\ gated = 0 /\ built + 1 \in Gens /\ Orphaned(built + 1) = {}
    /\ built' = built + 1 /\ gated' = built + 1
    /\ UNCHANGED <<active, rollbackGen, reaped, denylist, trail, call, token, book, reply,
                   servable, barred>>

Flip ==
    /\ gated # 0 /\ active' = gated /\ rollbackGen' = active /\ gated' = 0
    /\ UNCHANGED <<built, reaped, denylist, trail, call, token, book, reply>> /\ Seen

\* The withdrawn generation is pointed to by nothing.
Rollback ==
    /\ rollbackGen > 0 /\ active # rollbackGen /\ rollbackGen \notin reaped
    /\ active' = rollbackGen
    /\ UNCHANGED <<rollbackGen, built, gated, reaped, denylist, trail, call, token, book, reply>>
    /\ Seen

\* ksor takedown, of something the record has; and its revocation.
Deny(id, scope) ==
    /\ id \in Nodes(active) /\ Cardinality(denylist) < MaxRows /\ \A r \in denylist : r.id # id
    /\ denylist' = denylist \cup {[id |-> id, scope |-> scope]}
    /\ UNCHANGED <<active, rollbackGen, built, gated, reaped, trail, call, token, book, reply>> /\ Seen

Revoke ==
    /\ \E r \in denylist : denylist' = denylist \ {r}
    /\ UNCHANGED <<active, rollbackGen, built, gated, reaped, trail, call, token, book, reply>> /\ Seen

\* gc spares what is pointed to; a pinned generation goes once its tokens are
\* dead, but a read under way may hold one longer.
Collect(g) ==
    /\ g < active /\ g \notin Servable \cup reaped
    /\ \A a \in Agents : token[a] # g
    /\ reaped' = reaped \cup {g}
    /\ UNCHANGED <<active, rollbackGen, built, gated, denylist, trail, call, token, book, reply,
                   servable, barred>>

-----------------------------------------------------------------------------
\* A call begins: the history starts.
Begins(a, c) ==
    /\ call[a].at = "idle" /\ call' = [call EXCEPT ![a] = c]
    /\ servable' = [servable EXCEPT ![a] = Servable]
    /\ barred' = [barred EXCEPT ![a] = Documents \ Live]

\* logRead in a transaction of its own, swallowed when it fails; then the
\* answer.
\* (The history of the call is dropped when the agent has its answer: Hear.)
Answers(a, action, gen, r) ==
    /\ \E audited \in BOOLEAN :
        /\ trail' = [trail EXCEPT ![a] = IF audited THEN [action |-> action, gen |-> gen] ELSE NoRow]
        /\ reply' = [reply EXCEPT ![a] = [r EXCEPT !.degraded = ~audited]]
    /\ call' = [call EXCEPT ![a] = Heard]

Refuses(a) ==
    /\ call' = [call EXCEPT ![a] = Heard] /\ reply' = [reply EXCEPT ![a] = [kind |-> "refused"]]

Hear(a) ==
    /\ call[a] = Heard
    /\ call' = [call EXCEPT ![a] = Idle] /\ reply' = [reply EXCEPT ![a] = Unanswered]
    /\ trail' = [trail EXCEPT ![a] = NoRow]
    /\ servable' = [servable EXCEPT ![a] = {}] /\ barred' = [barred EXCEPT ![a] = {}]
    /\ UNCHANGED <<record, token, book>>

\* search: is anything published?
Search(a) ==
    /\ Begins(a, [at |-> IF active = 0 THEN "unpublished" ELSE "embed"])
    /\ UNCHANGED <<record, trail, token, book, reply>>

Unpublished(a) ==
    /\ call[a].at = "unpublished"
    /\ Answers(a, "search_abstained", 0, [kind |-> "unpublished", gen |-> 0, degraded |-> FALSE])
    /\ UNCHANGED <<record, token, book, servable, barred>>

\* The query's embedding came, or did not; the fallback reads keywords only.
Embed(a) ==
    /\ call[a].at = "embed" /\ \E st \in {"vector", "keyword", "blind"} : call' = [call EXCEPT ![a] = [at |-> st]]
    /\ UNCHANGED <<record, trail, token, book, reply, servable, barred>>

\* hybridSearch or keywordSearch, one statement: whatever is admitted now may
\* match, or nothing; what matches may lie under the floor.
Rank(a) ==
    /\ call[a].at \in {"vector", "keyword"}
    /\ \E hits \in SUBSET Live, above \in BOOLEAN :
        call' = [call EXCEPT ![a] =
            [at |-> "ranked", how |-> call[a].at, hits |-> hits, served |-> above /\ hits # {},
             gen |-> IF hits = {} THEN 0 ELSE active]]
    /\ UNCHANGED <<record, trail, token, book, reply, servable, barred>>

\* Variant: the token pins whatever is active when the answer is written.
PinsActive(a) == active

\* The token pins the generation the hits are of.
Pins(a) == call[a].gen

SearchAnswer(a) ==
    /\ call[a].at = "ranked"
    /\ Answers(a, IF call[a].served THEN "similarity_searched" ELSE "search_abstained", call[a].gen,
               [kind |-> IF call[a].served THEN "hits"
                         ELSE IF call[a].how = "vector" THEN "abstained" ELSE "unavailable",
                docs |-> IF call[a].served THEN call[a].hits ELSE {}, gen |-> call[a].gen,
                degraded |-> FALSE])
    /\ token' = [token EXCEPT ![a] = Pins(a)]
    /\ UNCHANGED <<record, book, servable, barred>>

\* No embedding, and a floor that only a vector can be held against.
BlindAnswer(a) ==
    /\ call[a].at = "blind"
    /\ Answers(a, "search_abstained", 0, [kind |-> "unavailable", gen |-> 0, degraded |-> FALSE])
    /\ UNCHANGED <<record, token, book, servable, barred>>

-----------------------------------------------------------------------------
\* The token's time is over, or the door's key or instance changed.
Expire(a) ==
    /\ token[a] # 0 /\ token' = [token EXCEPT ![a] = 0]
    /\ UNCHANGED <<record, trail, call, book, reply, servable, barred>>

\* readDocument: the first page of a document, or of a section of it ...
ReadFirst(a, d, path) ==
    /\ book' = [book EXCEPT ![a] = Opened(d, path)]
    /\ Begins(a, [at |-> IF token[a] = 0 THEN "find" ELSE "pin", pin |-> token[a]])
    /\ UNCHANGED <<record, trail, token, reply>>

\* ... and the next one, with the cursor of the last.
ReadOn(a) ==
    /\ book[a].next # Start
    /\ Begins(a, [at |-> IF token[a] = 0 THEN "find" ELSE "pin", pin |-> token[a]])
    /\ UNCHANGED <<record, trail, token, book, reply>>

\* servableGenerations.
Pinnable(g) == g \in Servable

CheckPin(a) ==
    /\ call[a].at = "pin"
    /\ call' = [call EXCEPT ![a] = [at |-> "find", pin |-> IF Pinnable(@.pin) THEN @.pin ELSE 0]]
    /\ UNCHANGED <<record, trail, token, book, reply, servable, barred>>

\* Variant: the pinned row decides who may see it.
PinnedGovernance(d, g) == g # 0 /\ d \in Admitted(g, denylist)

\* NODE_BY_STABLE_ID_SQL: a row of the generation read from, not denied there,
\* and admitted as the record is now.
Readable(d, g) == g \notin reaped /\ d \in Nodes(g) \ DeniedIn(g, denylist) /\ d \in Live

Find(a) ==
    LET g == IF call[a].pin = 0 THEN active ELSE call[a].pin
    IN  /\ call[a].at = "find"
        /\ IF Readable(book[a].doc, g)
           THEN /\ call' = [call EXCEPT ![a] = [at |-> "chunks", pin |-> @.pin, gen |-> g]]
                /\ UNCHANGED reply
           ELSE Refuses(a)
        /\ UNCHANGED <<record, trail, token, book, servable, barred>>

\* Variant: an unpinned read takes each statement from what is active then.
Unpinned(a) == IF call[a].pin = 0 THEN active ELSE call[a].pin

\* The later statements read the generation the first one found.
FoundIn(a) == call[a].gen

\* documentChunks, then the heading and the cursor: a page, or no such place.
ReadChunks(a) ==
    LET g == FoundIn(a)
        all == IF g \in reaped \/ book[a].doc \notin DOMAIN Chunks[g] THEN <<>> ELSE Chunks[g][book[a].doc]
        paths == ResolvedScope(all, book[a].path)
    IN  /\ call[a].at = "chunks"
        /\ \/ /\ all = <<>> \/ paths = {}
                 \/ \E p \in paths : StartIndex(Scoped(all, p), book[a].next) = 0
              /\ Refuses(a)
           \/ /\ all # <<>>
              /\ \E p \in paths :
                  LET chunks == Scoped(all, p)
                      w == WindowDocument(chunks, Budget, book[a].next)
                  IN  /\ StartIndex(chunks, book[a].next) # 0
                      /\ call' = [call EXCEPT ![a] =
                            [at |-> "frontmatter", pin |-> @.pin, gen |-> @.gen, path |-> p, w |-> w,
                             text |-> [i \in 1..(w.to - w.from + 1) |-> chunks[w.from + i - 1]]]]
              /\ UNCHANGED reply
        /\ UNCHANGED <<record, trail, token, book, servable, barred>>

\* documentFrontmatter; the page is ready.
ReadFrontmatter(a) ==
    /\ call[a].at = "frontmatter"
    /\ call' = [call EXCEPT ![a] =
            [at |-> "page", pin |-> @.pin, gen |-> @.gen, path |-> @.path, w |-> @.w, text |-> @.text,
             fm |-> FoundIn(a)]]
    /\ UNCHANGED <<record, trail, token, book, reply, servable, barred>>

ReadAnswer(a) ==
    /\ call[a].at = "page"
    /\ Answers(a, "content_served", call[a].gen,
               [kind |-> "page", doc |-> book[a].doc, gen |-> call[a].gen, fm |-> call[a].fm,
                text |-> call[a].text, pinned |-> call[a].pin # 0, degraded |-> FALSE])
    /\ book' = [book EXCEPT ![a] =
            [doc |-> @.doc, path |-> call[a].path, gen |-> call[a].gen, pages |-> @.pages \o call[a].text,
             next |-> call[a].w.next, whole |-> call[a].w.last,
             steady |-> @.steady /\ call[a].pin # 0 /\ @.gen \in {0, call[a].gen}]]
    /\ UNCHANGED <<record, token, servable, barred>>

-----------------------------------------------------------------------------
RecordMoves ==
    \/ Gate \/ Flip \/ Rollback \/ Revoke
    \/ \E id \in UNION {Nodes(g) : g \in Gens}, scope \in {"node", "subtree"} : Deny(id, scope)
    \/ \E g \in Gens : Collect(g)

Agent(a) ==
    \/ Search(a) \/ Unpublished(a) \/ Embed(a) \/ Rank(a) \/ SearchAnswer(a) \/ BlindAnswer(a)
    \/ Expire(a) \/ Hear(a)
    \/ \E d \in Documents, path \in Headings : ReadFirst(a, d, path)
    \/ ReadOn(a) \/ CheckPin(a) \/ Find(a) \/ ReadChunks(a) \/ ReadFrontmatter(a) \/ ReadAnswer(a)

ReadNext == RecordMoves \/ \E a \in Agents : Agent(a)

ReadSpec == ReadInit /\ [][ReadNext]_readVars

-----------------------------------------------------------------------------
\* Every document a search or a page shows was, at some moment of that call,
\* admitted by the record as it was then: nothing denied, or closed to the
\* viewer, throughout the call is served, pinned or not.
NothingBarredServed ==
    \A a \in Agents :
        /\ reply[a].kind = "page" => reply[a].doc \notin barred[a]
        /\ reply[a].kind = "hits" => reply[a].docs \cap barred[a] = {}

\* A page is cut from a generation that was active or the one to roll back to
\* at some moment of the call: a token outlives neither a rollback nor a
\* second flip.
ServedWhileServable ==
    \A a \in Agents : reply[a].kind \in {"page", "hits"} => reply[a].gen \in servable[a]

\* An agent that follows `next` while every page says "pinned" puts the
\* document, or the section, together chunk by chunk: none lost, none twice,
\* none of another generation.
PagesRebuild ==
    \A a \in Agents : book[a].steady /\ book[a].gen # 0 =>
        LET whole == Scoped(Chunks[book[a].gen][book[a].doc], book[a].path)
        IN  /\ IsPrefix(book[a].pages, whole)
            /\ book[a].whole => book[a].pages = whole

\* An answer is of one generation, text, frontmatter and citation, the token
\* it mints pins that one, and unless it says "degraded" the trail names it.
AnswersAreOfOneGeneration ==
    \A a \in Agents :
        /\ reply[a].kind = "page" =>
              /\ reply[a].fm = reply[a].gen
              /\ \A i \in DOMAIN reply[a].text : Contains(Chunks[reply[a].gen][reply[a].doc], reply[a].text[i])
        /\ reply[a].kind = "hits" => token[a] \in {0, reply[a].gen}
        /\ reply[a].kind \in {"page", "hits"} /\ ~reply[a].degraded =>
              trail[a] = [action |-> IF reply[a].kind = "page" THEN "content_served"
                                     ELSE "similarity_searched", gen |-> reply[a].gen]

\* An answer is of one generation, and of one that could be served during the call.
OneServableGeneration == ServedWhileServable /\ AnswersAreOfOneGeneration

=============================================================================
