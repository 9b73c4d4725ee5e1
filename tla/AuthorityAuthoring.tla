------------------------ MODULE AuthorityAuthoring ------------------------
(***************************************************************************)
(* From uploaded documents to draft policies: the AI Authority Builder and *)
(* the AI Policy Builder of one organisation, with one corpus and one      *)
(* single-document upload.                                                 *)
(*                                                                         *)
(* A provider extracts a graph of discoveries (people), relationships      *)
(* between them and candidate policies.  Reviewers resolve discoveries to  *)
(* Principals, relationships to pairs of Principals, activate              *)
(* relationships, approve versions of the graph, and promote candidates,   *)
(* which the compilation gate allows against the latest approved version.  *)
(* No request locks anything: what one reads (Load) and what it commits    *)
(* (Commit) are separate steps, approve_graph reads the graph section by   *)
(* section, and promote_candidate commits twice.                           *)
(***************************************************************************)
EXTENDS Integers, Sequences, SequencesExt, FiniteSets, Functions, Relation

CONSTANTS
    Discoveries, Relationships, Candidates, Questions,   \* row ids
    Principals,             \* the organisation's own, or nobody's
    Foreign,                \* another organisation's
    Names,                  \* names as the rows store them, but for their case
    Strip,                  \* each without the space around it
    Graphs,                 \* what the provider may extract from the corpus
    Uploads,                \* what it may extract from the single document
    Contents,               \* what a reviewer may edit a candidate into
    Workers,                \* requests in flight at the same time
    MaxDocuments,
    MaxApprovals, MaxPolicies,                           \* bounds
    MAX_APPROVAL_VERSION_ATTEMPTS,                       \* 3 in the code
    NONE

Tables == <<Discoveries, Relationships, Candidates, Questions>>
Content == [principal : Names \cup {NONE}, delegated_by : Names \cup {NONE}]

ASSUME AttemptsAssumption == MAX_APPROVAL_VERSION_ATTEMPTS \in Nat \ {0}

ASSUME ConstantsAssumption ==
    /\ IsFiniteSet(Workers)
    \* row ids are UUIDs
    /\ \A s, t \in DOMAIN Tables : s # t => Tables[s] \cap Tables[t] = {}
    /\ \A graph \in Graphs, contents \in Uploads : DOMAIN graph.policies \cap DOMAIN contents = {}
    /\ NONE \notin Principals /\ Contents \subseteq Content

\* A name that is not blank; blank ones the provider never returns
ASSUME StripAssumption == Strip \in [Names -> Names]

\* The kinds of relationships a provider may extract
Kinds == {"delegation", "escalation", "inheritance"}

\* What a provider returns refers to rows, names and contents.
ASSUME GraphsAssumption ==
    /\ \A graph \in Graphs :
          /\ \E found \in SUBSET Discoveries : graph.principals \in [found -> Names]
          /\ \E found \in SUBSET Relationships : graph.relationships \in
                [found -> [kind : Kinds, from : Names, to : Names]]
          /\ \E found \in SUBSET Candidates : graph.policies \in [found -> Content]
          /\ graph.questions \subseteq Questions
    /\ \A contents \in Uploads : \E found \in SUBSET Candidates : contents \in [found -> Content]

VARIABLES
    corpus,     \* the AuthorityCorpus: status and number of documents
    upload,     \* the status of the PolicyExtractionUpload
    db,         \* discoveries, relationships, candidates, questions
    conflicts,  \* the corpus's AuthorityConflict rows
    approvals,  \* AuthorityGraphApproval rows in the order of their commits
    policies,   \* draft policies with the Authority they cite, likewise
    request,    \* what each worker is doing
    disturbed,  \* history: rows that changed under a request that had read them
    orphans     \* history: the policies whose promotion was cut off before the
                \* candidate's own commit

vars == <<corpus, upload, db, conflicts, approvals, policies, request, disturbed, orphans>>

Rows == Discoveries \cup Relationships \cup Candidates \cup Questions

Absent == [status |-> "absent"]
Idle == [stage |-> "idle"]

AuthorityPrincipal ==
    [status : {"discovered"}, name : Names, resolved : Principals \cup {NONE}]

AuthorityRelationship ==
    [status : {"proposed", "active"}, kind : Kinds, from : Names, to : Names,
     from_id : Principals \cup {NONE}, to_id : Principals \cup {NONE}]

PolicyExtractionCandidate ==
    [status : {"pending_review", "promoted", "dismissed"}, content : Content,
     from_corpus : BOOLEAN, policy : Nat]

AuthorityQuestion == [status : {"asked", "answered"}]

Conflict == [type : {"reported"}] \cup [type : {"circular_delegation"}, names : SUBSET Names]

Init ==
    /\ corpus = [status |-> "none", documents |-> 0]
    /\ upload = "none"
    /\ db = [x \in Rows |-> Absent]
    /\ conflicts = {}
    /\ approvals = << >>
    /\ policies = << >>
    /\ request = [w \in Workers |-> Idle]
    /\ disturbed = {}
    /\ orphans = {}

Exists(x) == db[x].status # "absent"
Existing(table) == {x \in table : Exists(x)}

Answer(w) == request' = [request EXCEPT ![w] = Idle]
Goto(w, r) == request' = [request EXCEPT ![w] = r]

Merge(row, sets) ==
    [f \in DOMAIN row \cup DOMAIN sets |-> IF f \in DOMAIN sets THEN sets[f] ELSE row[f]]

\* The columns `writes' sets are set whatever has happened to the rows since
\* they were read; whoever else has read them has a stale copy now
Apply(w, writes) ==
    /\ db' = [x \in Rows |-> IF x \in DOMAIN writes THEN Merge(db[x], writes[x]) ELSE db[x]]
    /\ disturbed' = disturbed \cup
          {x \in DOMAIN writes : \E v \in Workers \ {w} :
              request[v].stage \in {"loaded", "snapshot", "policy", "mark"}
                  /\ x \in request[v].reads}

-----------------------------------------------------------------------------
(* Extraction                                                              *)

\* The name sets of the cycles that a depth-first search along delegations
\* closes, from every name that delegates; the names are stripped
detect_circular_delegations(rels) ==
    LET delegations == {r \in DOMAIN rels : rels[r].kind = "delegation"}
        edges == [n \in Range(Strip) |->
                     {Strip[rels[r].to] : r \in {x \in delegations : Strip[rels[x].from] = n}}]
        dfs[path \in Seq(Names)] ==
            LET visiting == Front(path)
            IN  IF Contains(visiting, Last(path))
                THEN {Range(SubSeq(path, SelectInSeq(path, LAMBDA n : n = Last(path)), Len(path)))}
                ELSE UNION {dfs[Append(path, n)] : n \in edges[Last(path)]}
    IN  UNION {dfs[<<start>>] : start \in {n \in DOMAIN edges : edges[n] # {}}}

NewPrincipal(name) == [status |-> "discovered", name |-> name, resolved |-> NONE]

NewRelationship(rel) ==
    [status |-> "proposed", kind |-> rel.kind, from |-> rel.from, to |-> rel.to,
     from_id |-> NONE, to_id |-> NONE]

NewCandidate(content, from_corpus) ==
    [status |-> "pending_review", content |-> content, from_corpus |-> from_corpus, policy |-> 0]

\* create_corpus commits the corpus, add_document each document, and
\* run_extraction the whole graph
create_corpus(w) ==
    /\ corpus.status = "none"
    /\ corpus' = [corpus EXCEPT !.status = "uploaded"]
    /\ Goto(w, [stage |-> "documents"])
    /\ UNCHANGED <<upload, db, conflicts, approvals, policies, disturbed, orphans>>

add_document(w) ==
    /\ request[w].stage = "documents"
    /\ corpus.documents < MaxDocuments
    /\ corpus' = [corpus EXCEPT !.documents = corpus.documents + 1]
    /\ UNCHANGED <<upload, db, conflicts, approvals, policies, request, disturbed, orphans>>

\* One of the files has an unsupported format: HTTP 422, and the corpus stays
UnsupportedFormat(w) ==
    /\ request[w].stage = "documents"
    /\ Answer(w)
    /\ UNCHANGED <<corpus, upload, db, conflicts, approvals, policies, disturbed, orphans>>

ExtractionFails(w) ==
    /\ request[w].stage = "documents"
    /\ corpus' = [corpus EXCEPT !.status = "failed"]
    /\ Answer(w)
    /\ UNCHANGED <<upload, db, conflicts, approvals, policies, disturbed, orphans>>

run_extraction(w, graph) ==
    /\ request[w].stage = "documents" /\ corpus.documents > 0
    /\ db' = [x \in Rows |->
          CASE x \in DOMAIN graph.principals    -> NewPrincipal(graph.principals[x])
            [] x \in DOMAIN graph.relationships -> NewRelationship(graph.relationships[x])
            [] x \in DOMAIN graph.policies      -> NewCandidate(graph.policies[x], TRUE)
            [] x \in graph.questions            -> [status |-> "asked"]
            [] OTHER                            -> db[x]]
    /\ conflicts' = graph.conflicts \cup
          {[type |-> "circular_delegation", names |-> c] :
              c \in detect_circular_delegations(graph.relationships)}
    /\ corpus' = [corpus EXCEPT !.status = "extracted"]
    /\ Answer(w)
    /\ UNCHANGED <<upload, approvals, policies, disturbed, orphans>>

\* The AI Policy Builder's endpoint checks the format first
create_upload(w) ==
    /\ upload = "none"
    /\ upload' = "uploaded"
    /\ Goto(w, [stage |-> "upload"])
    /\ UNCHANGED <<corpus, db, conflicts, approvals, policies, disturbed, orphans>>

ExtractUpload(w, contents) ==
    /\ request[w].stage = "upload"
    /\ \/ /\ upload' = "failed"
          /\ UNCHANGED db
       \/ /\ upload' = "extracted"
          /\ db' = [x \in Rows |->
                IF x \in DOMAIN contents THEN NewCandidate(contents[x], FALSE) ELSE db[x]]
    /\ Answer(w)
    /\ UNCHANGED <<corpus, conflicts, approvals, policies, disturbed, orphans>>

-----------------------------------------------------------------------------
(* The reviewer's decisions on single rows: what a call returns is the     *)
(* error it raises or the columns it sets.                                 *)

Raise(error) == [error |-> error, writes |-> << >>]
Row(x, columns) == [y \in {x} |-> columns]
Write(x, columns) == [error |-> "ok", writes |-> Row(x, columns)]

\* To match an existing Principal, or to create one: p is then a Principal
\* that nothing refers to yet
resolve_principal(d, p) ==
    IF db[d].resolved # NONE THEN Raise("already_resolved")
    ELSE IF p \in Foreign THEN Raise("cross_organization_match")
    ELSE Write(d, [resolved |-> p])

\* The Principals that the discoveries of this name are resolved to.  The name
\* asked for is stripped and the stored ones are not.  When the answers
\* differ, the query has no order and any of them is taken.
match_resolved_principal_id(name) ==
    LET found == {db[d].resolved : d \in {x \in Existing(Discoveries) :
                     db[x].name = Strip[name] /\ db[x].resolved # NONE}}
    IN  IF found = {} THEN {NONE} ELSE found

\* The party that is not known yet stays as it is
Parties(f, t) ==
    IF t = NONE THEN [from_id |-> f]
    ELSE IF f = NONE THEN [to_id |-> t]
    ELSE [from_id |-> f, to_id |-> t]

\* Fault: the parties are mixed up
SwapParties(r, f, t) ==
    IF f = NONE /\ t = NONE THEN Raise("neither_party_resolved_yet") ELSE Write(r, Parties(t, f))

resolve_relationship(r, f, t) ==
    IF f = NONE /\ t = NONE THEN Raise("neither_party_resolved_yet") ELSE Write(r, Parties(f, t))

activate_relationship(r) ==
    IF db[r].from_id = NONE \/ db[r].to_id = NONE THEN Raise("relationship_not_resolved")
    ELSE Write(r, [status |-> "active"])

answer_question(q) == Write(q, [status |-> "answered"])

edit_candidate(k, content) ==
    IF db[k].status # "pending_review" THEN Raise("not_pending_review")
    ELSE Write(k, [content |-> content])

dismiss_candidate(k) ==
    IF db[k].status # "pending_review" THEN Raise("not_pending_review")
    ELSE Write(k, [status |-> "dismissed"])

Load(w, x, out) ==
    /\ request[w] = Idle /\ Exists(x)
    /\ out.error = "ok"
    /\ Goto(w, [stage |-> "loaded", reads |-> {x}, writes |-> out.writes])
    /\ UNCHANGED <<corpus, upload, db, conflicts, approvals, policies, disturbed, orphans>>

Commit(w) ==
    /\ request[w].stage = "loaded"
    /\ Apply(w, request[w].writes)
    /\ Answer(w)
    /\ UNCHANGED <<corpus, upload, conflicts, approvals, policies, orphans>>

Review(w) ==
    \/ \E d \in Discoveries, p \in Principals \cup Foreign : Load(w, d, resolve_principal(d, p))
    \/ \E r \in Existing(Relationships) :
          \/ \E f \in match_resolved_principal_id(db[r].from),
                t \in match_resolved_principal_id(db[r].to) : Load(w, r, resolve_relationship(r, f, t))
          \/ Load(w, r, activate_relationship(r))
    \/ \E q \in Questions : Load(w, q, answer_question(q))
    \/ \E k \in Existing(Candidates) :
          \/ Load(w, k, dismiss_candidate(k))
          \/ \E content \in Contents : Load(w, k, edit_candidate(k, content))

-----------------------------------------------------------------------------
(* approve_graph                                                           *)

\* The index of the approval with the highest version, 0 if there is none
get_latest_approval_for_corpus ==
    LET highest == {i \in DOMAIN approvals :
                       \A j \in DOMAIN approvals : approvals[j].version <= approvals[i].version}
    IN  IF approvals = << >> THEN 0 ELSE CHOOSE i \in highest : TRUE

VersionAfter(latest) == (IF latest = 0 THEN 0 ELSE approvals[latest].version) + 1

\* Fault: the conflicts are read before what they are about
ConflictsFirst == <<"conflicts", "principals", "relationships", "coverage">>

\* The sections of the snapshot in the order of their queries
SectionOrder == <<"principals", "relationships", "conflicts", "coverage">>

\* What one query of _corpus_evidence_snapshot returns
Section(s) ==
    CASE s = "principals"    -> [d \in Existing(Discoveries) |-> db[d]]
      [] s = "relationships" ->
            [r \in Existing(Relationships) |->
                [kind |-> db[r].kind, from |-> db[r].from, to |-> db[r].to, status |-> db[r].status]]
      [] s = "conflicts"     -> conflicts
      [] s = "coverage"      -> corpus.documents

Attempt(n) ==
    [stage |-> "snapshot", attempt |-> n, latest |-> get_latest_approval_for_corpus,
     version |-> VersionAfter(get_latest_approval_for_corpus), snapshot |-> << >>,
     reads |-> Discoveries \cup Relationships]

approve_graph(w) ==
    /\ request[w] = Idle
    /\ corpus.status # "none"
    /\ Len(approvals) < MaxApprovals
    /\ Goto(w, Attempt(1))
    /\ UNCHANGED <<corpus, upload, db, conflicts, approvals, policies, disturbed, orphans>>

With(snapshot, section) ==
    [s \in DOMAIN snapshot \cup {section} |-> IF s = section THEN Section(s) ELSE snapshot[s]]

ReadSection(w) ==
    LET r == request[w]
    IN  /\ r.stage = "snapshot"
        /\ \E n \in DOMAIN SectionOrder :
              /\ SectionOrder[n] \notin DOMAIN r.snapshot
              /\ \A m \in 1..(n - 1) : SectionOrder[m] \in DOMAIN r.snapshot
              /\ Goto(w, [r EXCEPT !.snapshot = With(r.snapshot, SectionOrder[n])])
        /\ UNCHANGED <<corpus, upload, db, conflicts, approvals, policies, disturbed, orphans>>

\* Fault: the next attempt keeps the snapshot
KeepSnapshot(r) ==
    [r EXCEPT !.attempt = r.attempt + 1, !.latest = get_latest_approval_for_corpus,
              !.version = VersionAfter(get_latest_approval_for_corpus)]

NextAttempt(r) == Attempt(r.attempt + 1)

\* The rows of a name in the snapshot's list of principals come in an order
\* of their own, since they were created in the same transaction: `first' is
\* the one that is found for each name, both stripped
FirstOfName(principals) ==
    [Range(Strip) -> DOMAIN principals \cup {NONE}]

Plausible(first, principals) ==
    \A n \in Range(Strip) :
        LET named == {d \in DOMAIN principals : Strip[principals[d].name] = n}
        IN  IF named = {} THEN first[n] = NONE ELSE first[n] \in named

\* uq_authority_graph_approvals_corpus_version
UniqueVersion(version) == \A i \in DOMAIN approvals : approvals[i].version # version

CommitApproval(w) ==
    LET r == request[w]
    IN  /\ r.stage = "snapshot" /\ DOMAIN r.snapshot = Range(SectionOrder)
        /\ \/ /\ UniqueVersion(r.version)
              /\ \E first \in FirstOfName(r.snapshot.principals) :
                    /\ Plausible(first, r.snapshot.principals)
                    /\ approvals' = Append(approvals,
                          [version |-> r.version, predecessor |-> r.latest,
                           snapshot |-> r.snapshot, first |-> first])
              /\ Answer(w)
           \/ /\ ~UniqueVersion(r.version)
              /\ IF r.attempt < MAX_APPROVAL_VERSION_ATTEMPTS
                 THEN Goto(w, NextAttempt(r))
                 ELSE Answer(w)               \* concurrent_approval_conflict
              /\ UNCHANGED approvals
        /\ UNCHANGED <<corpus, upload, db, conflicts, policies, disturbed, orphans>>

\* _diff_items: by id, and a row that is in both is compared field by field
diff_items(before, after) ==
    [added   |-> DOMAIN after \ DOMAIN before,
     removed |-> DOMAIN before \ DOMAIN after,
     changed |-> {c \in (DOMAIN before \cap DOMAIN after) \X
                            {"name", "resolved", "kind", "from", "to", "status"} :
                     c[2] \in DOMAIN before[c[1]] /\ before[c[1]][c[2]] # after[c[1]][c[2]]}]

-----------------------------------------------------------------------------
(* promote_candidate                                                       *)

find_principal_entry(approval, name) ==
    LET d == approval.first[Strip[name]]
    IN  IF d = NONE THEN NONE ELSE approval.snapshot.principals[d].resolved

has_active_relationship(snapshot, from, to) ==
    \E r \in DOMAIN snapshot.relationships :
        LET rel == snapshot.relationships[r]
        IN  rel.kind \in {"delegation", "escalation"} /\ rel.status = "active"
                /\ Strip[rel.from] = Strip[from] /\ Strip[rel.to] = Strip[to]

\* The compilation gate
check_graph_readiness(content, latest) ==
    /\ latest # 0
    /\ approvals[latest].snapshot.conflicts = {}
    /\ content.principal # NONE
    /\ find_principal_entry(approvals[latest], content.principal) # NONE
    /\ content.delegated_by # NONE =>
          has_active_relationship(approvals[latest].snapshot, content.delegated_by, content.principal)

\* The Principal that the Authority of a candidate is for, in the rows of now
find_resolved_principal_for_candidate(k) ==
    LET content == db[k].content
        name == IF content.delegated_by # NONE THEN content.delegated_by ELSE content.principal
    IN  IF db[k].from_corpus /\ name # NONE THEN match_resolved_principal_id(name) ELSE {NONE}

\* With the validation, of which an empty principal is the one case here
promote_candidate(w, k) ==
    LET content == db[k].content
        latest == IF db[k].from_corpus THEN get_latest_approval_for_corpus ELSE 0
    IN  /\ request[w] = Idle /\ Exists(k)
        /\ db[k].status = "pending_review"
        /\ db[k].from_corpus => check_graph_readiness(content, latest)
        /\ content.principal # NONE
        /\ Len(policies) < MaxPolicies
        /\ \E p \in find_resolved_principal_for_candidate(k) :
              Goto(w, [stage |-> "policy", reads |-> {k}, candidate |-> k, key |-> 0,
                       policy |-> [candidate |-> k, content |-> content, approval |-> latest,
                                   authority |-> p]])
        /\ UNCHANGED <<corpus, upload, db, conflicts, approvals, policies, disturbed, orphans>>

\* create_policy commits the draft and its Authority
CommitPolicy(w) ==
    /\ request[w].stage = "policy"
    /\ policies' = Append(policies, request[w].policy)
    /\ Goto(w, [request[w] EXCEPT !.stage = "mark", !.key = Len(policies) + 1])
    /\ UNCHANGED <<corpus, upload, db, conflicts, approvals, disturbed, orphans>>

\* The candidate's own commit
MarkPromoted(w) ==
    LET r == request[w]
    IN  /\ r.stage = "mark"
        /\ Apply(w, Row(r.candidate, [status |-> "promoted", policy |-> r.key]))
        /\ Answer(w)
        /\ UNCHANGED <<corpus, upload, conflicts, approvals, policies, orphans>>

\* The process dies between the two commits
CutOff(w) ==
    /\ request[w].stage = "mark"
    /\ orphans' = orphans \cup {request[w].key}
    /\ Answer(w)
    /\ UNCHANGED <<corpus, upload, db, conflicts, approvals, policies, disturbed>>

-----------------------------------------------------------------------------
Step(w) ==
    \/ request[w] = Idle /\ (create_corpus(w) \/ create_upload(w))
    \/ add_document(w) \/ UnsupportedFormat(w) \/ ExtractionFails(w)
    \/ \E graph \in Graphs : run_extraction(w, graph)
    \/ \E contents \in Uploads : ExtractUpload(w, contents)
    \/ Review(w) \/ Commit(w)
    \/ approve_graph(w) \/ ReadSection(w) \/ CommitApproval(w)
    \/ \E k \in Candidates : promote_candidate(w, k)
    \/ CommitPolicy(w) \/ MarkPromoted(w) \/ CutOff(w)

Next == \E w \in Workers : Step(w)

Spec == Init /\ [][Next]_vars

-----------------------------------------------------------------------------
\* Rows are of their tables' types; in particular, a discovery is never
\* resolved to another organisation's Principal.
TypeOK ==
    /\ corpus.status \in {"none", "uploaded", "failed", "extracted"}
    /\ corpus.documents \in 0..MaxDocuments
    /\ \A d \in Existing(Discoveries) : db[d] \in AuthorityPrincipal
    /\ \A r \in Existing(Relationships) : db[r] \in AuthorityRelationship
    /\ \A k \in Existing(Candidates) : db[k] \in PolicyExtractionCandidate
    /\ \A q \in Existing(Questions) : db[q] \in AuthorityQuestion
    /\ conflicts \subseteq Conflict
    /\ disturbed \subseteq Rows /\ orphans \subseteq DOMAIN policies

\* What the depth-first search over the extracted names finds is what there
\* is: a conflict of this type is on record exactly when some name delegates
\* to itself over any number of delegations, whatever space is around it.
CyclesReported ==
    LET people == Range(Strip)
        Delegates == [p \in people \X people |-> \E r \in Existing(Relationships) :
                         /\ db[r].kind = "delegation"
                         /\ Strip[db[r].from] = p[1] /\ Strip[db[r].to] = p[2]]
        closure == TransitiveClosure(Delegates, people)
        inCycle == {n \in people : closure[<<n, n>>]}
        reported == {c \in conflicts : c.type = "circular_delegation"}
    IN  inCycle = UNION {c.names : c \in reported}

\* The approvals of a corpus are one chain: versions count up from 1 in the
\* order of the commits and each names the one before as its predecessor, so
\* that at most one supersedes it, however many reviewers approve at once.
ApprovalChain ==
    \A i \in DOMAIN approvals : approvals[i].version = i /\ approvals[i].predecessor = i - 1

\* Along the chain the graph only grows and gets decided: what
\* diff_graph_approvals compares an approval with never was ahead of it.
LineageMonotone ==
    \A i \in DOMAIN approvals : approvals[i].predecessor # 0 =>
        LET before == approvals[approvals[i].predecessor].snapshot
            after == approvals[i].snapshot
            people == diff_items(before.principals, after.principals)
            edges == diff_items(before.relationships, after.relationships)
        IN  /\ people.removed = {} /\ edges.removed = {}
            /\ \A c \in people.changed :
                  c[2] = "resolved" /\ (before.principals[c[1]].resolved = NONE \/ c[1] \in disturbed)
            /\ \A c \in edges.changed : c[2] = "status" /\ after.relationships[c[1]].status = "active"
            /\ before.conflicts \subseteq after.conflicts /\ before.coverage <= after.coverage

\* A snapshot shows both parties of an active relationship resolved, under
\* their stripped names, unless the relationship changed while the sections
\* were being read.
SnapshotConsistent ==
    \A i \in DOMAIN approvals :
        LET s == approvals[i].snapshot
        IN  \A r \in DOMAIN s.relationships :
                s.relationships[r].status = "active" /\ r \notin disturbed =>
                    \A n \in {s.relationships[r].from, s.relationships[r].to} :
                        \E d \in DOMAIN s.principals :
                            s.principals[d].name = Strip[n] /\ s.principals[d].resolved # NONE

\* The Principals of a relationship are ones that a reviewer has named for
\* these very names, unless two decisions on a discovery overlapped.
PartiesGrounded ==
    \A r \in Existing(Relationships) : Discoveries \cap disturbed = {} =>
        /\ db[r].from_id # NONE => db[r].from_id \in match_resolved_principal_id(db[r].from)
        /\ db[r].to_id # NONE => db[r].to_id \in match_resolved_principal_id(db[r].to)

\* No policy is compiled from a graph with a conflict in it, even if the
\* graph was approved while it was being extracted: the snapshot reads the
\* conflicts after the people.
ConflictBlocks ==
    conflicts # {} => \A i \in DOMAIN policies : policies[i].approval = 0

\* The person whom the gate found for the policy's principal is stored without
\* space around the name, as the look-up of the Authority wants it.
FoundAsStored(policy) ==
    LET approval == approvals[policy.approval]
        name == Strip[policy.content.principal]
    IN  approval.snapshot.principals[approval.first[name]].name = name

\* A policy that was compiled from the graph cites the Authority of a
\* Principal, although the gate looks at an old snapshot and the look-up at
\* the rows of now, and although the gate strips the stored names and the
\* look-up does not: always, if the Authority is the delegating party's, since
\* its relationship was activated by the same look-up; else, if the person
\* that the gate found is stored without space around the name.
AuthorityGrounded ==
    \A i \in DOMAIN policies :
        LET policy == policies[i]
        IN  policy.approval # 0 /\ (policy.content.delegated_by # NONE \/ FoundAsStored(policy)) =>
                policy.authority # NONE

\* "If this candidate came from the AI Authority Builder and its delegation
\* resolves to a real, already-reviewed Principal, a real Authority row is
\* created here": whatever the gate lets through has its Authority, for the
\* gate has found its principal resolved.
CompiledHasAuthority ==
    \A i \in DOMAIN policies : policies[i].approval # 0 => policies[i].authority # NONE

\* A candidate is decided once, if nobody else touched it meanwhile.  Promoted,
\* it names its one policy, which says what the candidate says; pending or
\* dismissed, it has none but those that are about to be named.  Every
\* promotion that was cut off has left one policy that no candidate names, and
\* the candidate as it was: the retry makes another.
DecidedOnce ==
    \A k \in Existing(Candidates) \ disturbed :
        LET own == {i \in DOMAIN policies : policies[i].candidate = k} \ orphans
            marking == {w \in Workers : request[w].stage = "mark" /\ request[w].candidate = k}
        IN  /\ db[k].status = "promoted" =>
                  own = {db[k].policy} /\ policies[db[k].policy].content = db[k].content
            /\ db[k].status # "promoted" => Cardinality(own) = Cardinality(marking)

\* "Idempotent and safe to call repeatedly": resolving an active relationship
\* again does not change whose delegation it is.
ActivePartiesStand ==
    [][\A r \in Existing(Relationships) : db[r].status = "active" =>
          db'[r].from_id = db[r].from_id /\ db'[r].to_id = db[r].to_id]_vars

\* The graph under review: cycles are found, and relationships stand between
\* the people reviewers named.
GraphSound == TypeOK /\ CyclesReported /\ PartiesGrounded

\* approve_graph under concurrent reviews, approvals and extraction: one chain
\* of versions, each consistent and none behind its predecessor.
ApprovalsSound == ApprovalChain /\ LineageMonotone /\ SnapshotConsistent

\* promote_candidate: nothing is compiled past a conflict, what is cites the
\* Authority of a reviewed person if the names are stored as they are looked
\* up, and no candidate is decided twice, whatever crashes leave behind.
CompilationSound == ConflictBlocks /\ AuthorityGrounded /\ DecidedOnce

=============================================================================
