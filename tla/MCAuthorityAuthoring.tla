----------------------- MODULE MCAuthorityAuthoring -----------------------
EXTENDS AuthorityAuthoring, TLC

CONSTANTS d1, d2, d3, r1, r2, r3, k1, k2, q1, boss, clerk, clerk_, aide

\* One name may be stored with a space after it
MCStrip == [n \in Names |-> IF n = clerk_ THEN clerk ELSE n]

Delegation == [kind |-> "delegation", from |-> boss, to |-> clerk_]
Delegated == [principal |-> clerk, delegated_by |-> boss]

\* Two people and what one delegates to the other
Plain ==
    [principals |-> (d1 :> boss) @@ (d2 :> clerk), relationships |-> r1 :> Delegation,
     policies |-> k1 :> Delegated, conflicts |-> {}, questions |-> {}]

\* The documents name one of them twice
TwoOfAName == [Plain EXCEPT !.principals = Plain.principals @@ (d3 :> boss), !.policies = << >>]

Namesakes ==
    [Plain EXCEPT !.principals = (d1 :> clerk) @@ (d2 :> clerk_), !.relationships = << >>,
                  !.policies = k1 :> [principal |-> clerk, delegated_by |-> NONE]]

Unwritten == [Plain EXCEPT !.policies = << >>]

Disputed == [Namesakes EXCEPT !.principals = d1 :> clerk, !.conflicts = {[type |-> "reported"]}]

Asking == [Plain EXCEPT !.policies = << >>, !.relationships = << >>, !.questions = {q1}]

\* Every way to relate three people by three relationships, the first of
\* which delegates
Edge == [kind : Kinds, from : {boss, clerk, aide}, to : {boss, clerk_, aide}]
Webs == {[principals |-> << >>, relationships |-> rels, policies |-> << >>,
          conflicts |-> {}, questions |-> {}] :
             rels \in {web \in [Relationships -> Edge] : web[r1].kind = "delegation"}}

MCGraphs == {Plain, TwoOfAName, Namesakes, Unwritten, Disputed, Asking} \cup Webs
MCUploads == {k2 :> [principal |-> clerk, delegated_by |-> NONE]}
MCContents == {[principal |-> clerk, delegated_by |-> NONE], [principal |-> NONE, delegated_by |-> NONE]}

\* What a behaviour is about: the graph it works on, how many versions of it
\* may be approved, and which requests it lets overlap.  A state in which
\* several of these vary at once is a product of states of the areas, and
\* every property is about one of them.
\*   webs       extraction only
\*   review     decisions on rows overlap
\*   lineage    approvals overlap each other and decisions on rows
\*   dispute    approvals overlap extraction; promotion comes after
\*   promotion  decisions on candidates overlap
\*   upload     the single document, and decisions on its candidate
VARIABLE area

AreaGraphs ==
    [webs |-> Webs, review |-> {TwoOfAName, Asking}, lineage |-> {Unwritten},
     dispute |-> {Disputed}, promotion |-> {Plain, Namesakes}, upload |-> {}]

Versions == [webs |-> 0, review |-> 0, lineage |-> MaxApprovals, dispute |-> 1,
             promotion |-> 1, upload |-> 0]

MCInit == Init /\ area \in DOMAIN AreaGraphs

AreaStep(w) ==
    \/ request[w] = Idle /\ area = "upload" /\ create_upload(w)
    \/ request[w] = Idle /\ area # "upload" /\ create_corpus(w)
    \/ add_document(w) \/ UnsupportedFormat(w) \/ ExtractionFails(w)
    \/ \E graph \in AreaGraphs[area] : run_extraction(w, graph)
    \/ \E contents \in Uploads : ExtractUpload(w, contents)
    \/ area # "webs" /\ Review(w)
    \/ Commit(w)
    \/ Len(approvals) < Versions[area] /\ approve_graph(w)
    \/ ReadSection(w) \/ CommitApproval(w)
    \/ \E k \in Candidates : promote_candidate(w, k)
    \/ CommitPolicy(w) \/ MarkPromoted(w) \/ CutOff(w)

MCNext == UNCHANGED area /\ \E w \in Workers : AreaStep(w)
MCSpec == MCInit /\ [][MCNext]_<<vars, area>>

Symmetry == Permutations(Workers) \cup Permutations(Principals)

Touched(r) ==
    CASE r.stage \in {"loaded", "policy", "mark"} -> r.reads
      [] r.stage = "snapshot" -> IF area = "promotion" THEN {} ELSE r.reads
      [] r.stage = "documents" -> Discoveries
      [] OTHER -> {}

\* Requests that share no row commute: a second one starts only when it meets
\* the first.
MeetOrWait ==
    \A w \in Workers :
        request[w] = Idle /\ request'[w] # Idle /\ (\E v \in Workers : request[v] # Idle) =>
            \E v \in Workers \ {w} : Touched(request[v]) \cap Touched(request'[w]) # {}

\* Up to and through one race, and past it where an approval is at stake
OneRace == area = "dispute" \/ (disturbed = {} /\ Cardinality(orphans) <= 1) \/ \E w \in Workers : request[w] # Idle
=============================================================================
