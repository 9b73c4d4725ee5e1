---------------------- MODULE AuthorityAuthoringProofs ----------------------
(***************************************************************************)
(* Theorems of AuthorityAuthoring, for any graphs, rows, reviewers and     *)
(* numbers of approvals.  The rows only move forward: a section that was   *)
(* read, in an approval or by a request that is still reading, is behind   *)
(* the rows of now, and an approval is behind the next one.                *)
(***************************************************************************)
EXTENDS AuthorityAuthoring, FiniteSetTheorems, SequenceTheorems, TLAPS

\* What is stored, as a value: what is said of it is needed before and after a
\* step, of the same request.
Now ==
    [db |-> db, conflicts |-> conflicts, corpus |-> corpus, upload |-> upload,
     approvals |-> approvals, policies |-> policies, disturbed |-> disturbed, orphans |-> orphans]

Here(x, g) == g.db[x].status # "absent"

RowsTyped(g) ==
    /\ \A d \in Discoveries : g.db[d] = Absent \/ g.db[d] \in AuthorityPrincipal
    /\ \A r \in Relationships : g.db[r] = Absent \/ g.db[r] \in AuthorityRelationship
    /\ \A k \in Candidates : g.db[k] = Absent \/ g.db[k] \in PolicyExtractionCandidate
    /\ \A q \in Questions : g.db[q] = Absent \/ g.db[q] \in AuthorityQuestion

FromCorpus == UNION {DOMAIN graph.policies : graph \in Graphs}
FromUpload == UNION {DOMAIN contents : contents \in Uploads}

\* The corpus and the upload are extracted once each: what an extraction
\* creates was not there.
Extracted(g) ==
    /\ g.corpus \in [status : {"none", "uploaded", "failed", "extracted"}, documents : Nat]
    /\ g.corpus.status # "extracted" =>
          g.conflicts = {} /\ \A x \in Discoveries \cup Relationships \cup Questions : ~Here(x, g)
    /\ \A k \in Candidates : Here(k, g) =>
          IF g.db[k].from_corpus THEN k \in FromCorpus /\ g.corpus.status = "extracted"
          ELSE k \in FromUpload /\ g.upload = "extracted"

Extracting(reqs, g) ==
    /\ \A w \in Workers :
          /\ reqs[w].stage = "documents" => g.corpus.status = "uploaded"
          /\ reqs[w].stage = "upload" => g.upload = "uploaded"
    /\ \A v, w \in Workers :
          /\ reqs[v].stage = "documents" /\ reqs[w].stage = "documents" => v = w
          /\ reqs[v].stage = "upload" /\ reqs[w].stage = "upload" => v = w

-----------------------------------------------------------------------------
(* The graph.                                                              *)

Resolved(n, g) == \E d \in Discoveries : Here(d, g) /\ g.db[d].name = Strip[n] /\ g.db[d].resolved # NONE

\* A reviewer has named p for this name, or somebody, if decisions overlapped.
Grounded(n, p, g) ==
    /\ Resolved(n, g)
    /\ Discoveries \cap g.disturbed = {} =>
          \E d \in Discoveries : Here(d, g) /\ g.db[d].name = Strip[n] /\ g.db[d].resolved = p

PartiesKnown(g) ==
    \A r \in Relationships : Here(r, g) =>
        /\ g.db[r].from_id # NONE => Grounded(g.db[r].from, g.db[r].from_id, g)
        /\ g.db[r].to_id # NONE => Grounded(g.db[r].to, g.db[r].to_id, g)
        /\ g.db[r].status = "active" => g.db[r].from_id # NONE /\ g.db[r].to_id # NONE

\* What a reviewer's decision on x, which has read its row, will write
ResolvesDiscovery(r, x, g) ==
    /\ x \in Discoveries
    /\ \E p \in Principals : r.writes = Row(x, [resolved |-> p])
    /\ x \notin g.disturbed => g.db[x].resolved = NONE

ActivatesRelationship(r, x, g) ==
    /\ x \in Relationships /\ r.writes = Row(x, [status |-> "active"])
    /\ g.db[x].from_id # NONE /\ g.db[x].to_id # NONE

ResolvesRelationship(r, x, g) ==
    /\ x \in Relationships
    /\ \E f \in Principals \cup {NONE}, t \in Principals \cup {NONE} :
          /\ r.writes = Row(x, Parties(f, t)) /\ ~(f = NONE /\ t = NONE)
          /\ f # NONE => Grounded(g.db[x].from, f, g)
          /\ t # NONE => Grounded(g.db[x].to, t, g)

AnswersQuestion(r, x) == x \in Questions /\ r.writes = Row(x, [status |-> "answered"])

DecidesCandidate(r, x, g) ==
    /\ x \in Candidates
    /\ \/ r.writes = Row(x, [status |-> "dismissed"])
       \/ \E content \in Content : r.writes = Row(x, [content |-> content])
    /\ x \notin g.disturbed => g.db[x].status = "pending_review"

LoadedFine(r, g) ==
    \E x \in Rows :
        /\ r.reads = {x} /\ Here(x, g)
        /\ \/ ResolvesDiscovery(r, x, g) \/ ActivatesRelationship(r, x, g)
           \/ ResolvesRelationship(r, x, g) \/ AnswersQuestion(r, x) \/ DecidesCandidate(r, x, g)

-----------------------------------------------------------------------------
(* Snapshots.                                                              *)

\* A discovery and a relationship of a snapshot, and the same in a later one
PersonBehind(d, a, b, ov) ==
    /\ DOMAIN a = {"status", "name", "resolved"}
    /\ a.status = b.status /\ a.name = b.name
    /\ a.resolved = b.resolved \/ a.resolved = NONE \/ d \in ov
    /\ a.resolved # NONE => b.resolved # NONE

EdgeBehind(a, b) ==
    /\ DOMAIN a = {"kind", "from", "to", "status"}
    /\ a.kind = b.kind /\ a.from = b.from /\ a.to = b.to
    /\ a.status = b.status \/ b.status = "active"
    /\ a.status = "active" => b.status = "active"

PeopleBehind(a, b, ov) == DOMAIN a \subseteq DOMAIN b /\ \A d \in DOMAIN a : PersonBehind(d, a[d], b[d], ov)
EdgesBehind(a, b) == DOMAIN a \subseteq DOMAIN b /\ \A r \in DOMAIN a : EdgeBehind(a[r], b[r])

\* The sections `has' of snapshot a are behind those of b.
Behind(has, a, b, ov) ==
    /\ "principals" \in has => PeopleBehind(a.principals, b.principals, ov)
    /\ "relationships" \in has => EdgesBehind(a.relationships, b.relationships)
    /\ "conflicts" \in has => a.conflicts \subseteq b.conflicts
    /\ "coverage" \in has => a.coverage \in Nat /\ b.coverage \in Nat /\ a.coverage <= b.coverage

People(g) == [d \in {x \in Discoveries : Here(x, g)} |-> g.db[d]]
Edges(g) ==
    [r \in {x \in Relationships : Here(x, g)} |->
        [kind |-> g.db[r].kind, from |-> g.db[r].from, to |-> g.db[r].to, status |-> g.db[r].status]]

\* A snapshot taken at once
Picture(g) ==
    [principals |-> People(g), relationships |-> Edges(g), conflicts |-> g.conflicts,
     coverage |-> g.corpus.documents]

Sections == {"principals", "relationships", "conflicts", "coverage"}

ShowsResolved(people, n) == \E d \in DOMAIN people : people[d].name = Strip[n] /\ people[d].resolved # NONE

\* An active relationship stands between people who are resolved.
Consistent(snapshot, ov) ==
    \A r \in DOMAIN snapshot.relationships :
        snapshot.relationships[r].status = "active" /\ r \notin ov =>
            /\ ShowsResolved(snapshot.principals, snapshot.relationships[r].from)
            /\ ShowsResolved(snapshot.principals, snapshot.relationships[r].to)

SnapshotFine(snapshot, g) ==
    LET has == DOMAIN snapshot
    IN  /\ has \subseteq Sections
        /\ "relationships" \in has => "principals" \in has /\ Consistent(snapshot, g.disturbed)
        \* whoever shows people shows all conflicts
        /\ "conflicts" \in has => /\ "principals" \in has
                                  /\ DOMAIN snapshot.principals # {} => snapshot.conflicts = g.conflicts
        /\ Behind(has, snapshot, Picture(g), g.disturbed)

\* A relationship that is active now, and did not become so while the request
\* was reading, will be shown with its people.
Watches(snapshot, g) ==
    "principals" \in DOMAIN snapshot => \A r \in Relationships :
        Here(r, g) /\ g.db[r].status = "active" /\ r \notin g.disturbed =>
            /\ ShowsResolved(snapshot.principals, g.db[r].from)
            /\ ShowsResolved(snapshot.principals, g.db[r].to)

ApprovingFine(r, g) ==
    /\ r.attempt \in Nat /\ r.latest \in 0..Len(g.approvals) /\ r.version = r.latest + 1
    /\ r.reads = Discoveries \cup Relationships
    /\ SnapshotFine(r.snapshot, g) /\ Watches(r.snapshot, g)
    /\ r.latest # 0 =>
          Behind(DOMAIN r.snapshot, g.approvals[r.latest].snapshot, r.snapshot, g.disturbed)

Listed(s) == \E S : s \in Seq(S)

ApprovalFine(i, g) ==
    LET a == g.approvals[i]
    IN  /\ a.version = i /\ a.predecessor = i - 1
        /\ DOMAIN a.snapshot = Sections /\ SnapshotFine(a.snapshot, g)
        /\ Plausible(a.first, a.snapshot.principals)
        /\ i # 1 => Behind(Sections, g.approvals[i - 1].snapshot, a.snapshot, g.disturbed)

Approvals(g) == Listed(g.approvals) /\ \A i \in 1..Len(g.approvals) : ApprovalFine(i, g)

-----------------------------------------------------------------------------
(* Promotion.                                                              *)

\* The person that the gate found for p in approval a is stored as the look-up
\* wants it.
AsStored(p, a) ==
    LET name == Strip[p.content.principal]
    IN  a.snapshot.principals[a.first[name]].name = name

PolicyFine(p, g) ==
    /\ p.candidate \in Candidates /\ Here(p.candidate, g)
    /\ p.approval # 0 =>
          /\ g.conflicts = {} /\ g.corpus.status = "extracted" /\ p.approval \in 1..Len(g.approvals)
          /\ p.content.delegated_by # NONE \/ AsStored(p, g.approvals[p.approval]) => p.authority # NONE

PromotingFine(r, g) ==
    /\ r.reads = {r.candidate} /\ r.policy.candidate = r.candidate /\ PolicyFine(r.policy, g)
    /\ r.candidate \notin g.disturbed =>
          g.db[r.candidate].status = "pending_review" /\ g.db[r.candidate].content = r.policy.content
    /\ r.stage = "mark" => r.key \in 1..Len(g.policies) /\ g.policies[r.key] = r.policy

Policies(g) == Listed(g.policies) /\ \A i \in 1..Len(g.policies) : PolicyFine(g.policies[i], g)

\* Each promotion that has committed its policy and not yet its candidate has
\* a policy of its own.
OwnKeys(reqs) ==
    \A v, w \in Workers :
        reqs[v].stage = "mark" /\ reqs[w].stage = "mark" /\ reqs[v].key = reqs[w].key => v = w

\* What a promotion that was cut off has left is nobody's.
Orphaned(reqs, g) ==
    /\ g.orphans \subseteq 1..Len(g.policies)
    /\ \A w \in Workers : reqs[w].stage = "mark" => reqs[w].key \notin g.orphans

Decided(reqs, g) ==
    \A k \in Candidates : Here(k, g) /\ k \notin g.disturbed =>
        /\ g.db[k].status = "promoted" =>
              /\ g.db[k].policy \in 1..Len(g.policies)
              /\ g.policies[g.db[k].policy].content = g.db[k].content
              /\ \A i \in 1..Len(g.policies) : (g.policies[i].candidate = k /\ i \notin g.orphans) <=> i = g.db[k].policy
        /\ g.db[k].status # "promoted" =>
              \A i \in 1..Len(g.policies) : g.policies[i].candidate = k /\ i \notin g.orphans =>
                  \E w \in Workers : reqs[w].stage = "mark" /\ reqs[w].key = i

-----------------------------------------------------------------------------
Fine(r, g) ==
    \/ r = Idle
    \/ r = [stage |-> "documents"]
    \/ r = [stage |-> "upload"]
    \/ DOMAIN r = {"stage", "reads", "writes"} /\ r.stage = "loaded" /\ LoadedFine(r, g)
    \/ /\ DOMAIN r = {"stage", "attempt", "latest", "version", "snapshot", "reads"}
       /\ r.stage = "snapshot" /\ ApprovingFine(r, g)
    \/ /\ DOMAIN r = {"stage", "reads", "candidate", "key", "policy"}
       /\ r.stage \in {"policy", "mark"} /\ PromotingFine(r, g)

Stored(g) == RowsTyped(g) /\ Extracted(g) /\ PartiesKnown(g) /\ Approvals(g) /\ Policies(g)

Requests(reqs, g) ==
    /\ reqs = [w \in Workers |-> reqs[w]]
    /\ \A w \in Workers : Fine(reqs[w], g)
    /\ Extracting(reqs, g) /\ OwnKeys(reqs) /\ Orphaned(reqs, g) /\ Decided(reqs, g)

Inv == Stored(Now) /\ Requests(request, Now)

-----------------------------------------------------------------------------
LEMMA Disjoint ==
    /\ Discoveries \cap Relationships = {} /\ Discoveries \cap Candidates = {} /\ Discoveries \cap Questions = {}
    /\ Relationships \cap Candidates = {} /\ Relationships \cap Questions = {} /\ Candidates \cap Questions = {}
<1>1. DOMAIN Tables = 1..4  BY DEF Tables
<1>2. \A s, t \in 1..4 : s # t => Tables[s] \cap Tables[t] = {}  BY <1>1, ConstantsAssumption
<1>3. Tables[1] = Discoveries /\ Tables[2] = Relationships /\ Tables[3] = Candidates /\ Tables[4] = Questions
  BY DEF Tables
<1> HIDE DEF Tables
<1> QED  BY <1>2, <1>3

LEMMA SectionNames == Range(SectionOrder) = Sections
<1>1. DOMAIN SectionOrder = 1..4  BY DEF SectionOrder
<1>2. /\ SectionOrder[1] = "principals" /\ SectionOrder[2] = "relationships"
      /\ SectionOrder[3] = "conflicts" /\ SectionOrder[4] = "coverage"
  BY DEF SectionOrder
<1>3. Range(SectionOrder) = {SectionOrder[1], SectionOrder[2], SectionOrder[3], SectionOrder[4]}
  BY <1>1 DEF Range
<1> QED  BY <1>2, <1>3 DEF Sections

\* A row that is there has the columns of its table.
LEMMA Columns ==
    ASSUME NEW g, RowsTyped(g)
    PROVE  /\ \A d \in Discoveries : Here(d, g) <=> g.db[d] \in AuthorityPrincipal
           /\ \A r \in Relationships : Here(r, g) <=> g.db[r] \in AuthorityRelationship
           /\ \A k \in Candidates : Here(k, g) <=> g.db[k] \in PolicyExtractionCandidate
           /\ \A q \in Questions : Here(q, g) <=> g.db[q] \in AuthorityQuestion
           /\ \A x \in Rows : ~Here(x, g) => g.db[x] = Absent
<1>1. \A d \in Discoveries : Here(d, g) <=> g.db[d] \in AuthorityPrincipal
  BY DEF RowsTyped, Here, Absent, AuthorityPrincipal
<1>2. \A r \in Relationships : Here(r, g) <=> g.db[r] \in AuthorityRelationship
  BY DEF RowsTyped, Here, Absent, AuthorityRelationship
<1>3. \A k \in Candidates : Here(k, g) <=> g.db[k] \in PolicyExtractionCandidate
  BY DEF RowsTyped, Here, Absent, PolicyExtractionCandidate
<1>4. \A q \in Questions : Here(q, g) <=> g.db[q] \in AuthorityQuestion
  BY DEF RowsTyped, Here, Absent, AuthorityQuestion
<1>5. \A x \in Rows : ~Here(x, g) => g.db[x] = Absent
  BY <1>1, <1>2, <1>3, <1>4 DEF Rows, RowsTyped
<1> QED  BY <1>1, <1>2, <1>3, <1>4, <1>5

\* A value is added at the end of a sequence.
LEMMA Appending ==
    ASSUME NEW s, Listed(s), NEW x
    PROVE  /\ Listed(Append(s, x)) /\ Len(s) \in Nat
           /\ Len(Append(s, x)) = Len(s) + 1
           /\ \A i \in 1..Len(s) : Append(s, x)[i] = s[i]
           /\ Append(s, x)[Len(s) + 1] = x
           /\ DOMAIN s = 1..Len(s)
<1>1. PICK S : s \in Seq(S)  BY DEF Listed
<1>2. s \in [1..Len(s) -> S] /\ Len(s) \in Nat  BY <1>1
<1>3. s \in [1..Len(s) -> S \cup {x}]  BY <1>2
<1>4. s \in Seq(S \cup {x})  BY <1>2, <1>3, SeqDef
<1>5. Append(s, x) \in Seq(S \cup {x})  BY <1>4
<1> QED  BY <1>2, <1>4, <1>5 DEF Listed

-----------------------------------------------------------------------------
(* The rows only move forward.                                             *)

LEMMA BehindTransitive ==
    ASSUME NEW h, NEW h2, NEW a, NEW b, NEW c, NEW ov, NEW ov2, h \subseteq h2, ov \subseteq ov2,
           Behind(h, a, b, ov), Behind(h2, b, c, ov2)
    PROVE  Behind(h, a, c, ov2)
<1>1. ASSUME "principals" \in h PROVE PeopleBehind(a.principals, c.principals, ov2)
  <2>1. PeopleBehind(a.principals, b.principals, ov) /\ PeopleBehind(b.principals, c.principals, ov2)
    BY <1>1 DEF Behind
  <2> QED  BY <2>1 DEF PeopleBehind, PersonBehind
<1>2. ASSUME "relationships" \in h PROVE EdgesBehind(a.relationships, c.relationships)
  <2>1. EdgesBehind(a.relationships, b.relationships) /\ EdgesBehind(b.relationships, c.relationships)
    BY <1>2 DEF Behind
  <2> QED  BY <2>1 DEF EdgesBehind, EdgeBehind
<1>3. "conflicts" \in h => a.conflicts \subseteq c.conflicts  BY DEF Behind
<1>4. "coverage" \in h => a.coverage \in Nat /\ c.coverage \in Nat /\ a.coverage <= c.coverage  BY DEF Behind
<1> QED  BY <1>1, <1>2, <1>3, <1>4 DEF Behind

LEMMA BehindLater ==
    ASSUME NEW h, NEW a, NEW b, NEW ov, NEW ov2, ov \subseteq ov2, Behind(h, a, b, ov)
    PROVE  Behind(h, a, b, ov2)
<1>1. ASSUME "principals" \in h PROVE PeopleBehind(a.principals, b.principals, ov2)
  <2>1. PeopleBehind(a.principals, b.principals, ov)  BY <1>1 DEF Behind
  <2> QED  BY <2>1 DEF PeopleBehind, PersonBehind
<1> QED  BY <1>1 DEF Behind

\* From g to g2: nobody disappears, what was decided stays decided.
Onward(g, g2) ==
    /\ RowsTyped(g) /\ RowsTyped(g2) /\ Extracted(g)
    /\ g.disturbed \subseteq g2.disturbed
    /\ \A x \in Rows : Here(x, g) => Here(x, g2)
    /\ \A d \in Discoveries : Here(d, g) =>
          /\ g2.db[d].name = g.db[d].name
          /\ g.db[d].resolved # NONE => g2.db[d].resolved # NONE
          /\ g2.db[d].resolved = g.db[d].resolved \/ g.db[d].resolved = NONE \/ d \in g2.disturbed
    /\ \A r \in Relationships : Here(r, g) =>
          /\ g2.db[r].kind = g.db[r].kind /\ g2.db[r].from = g.db[r].from /\ g2.db[r].to = g.db[r].to
          /\ g.db[r].from_id # NONE => g2.db[r].from_id # NONE
          /\ g.db[r].to_id # NONE => g2.db[r].to_id # NONE
          /\ g.db[r].status = "active" => g2.db[r].status = "active"
    /\ \A r \in Relationships : Here(r, g2) /\ ~Here(r, g) => g2.db[r].status = "proposed"
    /\ g.conflicts \subseteq g2.conflicts
    /\ g.corpus.status = "extracted" => g2.corpus.status = "extracted" /\ g2.conflicts = g.conflicts
    /\ g2.corpus.documents \in Nat /\ g.corpus.documents <= g2.corpus.documents
    /\ Len(g.approvals) \in Nat /\ Len(g2.approvals) \in Nat /\ Len(g.approvals) <= Len(g2.approvals)
    /\ \A i \in 1..Len(g.approvals) : g2.approvals[i] = g.approvals[i]
    /\ Len(g.policies) \in Nat /\ Len(g2.policies) \in Nat /\ Len(g.policies) <= Len(g2.policies)
    /\ \A i \in 1..Len(g.policies) : g2.policies[i] = g.policies[i]

LEMMA PictureGrows ==
    ASSUME NEW g, NEW g2, Onward(g, g2)
    PROVE  Behind(Sections, Picture(g), Picture(g2), g2.disturbed)
<1>1. /\ Picture(g).principals = People(g) /\ Picture(g).relationships = Edges(g)
      /\ Picture(g).conflicts = g.conflicts /\ Picture(g).coverage = g.corpus.documents
      /\ Picture(g2).principals = People(g2) /\ Picture(g2).relationships = Edges(g2)
      /\ Picture(g2).conflicts = g2.conflicts /\ Picture(g2).coverage = g2.corpus.documents
  BY DEF Picture
<1>2. PeopleBehind(People(g), People(g2), g2.disturbed)
  <2>1. DOMAIN People(g) = {x \in Discoveries : Here(x, g)} /\ DOMAIN People(g2) = {x \in Discoveries : Here(x, g2)}
    BY DEF People
  <2>2. DOMAIN People(g) \subseteq DOMAIN People(g2)  BY <2>1 DEF Onward, Rows
  <2>3. ASSUME NEW d \in DOMAIN People(g) PROVE PersonBehind(d, People(g)[d], People(g2)[d], g2.disturbed)
    <3>1. d \in Discoveries /\ Here(d, g) /\ Here(d, g2)  BY <2>1, <2>2
    <3>2. People(g)[d] = g.db[d] /\ People(g2)[d] = g2.db[d]  BY <3>1 DEF People
    <3>3. g.db[d] \in AuthorityPrincipal /\ g2.db[d] \in AuthorityPrincipal  BY <3>1, Columns DEF Onward
    <3>4. DOMAIN g.db[d] = {"status", "name", "resolved"} /\ g.db[d].status = g2.db[d].status
      BY <3>3 DEF AuthorityPrincipal
    <3>5. /\ g2.db[d].name = g.db[d].name
          /\ g.db[d].resolved # NONE => g2.db[d].resolved # NONE
          /\ g2.db[d].resolved = g.db[d].resolved \/ g.db[d].resolved = NONE \/ d \in g2.disturbed
      BY <3>1 DEF Onward
    <3> QED  BY <3>2, <3>4, <3>5 DEF PersonBehind
  <2> QED  BY <2>2, <2>3 DEF PeopleBehind
<1>3. EdgesBehind(Edges(g), Edges(g2))
  <2>1. DOMAIN Edges(g) = {x \in Relationships : Here(x, g)} /\ DOMAIN Edges(g2) = {x \in Relationships : Here(x, g2)}
    BY DEF Edges
  <2>2. DOMAIN Edges(g) \subseteq DOMAIN Edges(g2)  BY <2>1 DEF Onward, Rows
  <2>3. ASSUME NEW r \in DOMAIN Edges(g) PROVE EdgeBehind(Edges(g)[r], Edges(g2)[r])
    <3>1. r \in Relationships /\ Here(r, g) /\ Here(r, g2)  BY <2>1, <2>2
    <3>2. /\ Edges(g)[r] = [kind |-> g.db[r].kind, from |-> g.db[r].from, to |-> g.db[r].to,
                            status |-> g.db[r].status]
          /\ Edges(g2)[r] = [kind |-> g2.db[r].kind, from |-> g2.db[r].from, to |-> g2.db[r].to,
                             status |-> g2.db[r].status]
      BY <3>1 DEF Edges
    <3>3. g.db[r] \in AuthorityRelationship /\ g2.db[r] \in AuthorityRelationship  BY <3>1, Columns DEF Onward
    <3>4. g.db[r].status \in {"proposed", "active"} /\ g2.db[r].status \in {"proposed", "active"}
      BY <3>3 DEF AuthorityRelationship
    <3>5. /\ g2.db[r].kind = g.db[r].kind /\ g2.db[r].from = g.db[r].from /\ g2.db[r].to = g.db[r].to
          /\ g.db[r].status = "active" => g2.db[r].status = "active"
      BY <3>1 DEF Onward
    <3> QED  BY <3>2, <3>4, <3>5 DEF EdgeBehind
  <2> QED  BY <2>2, <2>3 DEF EdgesBehind
<1>4. g.conflicts \subseteq g2.conflicts  BY DEF Onward
<1>5. g.corpus.documents \in Nat /\ g2.corpus.documents \in Nat /\ g.corpus.documents <= g2.corpus.documents
  BY DEF Onward, Extracted
<1> QED  BY <1>1, <1>2, <1>3, <1>4, <1>5 DEF Behind

LEMMA SnapshotKept ==
    ASSUME NEW g, NEW g2, Onward(g, g2), NEW snapshot, SnapshotFine(snapshot, g)
    PROVE  SnapshotFine(snapshot, g2)
<1> DEFINE has == DOMAIN snapshot
<1>1. /\ has \subseteq Sections
      /\ "relationships" \in has => "principals" \in has /\ Consistent(snapshot, g.disturbed)
      /\ "conflicts" \in has => /\ "principals" \in has
                                /\ DOMAIN snapshot.principals # {} => snapshot.conflicts = g.conflicts
      /\ Behind(has, snapshot, Picture(g), g.disturbed)
  BY DEF SnapshotFine
<1>2. g.disturbed \subseteq g2.disturbed  BY DEF Onward
<1>3. Behind(Sections, Picture(g), Picture(g2), g2.disturbed)  BY PictureGrows
<1> HIDE DEF has
<1>4. Behind(has, snapshot, Picture(g2), g2.disturbed)  BY <1>1, <1>2, <1>3, BehindTransitive
<1>5. Consistent(snapshot, g.disturbed) => Consistent(snapshot, g2.disturbed)  BY <1>2 DEF Consistent
<1>6. ASSUME "conflicts" \in has, DOMAIN snapshot.principals # {} PROVE snapshot.conflicts = g2.conflicts
  <2>1. PeopleBehind(snapshot.principals, Picture(g).principals, g.disturbed)  BY <1>1, <1>6 DEF Behind
  <2>2. DOMAIN People(g) # {}  BY <1>6, <2>1 DEF PeopleBehind, Picture
  <2>3. PICK d \in Discoveries : Here(d, g)  BY <2>2 DEF People
  <2>4. g.corpus.status = "extracted"  BY <2>3 DEF Onward, Extracted
  <2> QED  BY <1>1, <1>6, <2>4 DEF Onward
<1> QED  BY <1>1, <1>4, <1>5, <1>6 DEF SnapshotFine, has

LEMMA GroundedKept ==
    ASSUME NEW g, NEW g2, Onward(g, g2), NEW n, NEW p, p # NONE, Grounded(n, p, g)
    PROVE  Grounded(n, p, g2)
<1>1. Resolved(n, g2)
  <2>1. PICK d \in Discoveries : Here(d, g) /\ g.db[d].name = Strip[n] /\ g.db[d].resolved # NONE
    BY DEF Grounded, Resolved
  <2>2. Here(d, g2) /\ g2.db[d].name = Strip[n] /\ g2.db[d].resolved # NONE  BY <2>1 DEF Onward, Rows
  <2> QED  BY <2>2 DEF Resolved
<1>2. ASSUME Discoveries \cap g2.disturbed = {}
      PROVE  \E d \in Discoveries : Here(d, g2) /\ g2.db[d].name = Strip[n] /\ g2.db[d].resolved = p
  <2>1. Discoveries \cap g.disturbed = {}  BY <1>2 DEF Onward
  <2>2. PICK d \in Discoveries : Here(d, g) /\ g.db[d].name = Strip[n] /\ g.db[d].resolved = p
    BY <2>1 DEF Grounded
  <2>3. d \notin g2.disturbed  BY <1>2
  <2>4. Here(d, g2) /\ g2.db[d].name = Strip[n] /\ g2.db[d].resolved = p  BY <2>2, <2>3 DEF Onward, Rows
  <2> QED  BY <2>4
<1> QED  BY <1>1, <1>2 DEF Grounded

LEMMA ApprovalsKept ==
    ASSUME NEW g, NEW g2, Onward(g, g2), Approvals(g), NEW i \in 1..Len(g.approvals)
    PROVE  ApprovalFine(i, g2)
<1> DEFINE a == g.approvals[i]
<1>1. g2.approvals[i] = a  BY DEF Onward
<1>2. /\ a.version = i /\ a.predecessor = i - 1 /\ DOMAIN a.snapshot = Sections
      /\ SnapshotFine(a.snapshot, g) /\ Plausible(a.first, a.snapshot.principals)
      /\ i # 1 => Behind(Sections, g.approvals[i - 1].snapshot, a.snapshot, g.disturbed)
  BY DEF Approvals, ApprovalFine
<1>3. SnapshotFine(a.snapshot, g2)  BY <1>2, SnapshotKept
<1>4. ASSUME i # 1 PROVE Behind(Sections, g2.approvals[i - 1].snapshot, a.snapshot, g2.disturbed)
  <2>1. i - 1 \in 1..Len(g.approvals)  BY <1>4 DEF Onward
  <2>2. g2.approvals[i - 1] = g.approvals[i - 1] /\ g.disturbed \subseteq g2.disturbed  BY <2>1 DEF Onward
  <2> QED  BY <1>2, <1>4, <2>2, BehindLater
<1> QED  BY <1>1, <1>2, <1>3, <1>4 DEF ApprovalFine

LEMMA PolicyKept ==
    ASSUME NEW g, NEW g2, Onward(g, g2), NEW p, PolicyFine(p, g)
    PROVE  PolicyFine(p, g2)
<1>1. Here(p.candidate, g2)  BY DEF PolicyFine, Onward, Rows
<1>2. p.approval \in 1..Len(g.approvals) =>
          p.approval \in 1..Len(g2.approvals) /\ g2.approvals[p.approval] = g.approvals[p.approval]
  BY DEF Onward
<1> QED  BY <1>1, <1>2 DEF PolicyFine, Onward

\* What r has read is as it was, unless that is on record.
Noticed(r, g, g2) ==
    r.stage \in {"loaded", "snapshot", "policy", "mark"} =>
        \A x \in r.reads : Here(x, g) /\ x \notin g2.disturbed => g2.db[x] = g.db[x]

LEMMA FineKept ==
    ASSUME NEW g, NEW g2, Onward(g, g2), NEW r, Noticed(r, g, g2), Fine(r, g)
    PROVE  Fine(r, g2)
<1>1. g.disturbed \subseteq g2.disturbed  BY DEF Onward
<1>2. ASSUME r.stage = "loaded", LoadedFine(r, g) PROVE LoadedFine(r, g2)
  <2>1. PICK x \in Rows :
          /\ r.reads = {x} /\ Here(x, g)
          /\ \/ ResolvesDiscovery(r, x, g) \/ ActivatesRelationship(r, x, g)
             \/ ResolvesRelationship(r, x, g) \/ AnswersQuestion(r, x) \/ DecidesCandidate(r, x, g)
    BY <1>2 DEF LoadedFine
  <2>2. Here(x, g2) /\ (x \notin g2.disturbed => g2.db[x] = g.db[x])
    BY <1>2, <2>1 DEF Onward, Noticed
  <2>3. ResolvesDiscovery(r, x, g) => ResolvesDiscovery(r, x, g2)  BY <1>1, <2>2 DEF ResolvesDiscovery
  <2>4. ActivatesRelationship(r, x, g) => ActivatesRelationship(r, x, g2)
    BY <2>1 DEF ActivatesRelationship, Onward
  <2>5. ASSUME ResolvesRelationship(r, x, g) PROVE ResolvesRelationship(r, x, g2)
    <3>1. PICK f \in Principals \cup {NONE}, t \in Principals \cup {NONE} :
          /\ r.writes = Row(x, Parties(f, t)) /\ ~(f = NONE /\ t = NONE)
          /\ f # NONE => Grounded(g.db[x].from, f, g)
          /\ t # NONE => Grounded(g.db[x].to, t, g)
      BY <2>5 DEF ResolvesRelationship
    <3>2. g2.db[x].from = g.db[x].from /\ g2.db[x].to = g.db[x].to  BY <2>1, <2>5 DEF ResolvesRelationship, Onward
    <3>3. f # NONE => Grounded(g2.db[x].from, f, g2)  BY <3>1, <3>2, GroundedKept
    <3>4. t # NONE => Grounded(g2.db[x].to, t, g2)  BY <3>1, <3>2, GroundedKept
    <3> QED  BY <2>5, <3>1, <3>3, <3>4 DEF ResolvesRelationship
  <2>6. DecidesCandidate(r, x, g) => DecidesCandidate(r, x, g2)  BY <1>1, <2>2 DEF DecidesCandidate
  <2>7. LoadedFine(r, g2)  BY <2>1, <2>2, <2>3, <2>4, <2>5, <2>6 DEF LoadedFine
  <2> QED  BY <2>7
<1>3. ASSUME r.stage = "snapshot", ApprovingFine(r, g) PROVE ApprovingFine(r, g2)
  <2>1. /\ r.attempt \in Nat /\ r.latest \in 0..Len(g.approvals) /\ r.version = r.latest + 1
        /\ r.reads = Discoveries \cup Relationships
        /\ SnapshotFine(r.snapshot, g) /\ Watches(r.snapshot, g)
        /\ r.latest # 0 =>
              Behind(DOMAIN r.snapshot, g.approvals[r.latest].snapshot, r.snapshot, g.disturbed)
    BY <1>3 DEF ApprovingFine
  <2>2. r.latest \in 0..Len(g2.approvals)  BY <2>1 DEF Onward
  <2>3. SnapshotFine(r.snapshot, g2)  BY <2>1, SnapshotKept
  <2>4. Watches(r.snapshot, g2)
    <3> SUFFICES ASSUME "principals" \in DOMAIN r.snapshot, NEW x \in Relationships,
                        Here(x, g2), g2.db[x].status = "active", x \notin g2.disturbed
                 PROVE  /\ ShowsResolved(r.snapshot.principals, g2.db[x].from)
                        /\ ShowsResolved(r.snapshot.principals, g2.db[x].to)
      BY DEF Watches
    <3>1. Here(x, g)  BY DEF Onward
    <3>2. g2.db[x] = g.db[x]  BY <1>3, <2>1, <3>1 DEF Noticed
    <3> QED  BY <1>1, <2>1, <3>1, <3>2 DEF Watches
  <2>5. ASSUME r.latest # 0
        PROVE  Behind(DOMAIN r.snapshot, g2.approvals[r.latest].snapshot, r.snapshot, g2.disturbed)
    <3>1. g2.approvals[r.latest] = g.approvals[r.latest]  BY <2>1, <2>5 DEF Onward
    <3> QED  BY <1>1, <2>1, <2>5, <3>1, BehindLater
  <2> QED  BY <2>1, <2>2, <2>3, <2>4, <2>5 DEF ApprovingFine
<1>4. ASSUME r.stage \in {"policy", "mark"}, PromotingFine(r, g) PROVE PromotingFine(r, g2)
  <2>1. /\ r.reads = {r.candidate} /\ r.policy.candidate = r.candidate /\ PolicyFine(r.policy, g)
        /\ r.candidate \notin g.disturbed =>
              g.db[r.candidate].status = "pending_review" /\ g.db[r.candidate].content = r.policy.content
        /\ r.stage = "mark" => r.key \in 1..Len(g.policies) /\ g.policies[r.key] = r.policy
    BY <1>4 DEF PromotingFine
  <2>2. PolicyFine(r.policy, g2)  BY <2>1, PolicyKept
  <2>3. r.candidate \notin g2.disturbed => g2.db[r.candidate] = g.db[r.candidate]
    BY <1>4, <2>1 DEF Noticed, PolicyFine
  <2>4. r.stage = "mark" => r.key \in 1..Len(g2.policies) /\ g2.policies[r.key] = r.policy
    BY <2>1 DEF Onward
  <2> QED  BY <1>1, <2>1, <2>2, <2>3, <2>4 DEF PromotingFine
<1> QED  BY <1>2, <1>3, <1>4 DEF Fine

-----------------------------------------------------------------------------
(* Every step goes onward, and one request takes it.                       *)

LEMMA StepInv ==
    ASSUME Inv, NEW w \in Workers, NEW r2, request' = [request EXCEPT ![w] = r2],
           Onward(Now, Now'), Fine(r2, Now'),
           \A v \in Workers \ {w} : Noticed(request[v], Now, Now'),
           Extracted(Now'), PartiesKnown(Now'), Listed(approvals'), Listed(policies'),
           \A i \in 1..Len(approvals') : i \in 1..Len(approvals) \/ ApprovalFine(i, Now'),
           \A i \in 1..Len(policies') : i \in 1..Len(policies) \/ PolicyFine(policies'[i], Now'),
           Extracting(request', Now'), OwnKeys(request'), Orphaned(request', Now'),
           Decided(request', Now')
    PROVE  Inv'
<1>1. /\ Stored(Now) /\ DOMAIN request = Workers /\ \A v \in Workers : Fine(request[v], Now)
  BY DEF Inv, Requests
<1>2. RowsTyped(Now')  BY DEF Onward
<1>3. Now'.approvals = approvals' /\ Now'.policies = policies' /\ Now.approvals = approvals /\ Now.policies = policies
  BY DEF Now
<1>4. Approvals(Now')
  <2>1. \A i \in 1..Len(approvals) : ApprovalFine(i, Now')  BY <1>1, <1>3, ApprovalsKept DEF Stored
  <2> QED  BY <1>3, <2>1 DEF Approvals
<1>5. Policies(Now')
  <2>1. ASSUME NEW i \in 1..Len(policies) PROVE PolicyFine(policies'[i], Now')
    <3>1. policies'[i] = policies[i]  BY <1>3 DEF Onward
    <3>2. PolicyFine(policies[i], Now)  BY <1>1, <1>3 DEF Stored, Policies
    <3> QED  BY <3>1, <3>2, PolicyKept
  <2> QED  BY <1>3, <2>1 DEF Policies
<1>6. Stored(Now')  BY <1>2, <1>4, <1>5 DEF Stored
<1>7. request' = [v \in Workers |-> request'[v]]  BY <1>1
<1>8. ASSUME NEW v \in Workers PROVE Fine(request'[v], Now')
  <2>1. CASE v = w  BY <1>1, <2>1
  <2>2. CASE v # w
    <3>1. request'[v] = request[v]  BY <1>1, <2>2
    <3> QED  BY <1>1, <2>2, <3>1, FineKept
  <2> QED  BY <2>1, <2>2
<1>9. Requests(request', Now')  BY <1>7, <1>8 DEF Requests
<1> QED  BY <1>6, <1>9 DEF Inv

\* A step that neither commits a policy nor ends a promotion.
LEMMA PlainInv ==
    ASSUME Inv, NEW w \in Workers, NEW r2, request' = [request EXCEPT ![w] = r2],
           Onward(Now, Now'), Fine(r2, Now'),
           \A v \in Workers \ {w} : Noticed(request[v], Now, Now'),
           Extracted(Now'), PartiesKnown(Now'), Listed(approvals'),
           \A i \in 1..Len(approvals') : i \in 1..Len(approvals) \/ ApprovalFine(i, Now'),
           Extracting(request', Now'),
           policies' = policies, orphans' = orphans, request[w].stage # "mark", r2.stage # "mark",
           \A k \in Candidates : k \notin disturbed' =>
               \/ db'[k] = db[k]
               \/ db[k].status # "promoted" /\ db'[k].status # "promoted"
    PROVE  Inv'
<1>1. /\ DOMAIN request = Workers /\ OwnKeys(request) /\ Orphaned(request, Now) /\ Decided(request, Now)
      /\ Policies(Now)
  BY DEF Inv, Stored, Requests
<1>2. \A v \in Workers : request'[v].stage = "mark" <=> request[v].stage = "mark" /\ v # w
  BY <1>1
<1>3. \A v \in Workers : request[v].stage = "mark" => request'[v] = request[v]  BY <1>1
<1>4. OwnKeys(request')  BY <1>1, <1>2, <1>3 DEF OwnKeys
<1>5. /\ Now.policies = policies /\ Now'.policies = policies /\ Now.db = db /\ Now'.db = db'
      /\ Now.disturbed = disturbed /\ Now'.disturbed = disturbed'
      /\ Now.orphans = orphans /\ Now'.orphans = orphans
  BY DEF Now
<1>8. Orphaned(request', Now')  BY <1>1, <1>2, <1>3, <1>5 DEF Orphaned
<1>6. Decided(request', Now')
  <2> SUFFICES ASSUME NEW k \in Candidates, Here(k, Now'), k \notin disturbed'
               PROVE  /\ db'[k].status = "promoted" =>
                            /\ db'[k].policy \in 1..Len(policies)
                            /\ policies[db'[k].policy].content = db'[k].content
                            /\ \A i \in 1..Len(policies) : (policies[i].candidate = k /\ i \notin orphans) <=> i = db'[k].policy
                      /\ db'[k].status # "promoted" =>
                            \A i \in 1..Len(policies) : policies[i].candidate = k /\ i \notin orphans =>
                                \E v \in Workers : request'[v].stage = "mark" /\ request'[v].key = i
    BY <1>5 DEF Decided
  <2>1. k \notin disturbed  BY <1>5 DEF Onward
  <2>2. Here(k, Now) =>
            /\ db[k].status = "promoted" =>
                  /\ db[k].policy \in 1..Len(policies)
                  /\ policies[db[k].policy].content = db[k].content
                  /\ \A i \in 1..Len(policies) : (policies[i].candidate = k /\ i \notin orphans) <=> i = db[k].policy
            /\ db[k].status # "promoted" =>
                  \A i \in 1..Len(policies) : policies[i].candidate = k /\ i \notin orphans =>
                      \E v \in Workers : request[v].stage = "mark" /\ request[v].key = i
    BY <1>1, <1>5, <2>1 DEF Decided
  <2>3. CASE db'[k] = db[k]
    <3>1. Here(k, Now)  BY <1>5, <2>3 DEF Here
    <3>2. \A i : (\E v \in Workers : request[v].stage = "mark" /\ request[v].key = i) =>
                 (\E v \in Workers : request'[v].stage = "mark" /\ request'[v].key = i)
      BY <1>2, <1>3
    <3> QED  BY <2>2, <2>3, <3>1, <3>2
  <2>4. CASE db[k].status # "promoted" /\ db'[k].status # "promoted"
    <3>1. ASSUME NEW i \in 1..Len(policies), policies[i].candidate = k, i \notin orphans
          PROVE  \E v \in Workers : request'[v].stage = "mark" /\ request'[v].key = i
      <4>1. Here(k, Now)  BY <1>1, <1>5, <3>1 DEF Policies, PolicyFine
      <4>2. PICK v \in Workers : request[v].stage = "mark" /\ request[v].key = i  BY <2>2, <2>4, <3>1, <4>1
      <4> QED  BY <1>2, <1>3, <4>2
    <3> QED  BY <2>4, <3>1
  <2> QED  BY <2>3, <2>4
<1>7. Listed(policies') /\ \A i \in 1..Len(policies') : i \in 1..Len(policies) \/ PolicyFine(policies'[i], Now')
  BY <1>1, <1>5 DEF Policies
<1> QED  BY <1>4, <1>6, <1>7, <1>8, StepInv

\* Nothing is written.
LEMMA QuietInv ==
    ASSUME Inv, NEW w \in Workers, NEW r2, request' = [request EXCEPT ![w] = r2], Fine(r2, Now),
           UNCHANGED <<corpus, upload, db, conflicts, approvals, policies, disturbed, orphans>>,
           request[w].stage # "mark", r2.stage \notin {"mark", "documents", "upload"}
    PROVE  Inv'
<1>1. Now' = Now  BY DEF Now
<1>2. /\ DOMAIN request = Workers /\ Extracting(request, Now) /\ Stored(Now)
  BY DEF Inv, Requests
<1>3. Now.approvals = approvals /\ Now.policies = policies /\ Now.corpus = corpus /\ Now.db = db  BY DEF Now
<1>4. Len(approvals) \in Nat /\ Listed(approvals) /\ Len(policies) \in Nat
  BY <1>2, <1>3, Appending DEF Stored, Approvals, Policies
<1>5. Onward(Now, Now)
  <2>1. RowsTyped(Now) /\ Extracted(Now) /\ corpus.documents \in Nat  BY <1>2, <1>3 DEF Stored, Extracted
  <2> QED  BY <1>3, <1>4, <2>1 DEF Onward
<1>6. \A v \in Workers \ {w} : Noticed(request[v], Now, Now')  BY <1>1 DEF Noticed
<1>7. Extracting(request', Now')
  <2>1. \A v \in Workers : request'[v] = IF v = w THEN r2 ELSE request[v]  BY <1>2
  <2> QED  BY <1>1, <1>2, <2>1 DEF Extracting
<1>8. Extracted(Now') /\ PartiesKnown(Now')  BY <1>1, <1>2 DEF Stored
<1>9. Onward(Now, Now') /\ Fine(r2, Now')  BY <1>1, <1>5
<1>10. policies' = policies /\ orphans' = orphans /\ approvals' = approvals /\ db' = db  OBVIOUS
<1> QED  BY <1>4, <1>6, <1>7, <1>8, <1>9, <1>10, PlainInv

-----------------------------------------------------------------------------
(* Extraction.                                                             *)

\* What is stored, field by field
LEMMA Fields ==
    /\ Now.db = db /\ Now.conflicts = conflicts /\ Now.corpus = corpus /\ Now.upload = upload
    /\ Now.approvals = approvals /\ Now.policies = policies /\ Now.disturbed = disturbed
    /\ Now.orphans = orphans /\ Now'.orphans = orphans'
    /\ Now'.db = db' /\ Now'.conflicts = conflicts' /\ Now'.corpus = corpus' /\ Now'.upload = upload'
    /\ Now'.approvals = approvals' /\ Now'.policies = policies' /\ Now'.disturbed = disturbed'
BY DEF Now

LEMMA Lists ==
    ASSUME Inv
    PROVE  /\ Len(approvals) \in Nat /\ Listed(approvals) /\ DOMAIN approvals = 1..Len(approvals)
           /\ Len(policies) \in Nat /\ Listed(policies) /\ DOMAIN policies = 1..Len(policies)
BY Fields, Appending DEF Inv, Stored, Approvals, Policies

\* The rows, the approvals and the policies stay as they are.
LEMMA StatusInv ==
    ASSUME Inv, NEW w \in Workers, NEW r2, request' = [request EXCEPT ![w] = r2],
           r2 \in {Idle, [stage |-> "documents"], [stage |-> "upload"]},
           corpus' \in [status : {"none", "uploaded", "failed", "extracted"}, documents : Nat],
           corpus'.documents >= corpus.documents,
           corpus'.status = corpus.status \/ {corpus.status, corpus'.status} \subseteq {"none", "uploaded", "failed"},
           upload' = upload \/ upload # "extracted",
           UNCHANGED <<db, conflicts, approvals, policies, disturbed, orphans>>,
           request[w].stage # "mark", Extracting(request', Now')
    PROVE  Inv'
<1>1. Stored(Now) /\ request = [v \in Workers |-> request[v]]  BY DEF Inv, Requests
<1>2. RowsTyped(Now) /\ RowsTyped(Now') /\ Extracted(Now)  BY <1>1, Fields DEF Stored, RowsTyped
<1>3. Onward(Now, Now')
  BY <1>2, Lists, Fields DEF Onward, Extracted, Here
<1>4. Fine(r2, Now')  BY DEF Fine
<1>5. r2.stage # "mark"  BY DEF Idle
<1>6. \A v \in Workers \ {w} : Noticed(request[v], Now, Now')  BY Fields DEF Noticed
<1>7. Extracted(Now')  BY <1>2, Fields DEF Extracted, Here
<1>8. PartiesKnown(Now')
  BY <1>1, Fields DEF Stored, PartiesKnown, Grounded, Resolved, Here
<1> QED  BY <1>3, <1>4, <1>5, <1>6, <1>7, <1>8, Lists, PlainInv

LEMMA CreateCorpusInv == ASSUME Inv, NEW w \in Workers, request[w] = Idle, create_corpus(w) PROVE Inv'
<1> DEFINE r2 == [stage |-> "documents"]
<1>1. /\ request' = [request EXCEPT ![w] = r2] /\ corpus.status = "none"
      /\ corpus' = [corpus EXCEPT !.status = "uploaded"]
      /\ UNCHANGED <<upload, db, conflicts, approvals, policies, disturbed, orphans>>
  BY DEF create_corpus, Goto
<1>2. /\ Extracting(request, Now) /\ Extracted(Now) /\ request = [v \in Workers |-> request[v]]
  BY DEF Inv, Requests, Stored
<1>3. corpus \in [status : {"none", "uploaded", "failed", "extracted"}, documents : Nat]
  BY <1>2, Fields DEF Extracted
<1>4. /\ corpus' \in [status : {"none", "uploaded", "failed", "extracted"}, documents : Nat]
      /\ corpus'.status = "uploaded" /\ corpus'.documents = corpus.documents /\ corpus.documents \in Nat
  BY <1>1, <1>3
<1>5. \A v \in Workers : request[v].stage # "documents"  BY <1>1, <1>2, Fields DEF Extracting
<1>6. \A v \in Workers : request'[v] = IF v = w THEN r2 ELSE request[v]  BY <1>1, <1>2
<1>7. Extracting(request', Now')
  BY <1>1, <1>2, <1>4, <1>5, <1>6, Fields DEF Extracting
<1>8. request[w].stage # "mark"  BY DEF Idle
<1> HIDE DEF r2
<1>9. r2 \in {Idle, [stage |-> "documents"], [stage |-> "upload"]}  BY DEF r2
<1>10. corpus'.documents >= corpus.documents /\ {corpus.status, corpus'.status} \subseteq {"none", "uploaded", "failed"}
  BY <1>1, <1>4
<1>11. UNCHANGED <<upload, db, conflicts, approvals, policies, disturbed, orphans>>  BY <1>1
<1>12. request' = [request EXCEPT ![w] = r2]  BY <1>1
<1>13. corpus' \in [status : {"none", "uploaded", "failed", "extracted"}, documents : Nat]  BY <1>4
<1> QED  BY <1>7, <1>8, <1>9, <1>10, <1>11, <1>12, <1>13, StatusInv

LEMMA AddDocumentInv == ASSUME Inv, NEW w \in Workers, add_document(w) PROVE Inv'
<1> DEFINE r2 == request[w]
<1>1. /\ request[w].stage = "documents" /\ request' = request
      /\ corpus' = [corpus EXCEPT !.documents = corpus.documents + 1]
      /\ UNCHANGED <<upload, db, conflicts, approvals, policies, disturbed, orphans>>
  BY DEF add_document
<1>2. /\ Extracting(request, Now) /\ Extracted(Now) /\ request = [v \in Workers |-> request[v]]
      /\ Fine(request[w], Now)
  BY DEF Inv, Requests, Stored
<1>3. corpus \in [status : {"none", "uploaded", "failed", "extracted"}, documents : Nat]
  BY <1>2, Fields DEF Extracted
<1>4. /\ corpus' \in [status : {"none", "uploaded", "failed", "extracted"}, documents : Nat]
      /\ corpus'.status = corpus.status /\ corpus'.documents >= corpus.documents
  BY <1>1, <1>3
<1>5. r2 = [stage |-> "documents"]  BY <1>1, <1>2 DEF Fine, Idle
<1>6. request' = [request EXCEPT ![w] = r2]  BY <1>1, <1>2
<1>7. Extracting(request', Now')  BY <1>1, <1>2, <1>4, Fields DEF Extracting
<1> HIDE DEF r2
<1>8. r2 \in {Idle, [stage |-> "documents"], [stage |-> "upload"]}  BY <1>5
<1> QED  BY <1>1, <1>4, <1>6, <1>7, <1>8, StatusInv

LEMMA UnsupportedFormatInv == ASSUME Inv, NEW w \in Workers, UnsupportedFormat(w) PROVE Inv'
<1>1. /\ request[w].stage = "documents" /\ request' = [request EXCEPT ![w] = Idle]
      /\ UNCHANGED <<corpus, upload, db, conflicts, approvals, policies, disturbed, orphans>>
  BY DEF UnsupportedFormat, Answer
<1>2. Fine(Idle, Now) /\ Idle.stage = "idle"  BY DEF Fine, Idle
<1> QED  BY <1>1, <1>2, QuietInv

LEMMA ExtractionFailsInv == ASSUME Inv, NEW w \in Workers, ExtractionFails(w) PROVE Inv'
<1>1. /\ request[w].stage = "documents" /\ request' = [request EXCEPT ![w] = Idle]
      /\ corpus' = [corpus EXCEPT !.status = "failed"]
      /\ UNCHANGED <<upload, db, conflicts, approvals, policies, disturbed, orphans>>
  BY DEF ExtractionFails, Answer
<1>2. /\ Extracting(request, Now) /\ Extracted(Now) /\ request = [v \in Workers |-> request[v]]
  BY DEF Inv, Requests, Stored
<1>3. corpus \in [status : {"none", "uploaded", "failed", "extracted"}, documents : Nat] /\ corpus.status = "uploaded"
  BY <1>1, <1>2, Fields DEF Extracted, Extracting
<1>4. /\ corpus' \in [status : {"none", "uploaded", "failed", "extracted"}, documents : Nat]
      /\ corpus'.status = "failed" /\ corpus'.documents >= corpus.documents
  BY <1>1, <1>3
<1>5. \A v \in Workers : request'[v] = IF v = w THEN Idle ELSE request[v]  BY <1>1, <1>2
<1>6. Idle.stage = "idle"  BY DEF Idle
<1>7. Extracting(request', Now')
  <2>1. \A v \in Workers : request'[v].stage # "documents"  BY <1>1, <1>2, <1>5, <1>6 DEF Extracting
  <2> QED  BY <1>1, <1>2, <1>5, <1>6, <2>1, Fields DEF Extracting
<1> QED  BY <1>1, <1>3, <1>4, <1>7, StatusInv

LEMMA CreateUploadInv == ASSUME Inv, NEW w \in Workers, request[w] = Idle, create_upload(w) PROVE Inv'
<1> DEFINE r2 == [stage |-> "upload"]
<1>1. /\ request' = [request EXCEPT ![w] = r2] /\ upload = "none" /\ upload' = "uploaded"
      /\ UNCHANGED <<corpus, db, conflicts, approvals, policies, disturbed, orphans>>
  BY DEF create_upload, Goto
<1>2. /\ Extracting(request, Now) /\ Extracted(Now) /\ request = [v \in Workers |-> request[v]]
  BY DEF Inv, Requests, Stored
<1>3. corpus \in [status : {"none", "uploaded", "failed", "extracted"}, documents : Nat]
  BY <1>2, Fields DEF Extracted
<1>4. corpus.documents >= corpus.documents  BY <1>3
<1>5. \A v \in Workers : request[v].stage # "upload"  BY <1>1, <1>2, Fields DEF Extracting
<1>6. \A v \in Workers : request'[v] = IF v = w THEN r2 ELSE request[v]  BY <1>1, <1>2
<1>7. Extracting(request', Now')
  BY <1>1, <1>2, <1>5, <1>6, Fields DEF Extracting
<1>8. request[w].stage # "mark"  BY DEF Idle
<1> HIDE DEF r2
<1>9. r2 \in {Idle, [stage |-> "documents"], [stage |-> "upload"]}  BY DEF r2
<1> QED  BY <1>1, <1>3, <1>4, <1>7, <1>8, <1>9, StatusInv

\* What a request has read are rows.
LEMMA ReadsRows ==
    ASSUME Inv, NEW v \in Workers, request[v].stage \in {"loaded", "snapshot", "policy", "mark"},
           NEW x \in request[v].reads
    PROVE  x \in Rows
<1>1. Fine(request[v], Now)  BY DEF Inv, Requests
<1> QED  BY <1>1 DEF Fine, Idle, LoadedFine, ApprovingFine, PromotingFine, PolicyFine, Rows

\* What a provider may extract
LEMMA Extractable ==
    ASSUME NEW graph \in Graphs
    PROVE  /\ DOMAIN graph.principals \subseteq Discoveries
           /\ \A d \in DOMAIN graph.principals : NewPrincipal(graph.principals[d]) \in AuthorityPrincipal
           /\ DOMAIN graph.relationships \subseteq Relationships
           /\ \A r \in DOMAIN graph.relationships :
                 NewRelationship(graph.relationships[r]) \in AuthorityRelationship
           /\ DOMAIN graph.policies \subseteq Candidates
           /\ \A k \in DOMAIN graph.policies :
                 NewCandidate(graph.policies[k], TRUE) \in PolicyExtractionCandidate
           /\ graph.questions \subseteq Questions
<1>1. PICK found \in SUBSET Discoveries : graph.principals \in [found -> Names]  BY GraphsAssumption
<1>2. PICK found2 \in SUBSET Relationships : graph.relationships \in
          [found2 -> [kind : Kinds, from : Names, to : Names]]  BY GraphsAssumption
<1>3. PICK found3 \in SUBSET Candidates : graph.policies \in [found3 -> Content]  BY GraphsAssumption
<1>4. \A d \in DOMAIN graph.principals : NewPrincipal(graph.principals[d]) \in AuthorityPrincipal
  BY <1>1 DEF NewPrincipal, AuthorityPrincipal
<1>5. ASSUME NEW r \in DOMAIN graph.relationships
      PROVE  NewRelationship(graph.relationships[r]) \in AuthorityRelationship
  <2>1. graph.relationships[r] \in [kind : Kinds, from : Names, to : Names]  BY <1>2
  <2> QED  BY <2>1 DEF NewRelationship, AuthorityRelationship
<1>6. \A k \in DOMAIN graph.policies :
          NewCandidate(graph.policies[k], TRUE) \in PolicyExtractionCandidate
  BY <1>3 DEF NewCandidate, PolicyExtractionCandidate
<1> QED  BY <1>1, <1>2, <1>3, <1>4, <1>5, <1>6, GraphsAssumption

LEMMA RunExtractionInv == ASSUME Inv, NEW w \in Workers, NEW graph \in Graphs, run_extraction(w, graph) PROVE Inv'
<1>1. /\ request[w].stage = "documents"
      /\ corpus' = [corpus EXCEPT !.status = "extracted"]
      /\ request' = [request EXCEPT ![w] = Idle]
      /\ UNCHANGED <<upload, approvals, policies, disturbed, orphans>>
  BY DEF run_extraction, Answer
<1>2. /\ Extracting(request, Now) /\ Extracted(Now) /\ request = [v \in Workers |-> request[v]]
      /\ RowsTyped(Now) /\ Approvals(Now) /\ Policies(Now)
  BY DEF Inv, Requests, Stored
<1>3. /\ corpus \in [status : {"none", "uploaded", "failed", "extracted"}, documents : Nat]
      /\ corpus.status = "uploaded"
  BY <1>1, <1>2, Fields DEF Extracted, Extracting
<1>4. /\ corpus' \in [status : {"none", "uploaded", "failed", "extracted"}, documents : Nat]
      /\ corpus'.status = "extracted" /\ corpus'.documents = corpus.documents /\ corpus.documents \in Nat
  BY <1>1, <1>3
<1>5. /\ conflicts = {}
      /\ \A x \in Discoveries \cup Relationships \cup Questions : ~Here(x, Now)
      /\ \A k \in DOMAIN graph.policies : ~Here(k, Now)
  <2>1. conflicts = {} /\ \A x \in Discoveries \cup Relationships \cup Questions : ~Here(x, Now)
    BY <1>2, <1>3, Fields DEF Extracted
  <2>2. ASSUME NEW k \in DOMAIN graph.policies, Here(k, Now) PROVE FALSE
    <3>1. k \in Candidates  BY Extractable
    <3>2. k \in FromUpload  BY <1>2, <1>3, <2>2, <3>1, Fields DEF Extracted
    <3>3. PICK contents \in Uploads : k \in DOMAIN contents  BY <3>2 DEF FromUpload
    <3> QED  BY <3>3, ConstantsAssumption
  <2> QED  BY <2>1, <2>2
<1> DEFINE fresh == DOMAIN graph.principals \cup DOMAIN graph.relationships \cup DOMAIN graph.policies
                        \cup graph.questions
<1>6. /\ \A d \in DOMAIN graph.principals : db'[d] = NewPrincipal(graph.principals[d])
      /\ \A r \in DOMAIN graph.relationships : db'[r] = NewRelationship(graph.relationships[r])
      /\ \A k \in DOMAIN graph.policies : db'[k] = NewCandidate(graph.policies[k], TRUE)
      /\ \A q \in graph.questions : db'[q] = [status |-> "asked"]
      /\ \A x \in Rows \ fresh : db'[x] = db[x]
  <2>1. db' = [x \in Rows |->
          CASE x \in DOMAIN graph.principals    -> NewPrincipal(graph.principals[x])
            [] x \in DOMAIN graph.relationships -> NewRelationship(graph.relationships[x])
            [] x \in DOMAIN graph.policies      -> NewCandidate(graph.policies[x], TRUE)
            [] x \in graph.questions            -> [status |-> "asked"]
            [] OTHER                            -> db[x]]
    BY DEF run_extraction
  <2>2. /\ DOMAIN graph.principals \subseteq Discoveries /\ DOMAIN graph.relationships \subseteq Relationships
        /\ DOMAIN graph.policies \subseteq Candidates /\ graph.questions \subseteq Questions
    BY Extractable
  <2>3. \A d \in DOMAIN graph.principals : db'[d] = NewPrincipal(graph.principals[d])
    BY <2>1, <2>2, Disjoint DEF Rows
  <2>4. \A r \in DOMAIN graph.relationships : db'[r] = NewRelationship(graph.relationships[r])
    BY <2>1, <2>2, Disjoint DEF Rows
  <2>5. \A k \in DOMAIN graph.policies : db'[k] = NewCandidate(graph.policies[k], TRUE)
    BY <2>1, <2>2, Disjoint DEF Rows
  <2>6. \A q \in graph.questions : db'[q] = [status |-> "asked"]
    BY <2>1, <2>2, Disjoint DEF Rows
  <2>7. \A x \in Rows \ fresh : db'[x] = db[x]  BY <2>1
  <2> QED  BY <2>3, <2>4, <2>5, <2>6, <2>7
<1>7. \A x \in Rows : Here(x, Now) => db'[x] = db[x]
  <2>1. \A x \in fresh : ~Here(x, Now)  BY <1>5, Extractable
  <2> QED  BY <1>6, <2>1
<1>8. RowsTyped(Now')
  <2>1. ASSUME NEW d \in Discoveries PROVE db'[d] = Absent \/ db'[d] \in AuthorityPrincipal
    <3>1. CASE d \in DOMAIN graph.principals  BY <1>6, <3>1, Extractable
    <3>2. CASE d \notin DOMAIN graph.principals
      <4>1. d \in Rows \ fresh  BY <3>2, Extractable, Disjoint DEF Rows
      <4> QED  BY <1>2, <1>6, <4>1, Fields DEF RowsTyped
    <3> QED  BY <3>1, <3>2
  <2>2. ASSUME NEW r \in Relationships PROVE db'[r] = Absent \/ db'[r] \in AuthorityRelationship
    <3>1. CASE r \in DOMAIN graph.relationships  BY <1>6, <3>1, Extractable
    <3>2. CASE r \notin DOMAIN graph.relationships
      <4>1. r \in Rows \ fresh  BY <3>2, Extractable, Disjoint DEF Rows
      <4> QED  BY <1>2, <1>6, <4>1, Fields DEF RowsTyped
    <3> QED  BY <3>1, <3>2
  <2>3. ASSUME NEW k \in Candidates PROVE db'[k] = Absent \/ db'[k] \in PolicyExtractionCandidate
    <3>1. CASE k \in DOMAIN graph.policies  BY <1>6, <3>1, Extractable
    <3>2. CASE k \notin DOMAIN graph.policies
      <4>1. k \in Rows \ fresh  BY <3>2, Extractable, Disjoint DEF Rows
      <4> QED  BY <1>2, <1>6, <4>1, Fields DEF RowsTyped
    <3> QED  BY <3>1, <3>2
  <2>4. ASSUME NEW q \in Questions PROVE db'[q] = Absent \/ db'[q] \in AuthorityQuestion
    <3>1. CASE q \in graph.questions  BY <1>6, <3>1 DEF AuthorityQuestion
    <3>2. CASE q \notin graph.questions
      <4>1. q \in Rows \ fresh  BY <3>2, Extractable, Disjoint DEF Rows
      <4> QED  BY <1>2, <1>6, <4>1, Fields DEF RowsTyped
    <3> QED  BY <3>1, <3>2
  <2> QED  BY <2>1, <2>2, <2>3, <2>4, Fields DEF RowsTyped
<1>9. \A r \in Relationships : Here(r, Now') =>
          db'[r].status = "proposed" /\ db'[r].from_id = NONE /\ db'[r].to_id = NONE
  <2> SUFFICES ASSUME NEW r \in Relationships, Here(r, Now')
               PROVE  db'[r].status = "proposed" /\ db'[r].from_id = NONE /\ db'[r].to_id = NONE
    OBVIOUS
  <2>1. r \in DOMAIN graph.relationships
    <3>1. ASSUME r \notin DOMAIN graph.relationships PROVE FALSE
      <4>1. r \in Rows \ fresh  BY <3>1, Extractable, Disjoint DEF Rows
      <4> QED  BY <1>5, <1>6, <4>1, Fields DEF Here
    <3> QED  BY <3>1
  <2>2. db'[r] = NewRelationship(graph.relationships[r])  BY <1>6, <2>1
  <2> QED  BY <2>2 DEF NewRelationship
<1>10. Onward(Now, Now')
  <2>1. \A x \in Rows : Here(x, Now) => Here(x, Now')  BY <1>7, Fields DEF Here
  <2> QED  BY <1>1, <1>2, <1>3, <1>4, <1>5, <1>8, <1>9, <2>1, Lists, Fields DEF Onward
<1>11. PartiesKnown(Now')  BY <1>9, Fields DEF PartiesKnown
<1>12. Extracted(Now')
  <2>1. ASSUME NEW k \in Candidates, Here(k, Now')
        PROVE  IF db'[k].from_corpus THEN k \in FromCorpus /\ corpus'.status = "extracted"
               ELSE k \in FromUpload /\ upload' = "extracted"
    <3>1. CASE k \in DOMAIN graph.policies
      <4>0. db'[k] = NewCandidate(graph.policies[k], TRUE)  BY <1>6, <3>1
      <4>1. db'[k].from_corpus = TRUE  BY <4>0 DEF NewCandidate
      <4> QED  BY <1>4, <3>1, <4>1 DEF FromCorpus
    <3>2. CASE k \notin DOMAIN graph.policies
      <4>1. k \in Rows \ fresh  BY <3>2, Extractable, Disjoint DEF Rows
      <4>2. db'[k] = db[k] /\ Here(k, Now)  BY <1>6, <2>1, <4>1, Fields DEF Here
      <4> QED  BY <1>1, <1>2, <1>4, <4>2, Fields DEF Extracted
    <3> QED  BY <3>1, <3>2
  <2> QED  BY <1>4, <2>1, Fields DEF Extracted
<1>13. \A v \in Workers : request'[v] = IF v = w THEN Idle ELSE request[v]  BY <1>1, <1>2
<1>14. Idle.stage = "idle" /\ Fine(Idle, Now')  BY DEF Idle, Fine
<1>15. Extracting(request', Now')
  <2>1. \A v \in Workers : request'[v].stage # "documents"  BY <1>1, <1>2, <1>13, <1>14 DEF Extracting
  <2> QED  BY <1>1, <1>2, <1>13, <1>14, <2>1, Fields DEF Extracting
<1>16. \A v \in Workers \ {w} : Noticed(request[v], Now, Now')  BY <1>7, ReadsRows, Fields DEF Noticed
<1>17. ASSUME NEW k \in Candidates
       PROVE  \/ db'[k] = db[k]
              \/ db[k].status # "promoted" /\ db'[k].status # "promoted"
  <2>1. CASE k \in DOMAIN graph.policies
    <3>1. db[k].status = "absent"  BY <1>5, <2>1, Fields DEF Here
    <3>0. db'[k] = NewCandidate(graph.policies[k], TRUE)  BY <1>6, <2>1
    <3>2. db'[k].status = "pending_review"  BY <3>0 DEF NewCandidate
    <3> QED  BY <3>1, <3>2
  <2>2. CASE k \notin DOMAIN graph.policies
    <3>1. k \in Rows \ fresh  BY <2>2, Extractable, Disjoint DEF Rows
    <3> QED  BY <1>6, <3>1
  <2> QED  BY <2>1, <2>2
<1>18. Listed(approvals') /\ \A i \in 1..Len(approvals') : i \in 1..Len(approvals)  BY <1>1, Lists
<1>19. policies' = policies /\ orphans' = orphans /\ request' = [request EXCEPT ![w] = Idle]  BY <1>1
<1>20. request[w].stage # "mark" /\ Idle.stage # "mark"  BY <1>1, <1>14
<1> QED  BY <1>10, <1>11, <1>12, <1>14, <1>15, <1>16, <1>17, <1>18, <1>19, <1>20, PlainInv

LEMMA ExtractUploadInv ==
    ASSUME Inv, NEW w \in Workers, NEW contents \in Uploads, ExtractUpload(w, contents) PROVE Inv'
<1>1. /\ request[w].stage = "upload" /\ request' = [request EXCEPT ![w] = Idle]
      /\ UNCHANGED <<corpus, conflicts, approvals, policies, disturbed, orphans>>
  BY DEF ExtractUpload, Answer
<1>2. /\ Extracting(request, Now) /\ Extracted(Now) /\ request = [v \in Workers |-> request[v]]
      /\ RowsTyped(Now) /\ PartiesKnown(Now)
  BY DEF Inv, Requests, Stored
<1>3. upload = "uploaded"  BY <1>1, <1>2, Fields DEF Extracting
<1>4. corpus \in [status : {"none", "uploaded", "failed", "extracted"}, documents : Nat] /\ corpus.documents \in Nat
  BY <1>2, Fields DEF Extracted
<1>5. \A v \in Workers : request'[v] = IF v = w THEN Idle ELSE request[v]  BY <1>1, <1>2
<1>6. Idle.stage = "idle" /\ Fine(Idle, Now')  BY DEF Idle, Fine
<1>7. Extracting(request', Now')
  <2>1. \A v \in Workers : request'[v].stage # "upload"  BY <1>1, <1>2, <1>5, <1>6 DEF Extracting
  <2> QED  BY <1>1, <1>2, <1>5, <1>6, <2>1, Fields DEF Extracting
<1>8. CASE upload' = "failed" /\ UNCHANGED db
  <2>1. corpus' \in [status : {"none", "uploaded", "failed", "extracted"}, documents : Nat]
        /\ corpus'.documents >= corpus.documents
    BY <1>1, <1>4
  <2> QED  BY <1>1, <1>3, <1>7, <1>8, <2>1, StatusInv
<1>9. CASE /\ upload' = "extracted"
           /\ db' = [x \in Rows |-> IF x \in DOMAIN contents THEN NewCandidate(contents[x], FALSE) ELSE db[x]]
  <2>1. /\ DOMAIN contents \subseteq Candidates
        /\ \A k \in DOMAIN contents : NewCandidate(contents[k], FALSE) \in PolicyExtractionCandidate
    <3>1. PICK found \in SUBSET Candidates : contents \in [found -> Content]  BY GraphsAssumption
    <3> QED  BY <3>1 DEF NewCandidate, PolicyExtractionCandidate
  <2>2. ASSUME NEW k \in DOMAIN contents, Here(k, Now) PROVE FALSE
    <3>1. k \in Candidates  BY <2>1
    <3>2. k \in FromCorpus  BY <1>2, <1>3, <2>2, <3>1, Fields DEF Extracted
    <3>3. PICK graph \in Graphs : k \in DOMAIN graph.policies  BY <3>2 DEF FromCorpus
    <3> QED  BY <3>3, ConstantsAssumption
  <2>3. /\ \A k \in DOMAIN contents : db'[k] = NewCandidate(contents[k], FALSE)
        /\ \A x \in Rows \ DOMAIN contents : db'[x] = db[x]
    BY <1>9, <2>1 DEF Rows
  <2>4. \A x \in Discoveries \cup Relationships \cup Questions : x \in Rows \ DOMAIN contents
    BY <2>1, Disjoint DEF Rows
  <2>5. /\ \A x \in Discoveries \cup Relationships \cup Questions : db'[x] = db[x]
        /\ \A x \in Rows : Here(x, Now) => db'[x] = db[x]
    BY <2>2, <2>3, <2>4
  <2>6. RowsTyped(Now')
    <3>1. ASSUME NEW k \in Candidates PROVE db'[k] = Absent \/ db'[k] \in PolicyExtractionCandidate
      <4>1. CASE k \in DOMAIN contents  BY <2>1, <2>3, <4>1
      <4>2. CASE k \notin DOMAIN contents
        <5>1. db'[k] = db[k]  BY <2>3, <4>2 DEF Rows
        <5> QED  BY <1>2, <5>1, Fields DEF RowsTyped
      <4> QED  BY <4>1, <4>2
    <3> QED  BY <1>2, <2>5, <3>1, Fields DEF RowsTyped
  <2>7. \A x \in Discoveries \cup Relationships \cup Questions : Here(x, Now') <=> Here(x, Now)
    BY <2>5, Fields DEF Here
  <2>8. Onward(Now, Now')
    <3>1. \A x \in Rows : Here(x, Now) => Here(x, Now')  BY <2>5, Fields DEF Here
    <3> QED  BY <1>1, <1>2, <1>4, <2>5, <2>6, <2>7, <3>1, Lists, Fields DEF Onward
  <2>9. PartiesKnown(Now')
    BY <1>1, <1>2, <2>5, <2>7, Fields DEF PartiesKnown, Grounded, Resolved
  <2>10. Extracted(Now')
    <3>1. ASSUME NEW k \in Candidates, Here(k, Now')
          PROVE  IF db'[k].from_corpus THEN k \in FromCorpus /\ corpus'.status = "extracted"
                 ELSE k \in FromUpload /\ upload' = "extracted"
      <4>1. CASE k \in DOMAIN contents
        <5>1. db'[k] = NewCandidate(contents[k], FALSE)  BY <2>3, <4>1
        <5>2. db'[k].from_corpus = FALSE  BY <5>1 DEF NewCandidate
        <5> QED  BY <1>9, <4>1, <5>2 DEF FromUpload
      <4>2. CASE k \notin DOMAIN contents
        <5>1. db'[k] = db[k]  BY <2>3, <4>2 DEF Rows
        <5>2. Here(k, Now)  BY <3>1, <5>1, Fields DEF Here
        <5> QED  BY <1>1, <1>2, <1>3, <5>1, <5>2, Fields DEF Extracted
      <4> QED  BY <4>1, <4>2
    <3> QED  BY <1>1, <1>2, <2>7, <3>1, Fields DEF Extracted
  <2>11. \A v \in Workers \ {w} : Noticed(request[v], Now, Now')  BY <2>5, ReadsRows, Fields DEF Noticed
  <2>12. ASSUME NEW k \in Candidates
         PROVE  \/ db'[k] = db[k]
                \/ db[k].status # "promoted" /\ db'[k].status # "promoted"
    <3>1. CASE k \in DOMAIN contents
      <4>1. db[k].status = "absent"  BY <2>2, <3>1, Fields DEF Here
      <4>2. db'[k] = NewCandidate(contents[k], FALSE)  BY <2>3, <3>1
      <4>3. db'[k].status = "pending_review"  BY <4>2 DEF NewCandidate
      <4> QED  BY <4>1, <4>3
    <3>2. CASE k \notin DOMAIN contents  BY <2>3, <3>2 DEF Rows
    <3> QED  BY <3>1, <3>2
  <2>13. Listed(approvals') /\ \A i \in 1..Len(approvals') : i \in 1..Len(approvals)  BY <1>1, Lists
  <2>14. /\ policies' = policies /\ orphans' = orphans /\ request' = [request EXCEPT ![w] = Idle]
         /\ request[w].stage # "mark" /\ Idle.stage # "mark"
    BY <1>1, <1>6
  <2> QED  BY <1>6, <1>7, <2>8, <2>9, <2>10, <2>11, <2>12, <2>13, <2>14, PlainInv
<1> QED  BY <1>8, <1>9 DEF ExtractUpload

-----------------------------------------------------------------------------
(* The reviewer's decisions.                                               *)

LEMMA ExistsHere == (\A x : Exists(x) <=> Here(x, Now)) /\ \A T : Existing(T) = {x \in T : Here(x, Now)}
BY Fields DEF Exists, Existing, Here

\* Whom a name is resolved to
LEMMA Matched ==
    ASSUME Inv, NEW n, NEW p \in match_resolved_principal_id(n)
    PROVE  /\ p # NONE => p \in Principals /\ Grounded(n, p, Now)
           /\ Resolved(n, Now) => p # NONE
<1> DEFINE S == {x \in Existing(Discoveries) : db[x].name = Strip[n] /\ db[x].resolved # NONE}
           found == {db[d].resolved : d \in S}
<1>1. p \in (IF found = {} THEN {NONE} ELSE found)  BY DEF match_resolved_principal_id
<1>2. S = {x \in Discoveries : Here(x, Now) /\ db[x].name = Strip[n] /\ db[x].resolved # NONE}  BY ExistsHere
<1>3. ASSUME p # NONE PROVE p \in Principals /\ Grounded(n, p, Now)
  <2>1. PICK d \in S : p = db[d].resolved  BY <1>1, <1>3
  <2>2. d \in Discoveries /\ Here(d, Now) /\ db[d].name = Strip[n] /\ db[d].resolved # NONE  BY <1>2, <2>1
  <2>3. db[d] \in AuthorityPrincipal  BY <2>2, Columns, Fields DEF Inv, Stored
  <2>4. p \in Principals  BY <1>3, <2>1, <2>3 DEF AuthorityPrincipal
  <2> QED  BY <2>1, <2>2, <2>4, Fields DEF Grounded, Resolved
<1>4. ASSUME Resolved(n, Now) PROVE p # NONE
  <2>1. PICK d \in Discoveries : Here(d, Now) /\ db[d].name = Strip[n] /\ db[d].resolved # NONE
    BY <1>4, Fields DEF Resolved
  <2>2. d \in S  BY <1>2, <2>1
  <2>3. found # {} /\ \A q \in found : q # NONE  BY <2>2
  <2> QED  BY <1>1, <2>3
<1> QED  BY <1>3, <1>4

LEMMA LoadInv ==
    ASSUME Inv, NEW w \in Workers, NEW x \in Rows, NEW out, Load(w, x, out),
           LoadedFine([stage |-> "loaded", reads |-> {x}, writes |-> out.writes], Now)
    PROVE  Inv'
<1> DEFINE r2 == [stage |-> "loaded", reads |-> {x}, writes |-> out.writes]
<1>1. /\ request[w] = Idle /\ request' = [request EXCEPT ![w] = r2]
      /\ UNCHANGED <<corpus, upload, db, conflicts, approvals, policies, disturbed, orphans>>
  BY DEF Load, Goto
<1>2. Fine(r2, Now)  BY DEF Fine
<1>3. request[w].stage = "idle"  BY <1>1 DEF Idle
<1>4. r2.stage = "loaded"  OBVIOUS
<1> HIDE DEF r2
<1> QED  BY <1>1, <1>2, <1>3, <1>4, QuietInv

\* A decision that is not refused writes one row.
LEMMA Decision ==
    ASSUME NEW x, NEW columns, NEW error, error # "ok"
    PROVE  /\ Raise(error).error # "ok"
           /\ Write(x, columns).writes = Row(x, columns)
BY DEF Raise, Write

LEMMA ReviewInv == ASSUME Inv, NEW w \in Workers, Review(w) PROVE Inv'
<1> DEFINE r2(x, out) == [stage |-> "loaded", reads |-> {x}, writes |-> out.writes]
<1>1. ASSUME NEW d \in Discoveries, NEW p \in Principals \cup Foreign, Load(w, d, resolve_principal(d, p)) PROVE Inv'
  <2> DEFINE out == resolve_principal(d, p)
  <2>1. Here(d, Now) /\ out.error = "ok"  BY <1>1, ExistsHere DEF Load
  <2>2. db[d].resolved = NONE /\ p \notin Foreign /\ out.writes = Row(d, [resolved |-> p])
    BY <2>1, Decision DEF resolve_principal
  <2>3. r2(d, out).reads = {d} /\ r2(d, out).writes = Row(d, [resolved |-> p])  BY <2>2
  <2>4. ResolvesDiscovery(r2(d, out), d, Now)  BY <2>2, <2>3, Fields DEF ResolvesDiscovery
  <2>5. d \in Rows  BY DEF Rows
  <2>6. LoadedFine(r2(d, out), Now)  BY <2>1, <2>3, <2>4, <2>5 DEF LoadedFine
  <2> QED  BY <1>1, <2>5, <2>6, LoadInv
<1>2. ASSUME NEW r \in Existing(Relationships), NEW f \in match_resolved_principal_id(db[r].from),
             NEW t \in match_resolved_principal_id(db[r].to), Load(w, r, resolve_relationship(r, f, t))
      PROVE  Inv'
  <2> DEFINE out == resolve_relationship(r, f, t)
  <2>1. r \in Relationships /\ Here(r, Now) /\ out.error = "ok"  BY <1>2, ExistsHere DEF Load
  <2>2. ~(f = NONE /\ t = NONE) /\ out.writes = Row(r, Parties(f, t))
    BY <2>1, Decision DEF resolve_relationship
  <2>3. r2(r, out).reads = {r} /\ r2(r, out).writes = Row(r, Parties(f, t))  BY <2>2
  <2>4. /\ f \in Principals \cup {NONE} /\ t \in Principals \cup {NONE}
        /\ f # NONE => Grounded(db[r].from, f, Now)
        /\ t # NONE => Grounded(db[r].to, t, Now)
    BY <1>2, Matched
  <2>5. ResolvesRelationship(r2(r, out), r, Now)
    BY <2>1, <2>2, <2>3, <2>4, Fields DEF ResolvesRelationship
  <2>6. r \in Rows  BY <2>1 DEF Rows
  <2>7. LoadedFine(r2(r, out), Now)  BY <2>1, <2>3, <2>5, <2>6 DEF LoadedFine
  <2> QED  BY <1>2, <2>6, <2>7, LoadInv
<1>3. ASSUME NEW r \in Existing(Relationships), Load(w, r, activate_relationship(r)) PROVE Inv'
  <2> DEFINE out == activate_relationship(r)
  <2>1. r \in Relationships /\ Here(r, Now) /\ out.error = "ok"  BY <1>3, ExistsHere DEF Load
  <2>2. db[r].from_id # NONE /\ db[r].to_id # NONE /\ out.writes = Row(r, [status |-> "active"])
    BY <2>1, Decision DEF activate_relationship
  <2>3. r2(r, out).reads = {r} /\ r2(r, out).writes = Row(r, [status |-> "active"])  BY <2>2
  <2>4. ActivatesRelationship(r2(r, out), r, Now)  BY <2>1, <2>2, <2>3, Fields DEF ActivatesRelationship
  <2>5. r \in Rows  BY <2>1 DEF Rows
  <2>6. LoadedFine(r2(r, out), Now)  BY <2>1, <2>3, <2>4, <2>5 DEF LoadedFine
  <2> QED  BY <1>3, <2>5, <2>6, LoadInv
<1>4. ASSUME NEW q \in Questions, Load(w, q, answer_question(q)) PROVE Inv'
  <2> DEFINE out == answer_question(q)
  <2>1. Here(q, Now)  BY <1>4, ExistsHere DEF Load
  <2>2. out.writes = Row(q, [status |-> "answered"])  BY Decision DEF answer_question, Write
  <2>3. r2(q, out).reads = {q} /\ r2(q, out).writes = Row(q, [status |-> "answered"])  BY <2>2
  <2>4. AnswersQuestion(r2(q, out), q)  BY <2>3 DEF AnswersQuestion
  <2>5. q \in Rows  BY DEF Rows
  <2>6. LoadedFine(r2(q, out), Now)  BY <2>1, <2>3, <2>4, <2>5 DEF LoadedFine
  <2> QED  BY <1>4, <2>5, <2>6, LoadInv
<1>5. ASSUME NEW k \in Existing(Candidates), Load(w, k, dismiss_candidate(k)) PROVE Inv'
  <2> DEFINE out == dismiss_candidate(k)
  <2>1. k \in Candidates /\ Here(k, Now) /\ out.error = "ok"  BY <1>5, ExistsHere DEF Load
  <2>2. db[k].status = "pending_review" /\ out.writes = Row(k, [status |-> "dismissed"])
    BY <2>1, Decision DEF dismiss_candidate
  <2>3. r2(k, out).reads = {k} /\ r2(k, out).writes = Row(k, [status |-> "dismissed"])  BY <2>2
  <2>4. DecidesCandidate(r2(k, out), k, Now)  BY <2>1, <2>2, <2>3, Fields DEF DecidesCandidate
  <2>5. k \in Rows  BY <2>1 DEF Rows
  <2>6. LoadedFine(r2(k, out), Now)  BY <2>1, <2>3, <2>4, <2>5 DEF LoadedFine
  <2> QED  BY <1>5, <2>5, <2>6, LoadInv
<1>6. ASSUME NEW k \in Existing(Candidates), NEW content \in Contents, Load(w, k, edit_candidate(k, content)) PROVE Inv'
  <2> DEFINE out == edit_candidate(k, content)
  <2>1. k \in Candidates /\ Here(k, Now) /\ out.error = "ok"  BY <1>6, ExistsHere DEF Load
  <2>2. db[k].status = "pending_review" /\ out.writes = Row(k, [content |-> content])
    BY <2>1, Decision DEF edit_candidate
  <2>3. r2(k, out).reads = {k} /\ r2(k, out).writes = Row(k, [content |-> content])  BY <2>2
  <2>4. content \in Content  BY ConstantsAssumption
  <2>5. DecidesCandidate(r2(k, out), k, Now)  BY <2>1, <2>2, <2>3, <2>4, Fields DEF DecidesCandidate
  <2>6. k \in Rows  BY <2>1 DEF Rows
  <2>7. LoadedFine(r2(k, out), Now)  BY <2>1, <2>3, <2>5, <2>6 DEF LoadedFine
  <2> QED  BY <1>6, <2>6, <2>7, LoadInv
<1> QED  BY <1>1, <1>2, <1>3, <1>4, <1>5, <1>6 DEF Review

\* The columns are set, of whatever is in the row now; whoever else has read
\* the row is disturbed.
LEMMA Applied ==
    ASSUME NEW w, NEW x \in Rows, NEW columns, Apply(w, Row(x, columns))
    PROVE  /\ db'[x] = Merge(db[x], columns) /\ \A y \in Rows \ {x} : db'[y] = db[y]
           /\ disturbed \subseteq disturbed' /\ disturbed' \subseteq disturbed \cup {x}
           /\ x \notin disturbed' => \A v \in Workers \ {w} :
                 request[v].stage \in {"loaded", "snapshot", "policy", "mark"} => x \notin request[v].reads
<1> DEFINE writes == Row(x, columns)
<1>1. DOMAIN writes = {x} /\ writes[x] = columns  BY DEF Row
<1> HIDE DEF writes
<1>2. /\ db' = [y \in Rows |-> IF y \in DOMAIN writes THEN Merge(db[y], writes[y]) ELSE db[y]]
      /\ disturbed' = disturbed \cup
            {y \in DOMAIN writes : \E v \in Workers \ {w} :
                request[v].stage \in {"loaded", "snapshot", "policy", "mark"} /\ y \in request[v].reads}
  BY DEF Apply, writes
<1> QED  BY <1>1, <1>2

LEMMA Merged ==
    ASSUME NEW row, NEW columns, NEW D, NEW E, DOMAIN row = D, DOMAIN columns = E, E \subseteq D
    PROVE  Merge(row, columns) = [f \in D |-> IF f \in E THEN columns[f] ELSE row[f]]
<1>1. D \cup E = D  OBVIOUS
<1> QED  BY <1>1 DEF Merge

LEMMA MergedPerson ==
    ASSUME NEW row \in AuthorityPrincipal, NEW p \in Principals
    PROVE  Merge(row, [resolved |-> p]) = [status |-> row.status, name |-> row.name, resolved |-> p]
<1> DEFINE m == Merge(row, [resolved |-> p])
<1>1. DOMAIN row = {"status", "name", "resolved"}  BY DEF AuthorityPrincipal
<1>2. m = [f \in {"status", "name", "resolved"} |-> IF f \in {"resolved"} THEN [resolved |-> p][f] ELSE row[f]]
  <2>1. DOMAIN [resolved |-> p] = {"resolved"}  OBVIOUS
  <2> QED  BY <1>1, <2>1, Merged
<1> HIDE DEF m
<1>3. m = [status |-> row.status, name |-> row.name, resolved |-> p]  BY <1>2
<1> QED  BY <1>3 DEF m

LEMMA MergedEdge ==
    ASSUME NEW row \in AuthorityRelationship
    PROVE  Merge(row, [status |-> "active"]) = [row EXCEPT !.status = "active"]
<1> DEFINE cols == {"status", "kind", "from", "to", "from_id", "to_id"}
<1>1. DOMAIN row = cols /\ row = [f \in cols |-> row[f]]  BY DEF AuthorityRelationship
<1>2. Merge(row, [status |-> "active"]) = [row EXCEPT !.status = "active"]
  <2> DEFINE m == Merge(row, [status |-> "active"])
  <2>1. m = [f \in cols |-> IF f \in {"status"} THEN [status |-> "active"][f] ELSE row[f]]
    <3>1. DOMAIN [status |-> "active"] = {"status"} /\ {"status"} \subseteq cols  OBVIOUS
    <3> QED  BY <1>1, <3>1, Merged
  <2> HIDE DEF m
  <2>2. m = [row EXCEPT !.status = "active"]  BY <1>1, <2>1
  <2> QED  BY <2>2 DEF m
<1> QED  BY <1>2

LEMMA MergedParties ==
    ASSUME NEW row \in AuthorityRelationship, NEW f \in Principals \cup {NONE}, NEW t \in Principals \cup {NONE},
           ~(f = NONE /\ t = NONE)
    PROVE  LET m == Merge(row, Parties(f, t))
           IN  /\ m \in AuthorityRelationship /\ m.kind = row.kind /\ m.from = row.from /\ m.to = row.to
               /\ m.status = row.status
               /\ m.from_id = (IF f = NONE THEN row.from_id ELSE f)
               /\ m.to_id = (IF t = NONE THEN row.to_id ELSE t)
<1> DEFINE cols == {"status", "kind", "from", "to", "from_id", "to_id"}
<1>0. DOMAIN row = cols /\ row = [c \in cols |-> row[c]]  BY DEF AuthorityRelationship
<1> DEFINE m == Merge(row, Parties(f, t))
<1> DEFINE E == {c \in {"from_id", "to_id"} : (c = "from_id" => f # NONE) /\ (c = "to_id" => t # NONE)}
<1>1. /\ DOMAIN Parties(f, t) = E
      /\ f # NONE => Parties(f, t)["from_id"] = f
      /\ t # NONE => Parties(f, t)["to_id"] = t
  BY DEF Parties
<1>2. E \subseteq cols  OBVIOUS
<1>3. /\ "from_id" \in E <=> f # NONE
      /\ "to_id" \in E <=> t # NONE
      /\ \A c \in cols \ {"from_id", "to_id"} : c \notin E
  OBVIOUS
<1> HIDE DEF E
<1>4. m = [c \in cols |-> IF c \in E THEN Parties(f, t)[c] ELSE row[c]]  BY <1>0, <1>1, <1>2, Merged
<1> HIDE DEF m
<1>5. /\ m = [c \in cols |-> m[c]] /\ m.kind = row.kind /\ m.from = row.from /\ m.to = row.to
      /\ m.status = row.status
      /\ m.from_id = (IF f = NONE THEN row.from_id ELSE f)
      /\ m.to_id = (IF t = NONE THEN row.to_id ELSE t)
  BY <1>1, <1>3, <1>4
<1>6. m \in AuthorityRelationship  BY <1>5 DEF AuthorityRelationship
<1> QED  BY <1>5, <1>6 DEF m

LEMMA MergedCandidate ==
    ASSUME NEW row \in PolicyExtractionCandidate
    PROVE  /\ \A s : Merge(row, [status |-> s]) = [row EXCEPT !.status = s]
           /\ \A c : Merge(row, [content |-> c]) = [row EXCEPT !.content = c]
<1> DEFINE cols == {"status", "content", "from_corpus", "policy"}
<1>1. DOMAIN row = cols /\ row = [f \in cols |-> row[f]]  BY DEF PolicyExtractionCandidate
<1>2. ASSUME NEW s PROVE Merge(row, [status |-> s]) = [row EXCEPT !.status = s]
  <2> DEFINE m == Merge(row, [status |-> s])
  <2>1. m = [f \in cols |-> IF f \in {"status"} THEN [status |-> s][f] ELSE row[f]]
    <3>1. DOMAIN [status |-> s] = {"status"} /\ {"status"} \subseteq cols  OBVIOUS
    <3> QED  BY <1>1, <3>1, Merged
  <2> HIDE DEF m
  <2>2. m = [row EXCEPT !.status = s]  BY <1>1, <2>1
  <2> QED  BY <2>2 DEF m
<1>3. ASSUME NEW c PROVE Merge(row, [content |-> c]) = [row EXCEPT !.content = c]
  <2> DEFINE m == Merge(row, [content |-> c])
  <2>1. m = [f \in cols |-> IF f \in {"content"} THEN [content |-> c][f] ELSE row[f]]
    <3>1. DOMAIN [content |-> c] = {"content"} /\ {"content"} \subseteq cols  OBVIOUS
    <3> QED  BY <1>1, <3>1, Merged
  <2> HIDE DEF m
  <2>2. m = [row EXCEPT !.content = c]  BY <1>1, <2>1
  <2> QED  BY <2>2 DEF m
<1> QED  BY <1>2, <1>3

LEMMA MergedPromotion ==
    ASSUME NEW row \in PolicyExtractionCandidate, NEW s \in {"promoted"}, NEW p \in Nat
    PROVE  LET m == Merge(row, [status |-> s, policy |-> p])
           IN  /\ m.status = s /\ m.policy = p /\ m.content = row.content /\ m.from_corpus = row.from_corpus
               /\ m \in PolicyExtractionCandidate
<1> DEFINE cols == {"status", "content", "from_corpus", "policy"}
<1>0. DOMAIN row = cols /\ row = [f \in cols |-> row[f]]  BY DEF PolicyExtractionCandidate
<1> DEFINE m == Merge(row, [status |-> s, policy |-> p])
<1>1. m = [f \in cols |-> IF f \in {"status", "policy"} THEN [status |-> s, policy |-> p][f] ELSE row[f]]
  <2>1. DOMAIN [status |-> s, policy |-> p] = {"status", "policy"} /\ {"status", "policy"} \subseteq cols  OBVIOUS
  <2> QED  BY <1>0, <2>1, Merged
<1> HIDE DEF m
<1>4. /\ m["status"] = s /\ m["policy"] = p
      /\ m["content"] = row["content"] /\ m["from_corpus"] = row["from_corpus"]
  BY <1>1
<1>5. m = [f \in cols |-> m[f]]  BY <1>1
<1>2. /\ m.status = s /\ m.policy = p /\ m.content = row.content /\ m.from_corpus = row.from_corpus
      /\ m \in PolicyExtractionCandidate
  BY <1>0, <1>4, <1>5 DEF PolicyExtractionCandidate
<1> QED  BY <1>2 DEF m

\* The row x is written, and moves onward.
RowOnward(x, a, b, ov) ==
    /\ x \in Discoveries =>
          /\ b \in AuthorityPrincipal /\ b.name = a.name /\ b.resolved # NONE
          /\ a.resolved = NONE \/ x \in ov
    /\ x \in Relationships =>
          /\ b \in AuthorityRelationship /\ b.kind = a.kind /\ b.from = a.from /\ b.to = a.to
          /\ a.from_id # NONE => b.from_id # NONE
          /\ a.to_id # NONE => b.to_id # NONE
          /\ a.status = "active" => b.status = "active"
    /\ x \in Candidates => b \in PolicyExtractionCandidate /\ b.from_corpus = a.from_corpus
    /\ x \in Questions => b \in AuthorityQuestion

\* It also stays known whose relationship it is, and a candidate that is left
\* pending or dismissed was.
RowSound(x, a, b, g) ==
    /\ x \in Relationships =>
          /\ b.from_id = a.from_id \/ Grounded(a.from, b.from_id, g)
          /\ b.to_id = a.to_id \/ Grounded(a.to, b.to_id, g)
          /\ b.status = "active" => a.status = "active" \/ (a.from_id # NONE /\ a.to_id # NONE)
    /\ x \in Candidates /\ x \notin g.disturbed => a.status # "promoted" /\ b.status # "promoted"

LEMMA OneRow ==
    ASSUME Inv, NEW w \in Workers, NEW x \in Rows, Here(x, Now), NEW columns, Apply(w, Row(x, columns)),
           RowOnward(x, db[x], db'[x], disturbed'),
           Listed(policies'), Len(policies) <= Len(policies'), \A i \in 1..Len(policies) : policies'[i] = policies[i],
           UNCHANGED <<corpus, upload, conflicts, approvals>>
    PROVE  /\ Onward(Now, Now') /\ Extracted(Now')
           /\ \A v \in Workers \ {w} : Noticed(request[v], Now, Now')
<1>1. /\ Extracted(Now) /\ RowsTyped(Now)  BY DEF Inv, Stored
<1>2. /\ \A y \in Rows \ {x} : db'[y] = db[y]
      /\ disturbed \subseteq disturbed'
      /\ x \notin disturbed' => \A v \in Workers \ {w} :
            request[v].stage \in {"loaded", "snapshot", "policy", "mark"} => x \notin request[v].reads
  BY Applied
<1>3. RowsTyped(Now')
  <2>1. \A d \in Discoveries : db'[d] = Absent \/ db'[d] \in AuthorityPrincipal
    BY <1>1, <1>2, Fields DEF RowsTyped, RowOnward, Rows
  <2>2. \A r \in Relationships : db'[r] = Absent \/ db'[r] \in AuthorityRelationship
    BY <1>1, <1>2, Fields DEF RowsTyped, RowOnward, Rows
  <2>3. \A k \in Candidates : db'[k] = Absent \/ db'[k] \in PolicyExtractionCandidate
    BY <1>1, <1>2, Fields DEF RowsTyped, RowOnward, Rows
  <2>4. \A q \in Questions : db'[q] = Absent \/ db'[q] \in AuthorityQuestion
    BY <1>1, <1>2, Fields DEF RowsTyped, RowOnward, Rows
  <2> QED  BY <2>1, <2>2, <2>3, <2>4, Fields DEF RowsTyped
<1>4. Here(x, Now')
  <2>1. x \in Discoveries => Here(x, Now')  BY Fields DEF RowOnward, Here, AuthorityPrincipal
  <2>2. x \in Relationships => Here(x, Now')  BY Fields DEF RowOnward, Here, AuthorityRelationship
  <2>3. x \in Candidates => Here(x, Now')  BY Fields DEF RowOnward, Here, PolicyExtractionCandidate
  <2>4. x \in Questions => Here(x, Now')  BY Fields DEF RowOnward, Here, AuthorityQuestion
  <2> QED  BY <2>1, <2>2, <2>3, <2>4 DEF Rows
<1>5. \A y \in Rows : Here(y, Now') <=> Here(y, Now)
  <2>1. \A y \in Rows \ {x} : Here(y, Now') <=> Here(y, Now)  BY <1>2, Fields DEF Here
  <2> QED  BY <1>4, <2>1
<1>6. \A d \in Discoveries : Here(d, Now) =>
          /\ db'[d].name = db[d].name
          /\ db[d].resolved # NONE => db'[d].resolved # NONE
          /\ db'[d].resolved = db[d].resolved \/ db[d].resolved = NONE \/ d \in disturbed'
  BY <1>2 DEF RowOnward, Rows
<1>7. \A r \in Relationships : Here(r, Now) =>
          /\ db'[r].kind = db[r].kind /\ db'[r].from = db[r].from /\ db'[r].to = db[r].to
          /\ db[r].from_id # NONE => db'[r].from_id # NONE
          /\ db[r].to_id # NONE => db'[r].to_id # NONE
          /\ db[r].status = "active" => db'[r].status = "active"
  BY <1>2 DEF RowOnward, Rows
<1>8. Len(policies') \in Nat  BY Appending
<1>9. corpus.documents \in Nat  BY <1>1, Fields DEF Extracted
<1>10. \A y \in Discoveries \cup Relationships \cup Questions \cup Candidates : y \in Rows  BY DEF Rows
<1>11. Onward(Now, Now')
  BY <1>1, <1>2, <1>3, <1>5, <1>6, <1>7, <1>8, <1>9, <1>10, Lists, Fields DEF Onward
<1>12. \A k \in Candidates : Here(k, Now) => db'[k].from_corpus = db[k].from_corpus
  BY <1>2 DEF RowOnward, Rows
<1>13. Extracted(Now')  BY <1>1, <1>5, <1>10, <1>12, Fields DEF Extracted
<1>14. \A v \in Workers \ {w} : Noticed(request[v], Now, Now')  BY <1>2, ReadsRows, Fields DEF Noticed
<1> QED  BY <1>11, <1>13, <1>14

\* The parties of the other relationships are still known.
LEMMA PartiesKept ==
    ASSUME NEW g, NEW g2, Onward(g, g2), PartiesKnown(g),
           \A r \in Relationships : Here(r, g2) => \/ Here(r, g) /\ g2.db[r] = g.db[r]
                                                   \/ /\ g2.db[r].from_id # NONE => Grounded(g2.db[r].from, g2.db[r].from_id, g2)
                                                      /\ g2.db[r].to_id # NONE => Grounded(g2.db[r].to, g2.db[r].to_id, g2)
                                                      /\ g2.db[r].status = "active" => g2.db[r].from_id # NONE /\ g2.db[r].to_id # NONE
    PROVE  PartiesKnown(g2)
<1> SUFFICES ASSUME NEW r \in Relationships, Here(r, g2)
             PROVE  /\ g2.db[r].from_id # NONE => Grounded(g2.db[r].from, g2.db[r].from_id, g2)
                    /\ g2.db[r].to_id # NONE => Grounded(g2.db[r].to, g2.db[r].to_id, g2)
                    /\ g2.db[r].status = "active" => g2.db[r].from_id # NONE /\ g2.db[r].to_id # NONE
  BY DEF PartiesKnown
<1>1. CASE Here(r, g) /\ g2.db[r] = g.db[r]
  <2>1. /\ g.db[r].from_id # NONE => Grounded(g.db[r].from, g.db[r].from_id, g)
        /\ g.db[r].to_id # NONE => Grounded(g.db[r].to, g.db[r].to_id, g)
        /\ g.db[r].status = "active" => g.db[r].from_id # NONE /\ g.db[r].to_id # NONE
    BY <1>1 DEF PartiesKnown
  <2>2. g.db[r].from_id # NONE => Grounded(g.db[r].from, g.db[r].from_id, g2)  BY <2>1, GroundedKept
  <2>3. g.db[r].to_id # NONE => Grounded(g.db[r].to, g.db[r].to_id, g2)  BY <2>1, GroundedKept
  <2> QED  BY <1>1, <2>1, <2>2, <2>3
<1> QED  BY <1>1

\* A request that has read x, and how it leaves the row
LEMMA CommittedRow ==
    ASSUME NEW g, RowsTyped(g), NEW r, NEW x \in Rows, Here(x, g),
           ResolvesDiscovery(r, x, g) \/ ActivatesRelationship(r, x, g)
               \/ ResolvesRelationship(r, x, g) \/ AnswersQuestion(r, x) \/ DecidesCandidate(r, x, g)
    PROVE  \E columns :
             /\ r.writes = Row(x, columns)
             /\ RowOnward(x, g.db[x], Merge(g.db[x], columns), g.disturbed)
             /\ RowSound(x, g.db[x], Merge(g.db[x], columns), g)
<1>0. NONE \notin Principals  BY ConstantsAssumption
<1>1. CASE ResolvesDiscovery(r, x, g)
  <2>1. PICK p \in Principals : r.writes = Row(x, [resolved |-> p])  BY <1>1 DEF ResolvesDiscovery
  <2>2. x \in Discoveries /\ (x \notin g.disturbed => g.db[x].resolved = NONE)  BY <1>1 DEF ResolvesDiscovery
  <2>3. g.db[x] \in AuthorityPrincipal  BY <2>2, Columns
  <2> DEFINE m == Merge(g.db[x], [resolved |-> p])
  <2>4. m = [status |-> g.db[x].status, name |-> g.db[x].name, resolved |-> p]  BY <2>3, MergedPerson
  <2> HIDE DEF m
  <2>5. m \in AuthorityPrincipal /\ m.name = g.db[x].name /\ m.resolved = p  BY <2>3, <2>4 DEF AuthorityPrincipal
  <2>6. x \notin Relationships /\ x \notin Candidates /\ x \notin Questions  BY <2>2, Disjoint
  <2>7. RowOnward(x, g.db[x], m, g.disturbed)  BY <1>0, <2>2, <2>5, <2>6 DEF RowOnward
  <2>8. RowSound(x, g.db[x], m, g)  BY <2>6 DEF RowSound
  <2> QED  BY <2>1, <2>7, <2>8 DEF m
<1>2. CASE ActivatesRelationship(r, x, g)
  <2>1. x \in Relationships /\ r.writes = Row(x, [status |-> "active"])  BY <1>2 DEF ActivatesRelationship
  <2>2. g.db[x] \in AuthorityRelationship  BY <2>1, Columns
  <2> DEFINE m == Merge(g.db[x], [status |-> "active"])
  <2>3. m = [g.db[x] EXCEPT !.status = "active"]  BY <2>2, MergedEdge
  <2> HIDE DEF m
  <2>4. /\ m \in AuthorityRelationship /\ m.kind = g.db[x].kind /\ m.from = g.db[x].from /\ m.to = g.db[x].to
        /\ m.from_id = g.db[x].from_id /\ m.to_id = g.db[x].to_id /\ m.status = "active"
    BY <2>2, <2>3 DEF AuthorityRelationship
  <2>5. x \notin Discoveries /\ x \notin Candidates /\ x \notin Questions  BY <2>1, Disjoint
  <2>6. RowOnward(x, g.db[x], m, g.disturbed)  BY <2>4, <2>5 DEF RowOnward
  <2>7. RowSound(x, g.db[x], m, g)  BY <1>2, <2>4, <2>5 DEF RowSound, ActivatesRelationship
  <2> QED  BY <2>1, <2>6, <2>7 DEF m
<1>3. CASE ResolvesRelationship(r, x, g)
  <2>1. x \in Relationships  BY <1>3 DEF ResolvesRelationship
  <2>2. PICK f \in Principals \cup {NONE}, t \in Principals \cup {NONE} :
            /\ r.writes = Row(x, Parties(f, t)) /\ ~(f = NONE /\ t = NONE)
            /\ f # NONE => Grounded(g.db[x].from, f, g)
            /\ t # NONE => Grounded(g.db[x].to, t, g)
    BY <1>3 DEF ResolvesRelationship
  <2>3. g.db[x] \in AuthorityRelationship  BY <2>1, Columns
  <2> DEFINE m == Merge(g.db[x], Parties(f, t))
  <2>4. /\ m \in AuthorityRelationship /\ m.kind = g.db[x].kind /\ m.from = g.db[x].from /\ m.to = g.db[x].to
        /\ m.status = g.db[x].status
        /\ m.from_id = (IF f = NONE THEN g.db[x].from_id ELSE f)
        /\ m.to_id = (IF t = NONE THEN g.db[x].to_id ELSE t)
    BY <2>2, <2>3, MergedParties
  <2> HIDE DEF m
  <2>5. /\ g.db[x].from_id # NONE => m.from_id # NONE
        /\ g.db[x].to_id # NONE => m.to_id # NONE
    BY <2>4
  <2>6. x \notin Discoveries /\ x \notin Candidates /\ x \notin Questions  BY <2>1, Disjoint
  <2>7. RowOnward(x, g.db[x], m, g.disturbed)  BY <2>4, <2>5, <2>6 DEF RowOnward
  <2>8. RowSound(x, g.db[x], m, g)  BY <2>2, <2>4, <2>6 DEF RowSound
  <2> QED  BY <2>2, <2>7, <2>8 DEF m
<1>4. CASE AnswersQuestion(r, x)
  <2>1. x \in Questions /\ r.writes = Row(x, [status |-> "answered"])  BY <1>4 DEF AnswersQuestion
  <2>2. g.db[x] \in AuthorityQuestion  BY <2>1, Columns
  <2> DEFINE m == Merge(g.db[x], [status |-> "answered"])
  <2>3. m \in AuthorityQuestion
    <3>1. DOMAIN g.db[x] = {"status"} /\ DOMAIN [status |-> "answered"] = {"status"}  BY <2>2 DEF AuthorityQuestion
    <3>2. m = [f \in {"status"} |-> IF f \in {"status"} THEN [status |-> "answered"][f] ELSE g.db[x][f]]
      BY <3>1, Merged
    <3> HIDE DEF m
    <3> QED  BY <3>2 DEF AuthorityQuestion
  <2> HIDE DEF m
  <2>4. x \notin Discoveries /\ x \notin Candidates /\ x \notin Relationships  BY <2>1, Disjoint
  <2>5. RowOnward(x, g.db[x], m, g.disturbed)  BY <2>3, <2>4 DEF RowOnward
  <2>6. RowSound(x, g.db[x], m, g)  BY <2>4 DEF RowSound
  <2> QED  BY <2>1, <2>5, <2>6 DEF m
<1>5. CASE DecidesCandidate(r, x, g)
  <2>1. x \in Candidates  BY <1>5 DEF DecidesCandidate
  <2>2. g.db[x] \in PolicyExtractionCandidate  BY <2>1, Columns
  <2>3. x \notin Discoveries /\ x \notin Questions /\ x \notin Relationships  BY <2>1, Disjoint
  <2>4. CASE r.writes = Row(x, [status |-> "dismissed"])
    <3> DEFINE m == Merge(g.db[x], [status |-> "dismissed"])
    <3>1. m = [g.db[x] EXCEPT !.status = "dismissed"]  BY <2>2, MergedCandidate
    <3> HIDE DEF m
    <3>2. m \in PolicyExtractionCandidate /\ m.from_corpus = g.db[x].from_corpus /\ m.status = "dismissed"
      BY <2>2, <3>1 DEF PolicyExtractionCandidate
    <3>3. RowOnward(x, g.db[x], m, g.disturbed)  BY <2>3, <3>2 DEF RowOnward
    <3>4. RowSound(x, g.db[x], m, g)  BY <1>5, <2>3, <3>2 DEF RowSound, DecidesCandidate
    <3> QED  BY <2>4, <3>3, <3>4 DEF m
  <2>5. ASSUME NEW content \in Content, r.writes = Row(x, [content |-> content])
        PROVE  \E columns : /\ r.writes = Row(x, columns)
                            /\ RowOnward(x, g.db[x], Merge(g.db[x], columns), g.disturbed)
                            /\ RowSound(x, g.db[x], Merge(g.db[x], columns), g)
    <3> DEFINE m == Merge(g.db[x], [content |-> content])
    <3>1. m = [g.db[x] EXCEPT !.content = content]  BY <2>2, MergedCandidate
    <3> HIDE DEF m
    <3>2. m \in PolicyExtractionCandidate /\ m.from_corpus = g.db[x].from_corpus /\ m.status = g.db[x].status
      BY <2>2, <3>1 DEF PolicyExtractionCandidate
    <3>3. RowOnward(x, g.db[x], m, g.disturbed)  BY <2>3, <3>2 DEF RowOnward
    <3>4. RowSound(x, g.db[x], m, g)  BY <1>5, <2>3, <3>2 DEF RowSound, DecidesCandidate
    <3> QED  BY <2>5, <3>3, <3>4 DEF m
  <2> QED  BY <1>5, <2>4, <2>5 DEF DecidesCandidate
<1> QED  BY <1>1, <1>2, <1>3, <1>4, <1>5

LEMMA CommitInv == ASSUME Inv, NEW w \in Workers, Commit(w) PROVE Inv'
<1>1. /\ request[w].stage = "loaded" /\ Apply(w, request[w].writes) /\ request' = [request EXCEPT ![w] = Idle]
      /\ UNCHANGED <<corpus, upload, conflicts, approvals, policies, orphans>>
  BY DEF Commit, Answer
<1>2. /\ RowsTyped(Now) /\ PartiesKnown(Now) /\ Extracting(request, Now) /\ Fine(request[w], Now)
      /\ request = [v \in Workers |-> request[v]]
  BY DEF Inv, Stored, Requests
<1>3. LoadedFine(request[w], Now)  BY <1>1, <1>2 DEF Fine, Idle
<1>4. PICK x \in Rows :
          /\ request[w].reads = {x} /\ Here(x, Now)
          /\ \/ ResolvesDiscovery(request[w], x, Now) \/ ActivatesRelationship(request[w], x, Now)
             \/ ResolvesRelationship(request[w], x, Now) \/ AnswersQuestion(request[w], x)
             \/ DecidesCandidate(request[w], x, Now)
  BY <1>3 DEF LoadedFine
<1>5. PICK columns :
          /\ request[w].writes = Row(x, columns)
          /\ RowOnward(x, db[x], Merge(db[x], columns), disturbed)
          /\ RowSound(x, db[x], Merge(db[x], columns), Now)
  BY <1>2, <1>4, CommittedRow, Fields
<1>6. Apply(w, Row(x, columns))  BY <1>1, <1>5
<1>7. /\ db'[x] = Merge(db[x], columns) /\ \A y \in Rows \ {x} : db'[y] = db[y]
      /\ disturbed \subseteq disturbed'
  BY <1>6, Applied
<1>8. RowOnward(x, db[x], db'[x], disturbed') /\ RowSound(x, db[x], db'[x], Now)
  BY <1>5, <1>7 DEF RowOnward
<1>9. Listed(policies') /\ Len(policies) <= Len(policies') /\ \A i \in 1..Len(policies) : policies'[i] = policies[i]
  BY <1>1, Lists
<1>10. Onward(Now, Now') /\ Extracted(Now') /\ \A v \in Workers \ {w} : Noticed(request[v], Now, Now')
  BY <1>1, <1>4, <1>6, <1>8, <1>9, OneRow
<1>11. PartiesKnown(Now')
  <2>1. ASSUME NEW r \in Relationships, Here(r, Now'), r = x
        PROVE  /\ db'[r].from_id # NONE => Grounded(db'[r].from, db'[r].from_id, Now')
               /\ db'[r].to_id # NONE => Grounded(db'[r].to, db'[r].to_id, Now')
               /\ db'[r].status = "active" => db'[r].from_id # NONE /\ db'[r].to_id # NONE
    <3>1. /\ db'[r].from = db[r].from /\ db'[r].to = db[r].to
          /\ db[r].from_id # NONE => db'[r].from_id # NONE
          /\ db[r].to_id # NONE => db'[r].to_id # NONE
      BY <1>8, <2>1 DEF RowOnward
    <3>2. /\ db'[r].from_id = db[r].from_id \/ Grounded(db[r].from, db'[r].from_id, Now)
          /\ db'[r].to_id = db[r].to_id \/ Grounded(db[r].to, db'[r].to_id, Now)
          /\ db'[r].status = "active" => db[r].status = "active" \/ (db[r].from_id # NONE /\ db[r].to_id # NONE)
      BY <1>8, <2>1 DEF RowSound
    <3>3. /\ db[r].from_id # NONE => Grounded(db[r].from, db[r].from_id, Now)
          /\ db[r].to_id # NONE => Grounded(db[r].to, db[r].to_id, Now)
          /\ db[r].status = "active" => db[r].from_id # NONE /\ db[r].to_id # NONE
      BY <1>2, <1>4, <2>1, Fields DEF PartiesKnown
    <3>4. db'[r].from_id # NONE => Grounded(db[r].from, db'[r].from_id, Now)  BY <3>2, <3>3
    <3>5. db'[r].to_id # NONE => Grounded(db[r].to, db'[r].to_id, Now)  BY <3>2, <3>3
    <3>6. db'[r].from_id # NONE => Grounded(db[r].from, db'[r].from_id, Now')  BY <1>10, <3>4, GroundedKept
    <3>7. db'[r].to_id # NONE => Grounded(db[r].to, db'[r].to_id, Now')  BY <1>10, <3>5, GroundedKept
    <3> QED  BY <3>1, <3>2, <3>3, <3>6, <3>7
  <2>2. ASSUME NEW r \in Relationships, Here(r, Now'), r # x PROVE Here(r, Now) /\ db'[r] = db[r]
    <3>1. db'[r] = db[r]  BY <1>7, <2>2 DEF Rows
    <3> QED  BY <2>2, <3>1, Fields DEF Here
  <2> QED  BY <1>2, <1>10, <2>1, <2>2, PartiesKept, Fields
<1>12. Idle.stage = "idle" /\ Fine(Idle, Now')  BY DEF Idle, Fine
<1>13. \A v \in Workers : request'[v] = IF v = w THEN Idle ELSE request[v]  BY <1>1, <1>2
<1>14. Extracting(request', Now')  BY <1>1, <1>2, <1>12, <1>13, Fields DEF Extracting
<1>15. ASSUME NEW k \in Candidates, k \notin disturbed'
       PROVE  \/ db'[k] = db[k]
              \/ db[k].status # "promoted" /\ db'[k].status # "promoted"
  <2>1. CASE k = x  BY <1>7, <1>8, <1>15, <2>1, Fields DEF RowSound
  <2>2. CASE k # x  BY <1>7, <2>2 DEF Rows
  <2> QED  BY <2>1, <2>2
<1>16. Listed(approvals') /\ \A i \in 1..Len(approvals') : i \in 1..Len(approvals)  BY <1>1, Lists
<1>17. policies' = policies /\ orphans' = orphans /\ request' = [request EXCEPT ![w] = Idle] /\ request[w].stage # "mark" /\ Idle.stage # "mark"
  BY <1>1, <1>12
<1> QED  BY <1>10, <1>11, <1>12, <1>14, <1>15, <1>16, <1>17, PlainInv

-----------------------------------------------------------------------------
(* approve_graph.                                                          *)

\* The versions are the positions, so the latest approval is the last.
LEMMA LatestIsLast ==
    ASSUME Inv
    PROVE  get_latest_approval_for_corpus = Len(approvals)
<1>1. Len(approvals) \in Nat /\ Listed(approvals) /\ DOMAIN approvals = 1..Len(approvals)  BY Lists
<1>2. \A i \in 1..Len(approvals) : approvals[i].version = i
  BY Fields DEF Inv, Stored, Approvals, ApprovalFine
<1>3. approvals = << >> <=> Len(approvals) = 0
  <2>1. PICK S : approvals \in Seq(S)  BY <1>1 DEF Listed
  <2> QED  BY <2>1, EmptySeq
<1> DEFINE highest == {i \in DOMAIN approvals : \A j \in DOMAIN approvals : approvals[j].version <= approvals[i].version}
<1>4. ASSUME Len(approvals) # 0 PROVE highest = {Len(approvals)}
  <2>1. Len(approvals) \in 1..Len(approvals)  BY <1>1, <1>4
  <2>2. \A i \in highest : i = Len(approvals)  BY <1>1, <1>2, <2>1
  <2>3. Len(approvals) \in highest  BY <1>1, <1>2, <2>1
  <2> QED  BY <2>2, <2>3
<1> HIDE DEF highest
<1>5. get_latest_approval_for_corpus = IF approvals = << >> THEN 0 ELSE CHOOSE i \in highest : TRUE
  BY DEF get_latest_approval_for_corpus, highest
<1> QED  BY <1>1, <1>3, <1>4, <1>5

\* An attempt that has read nothing yet
LEMMA AttemptFine ==
    ASSUME Inv, NEW n \in Nat
    PROVE  Fine(Attempt(n), Now) /\ Attempt(n).stage = "snapshot"
<1> DEFINE r == Attempt(n)
<1>1. Len(approvals) \in Nat  BY Lists
<1>2. VersionAfter(Len(approvals)) = Len(approvals) + 1
  <2>1. Len(approvals) # 0 => approvals[Len(approvals)].version = Len(approvals)
    BY <1>1, Fields DEF Inv, Stored, Approvals, ApprovalFine
  <2> QED  BY <1>1, <2>1 DEF VersionAfter
<1>3. /\ DOMAIN r = {"stage", "attempt", "latest", "version", "snapshot", "reads"} /\ r.stage = "snapshot"
      /\ r.attempt = n /\ r.latest = Len(approvals) /\ r.version = Len(approvals) + 1
      /\ r.snapshot = << >> /\ r.reads = Discoveries \cup Relationships
  BY <1>2, LatestIsLast DEF Attempt
<1>4. DOMAIN << >> = {}  OBVIOUS
<1> HIDE DEF r
<1>5. SnapshotFine(r.snapshot, Now)  BY <1>3, <1>4 DEF SnapshotFine, Behind
<1>6. Watches(r.snapshot, Now)  BY <1>3, <1>4 DEF Watches
<1>7. \A s : Behind(DOMAIN r.snapshot, s, r.snapshot, disturbed)  BY <1>3, <1>4 DEF Behind
<1>8. ApprovingFine(r, Now)  BY <1>1, <1>3, <1>5, <1>6, <1>7, Fields DEF ApprovingFine
<1> QED  BY <1>3, <1>8 DEF Fine, r

LEMMA ApproveGraphInv == ASSUME Inv, NEW w \in Workers, approve_graph(w) PROVE Inv'
<1>1. /\ request[w] = Idle /\ request' = [request EXCEPT ![w] = Attempt(1)]
      /\ UNCHANGED <<corpus, upload, db, conflicts, approvals, policies, disturbed, orphans>>
  BY DEF approve_graph, Goto
<1>2. request[w].stage = "idle"  BY <1>1 DEF Idle
<1>3. Fine(Attempt(1), Now) /\ Attempt(1).stage = "snapshot"  BY AttemptFine
<1> QED  BY <1>1, <1>2, <1>3, QuietInv

LEMMA BehindSame ==
    ASSUME NEW h, NEW a, NEW b, NEW a2, NEW b2, NEW ov, \A s \in h : a2[s] = a[s] /\ b2[s] = b[s],
           Behind(h, a, b, ov)
    PROVE  Behind(h, a2, b2, ov)
BY DEF Behind

LEMMA BehindUnion ==
    ASSUME NEW h, NEW h2, NEW a, NEW b, NEW ov, Behind(h, a, b, ov), Behind(h2, a, b, ov)
    PROVE  Behind(h \cup h2, a, b, ov)
BY DEF Behind

LEMMA BehindPart ==
    ASSUME NEW h, NEW h2, NEW a, NEW b, NEW ov, Behind(h, a, b, ov), h2 \subseteq h
    PROVE  Behind(h2, a, b, ov)
BY DEF Behind

\* A query returns what the rows are at that moment.
LEMMA SectionIsNow == \A s \in Sections : Section(s) = Picture(Now)[s]
<1>1. Section("principals") = People(Now)  BY ExistsHere, Fields DEF Section, People
<1>2. Section("relationships") = Edges(Now)  BY ExistsHere, Fields DEF Section, Edges
<1>3. Section("conflicts") = conflicts  BY DEF Section
<1>4. Section("coverage") = corpus.documents  BY DEF Section
<1>5. /\ Picture(Now)["principals"] = People(Now) /\ Picture(Now)["relationships"] = Edges(Now)
      /\ Picture(Now)["conflicts"] = conflicts /\ Picture(Now)["coverage"] = corpus.documents
  BY Fields DEF Picture
<1> QED  BY <1>1, <1>2, <1>3, <1>4, <1>5 DEF Sections

LEMMA OnwardNow == ASSUME Inv PROVE Onward(Now, Now)
<1>1. RowsTyped(Now) /\ Extracted(Now) /\ corpus.documents \in Nat  BY Fields DEF Inv, Stored, Extracted
<1> QED  BY <1>1, Lists, Fields DEF Onward

\* The people of a relationship that is active are resolved now.
LEMMA ActiveShown ==
    ASSUME Inv, NEW r \in Relationships, Here(r, Now), db[r].status = "active"
    PROVE  /\ Resolved(db[r].from, Now) /\ Resolved(db[r].to, Now)
           /\ ShowsResolved(People(Now), db[r].from) /\ ShowsResolved(People(Now), db[r].to)
<1>1. PartiesKnown(Now)  BY DEF Inv, Stored
<1>2. Resolved(db[r].from, Now) /\ Resolved(db[r].to, Now)  BY <1>1, Fields DEF PartiesKnown, Grounded
<1>3. \A n : Resolved(n, Now) => ShowsResolved(People(Now), n)
  <2> SUFFICES ASSUME NEW n, Resolved(n, Now) PROVE ShowsResolved(People(Now), n)  OBVIOUS
  <2>1. PICK d \in Discoveries : Here(d, Now) /\ Now.db[d].name = Strip[n] /\ Now.db[d].resolved # NONE  BY DEF Resolved
  <2>2. d \in DOMAIN People(Now) /\ People(Now)[d] = Now.db[d]  BY <2>1 DEF People
  <2> QED  BY <2>1, <2>2 DEF ShowsResolved
<1> QED  BY <1>2, <1>3

\* One more section, in the order of the queries
LEMMA SectionRead ==
    ASSUME Inv, NEW snapshot, SnapshotFine(snapshot, Now), Watches(snapshot, Now),
           NEW s \in Sections, s \notin DOMAIN snapshot,
           s # "principals" => "principals" \in DOMAIN snapshot
    PROVE  /\ SnapshotFine(With(snapshot, s), Now) /\ Watches(With(snapshot, s), Now)
           /\ DOMAIN With(snapshot, s) = DOMAIN snapshot \cup {s}
           /\ With(snapshot, s)[s] = Picture(Now)[s]
           /\ \A x \in DOMAIN snapshot : With(snapshot, s)[x] = snapshot[x]
<1> DEFINE has == DOMAIN snapshot
           new == With(snapshot, s)
<1>1. /\ has \subseteq Sections
      /\ "relationships" \in has => "principals" \in has /\ Consistent(snapshot, disturbed)
      /\ "conflicts" \in has => /\ "principals" \in has
                                /\ DOMAIN snapshot.principals # {} => snapshot.conflicts = conflicts
      /\ Behind(has, snapshot, Picture(Now), disturbed)
  BY Fields DEF SnapshotFine
<1>2. DOMAIN new = has \cup {s} /\ new[s] = Picture(Now)[s] /\ \A x \in has : new[x] = snapshot[x]
  BY SectionIsNow DEF With
<1> HIDE DEF new, has
<1>3. s \notin has /\ (s # "principals" => "principals" \in has)  BY DEF has
<1>4. /\ Picture(Now)["principals"] = People(Now) /\ Picture(Now)["relationships"] = Edges(Now)
      /\ Picture(Now)["conflicts"] = conflicts
  BY Fields DEF Picture
<1>5. "principals" \in has => new.principals = snapshot.principals  BY <1>2
<1>6. ASSUME "relationships" \in has \cup {s} PROVE "principals" \in has \cup {s} /\ Consistent(new, disturbed)
  <2>1. "principals" \in has  BY <1>1, <1>3, <1>6
  <2>2. CASE "relationships" \in has
    <3>1. new.relationships = snapshot.relationships  BY <1>2, <2>2
    <3> QED  BY <1>1, <1>5, <2>1, <2>2, <3>1 DEF Consistent
  <2>3. CASE s = "relationships"
    <3>1. new.relationships = Edges(Now)  BY <1>2, <1>4, <2>3
    <3>2. ASSUME NEW r \in DOMAIN new.relationships, new.relationships[r].status = "active", r \notin disturbed
          PROVE  /\ ShowsResolved(new.principals, new.relationships[r].from)
                 /\ ShowsResolved(new.principals, new.relationships[r].to)
      <4>1. r \in Relationships /\ Here(r, Now)  BY <3>1, <3>2 DEF Edges
      <4>2. /\ new.relationships[r].status = db[r].status /\ new.relationships[r].from = db[r].from
            /\ new.relationships[r].to = db[r].to
        BY <3>1, <4>1, Fields DEF Edges
      <4> QED  BY <1>5, <2>1, <3>2, <4>1, <4>2, Fields DEF Watches, has
    <3> QED  BY <2>1, <3>2 DEF Consistent
  <2> QED  BY <1>6, <2>2, <2>3
<1>7. ASSUME "conflicts" \in has \cup {s}
      PROVE  "principals" \in has \cup {s} /\ (DOMAIN new.principals # {} => new.conflicts = conflicts)
  <2>1. "principals" \in has  BY <1>1, <1>3, <1>7
  <2>2. CASE "conflicts" \in has  BY <1>1, <1>2, <1>5, <2>1, <2>2
  <2>3. CASE s = "conflicts"  BY <1>2, <1>4, <2>1, <2>3
  <2> QED  BY <1>7, <2>2, <2>3
<1>8. Behind(has \cup {s}, new, Picture(Now), disturbed)
  <2>1. Behind(has, new, Picture(Now), disturbed)  BY <1>1, <1>2, BehindSame
  <2>2. Behind(Sections, Picture(Now), Picture(Now), disturbed)  BY OnwardNow, PictureGrows, Fields
  <2>3. Behind({s}, Picture(Now), Picture(Now), disturbed)  BY <2>2, BehindPart
  <2>4. Behind({s}, new, Picture(Now), disturbed)  BY <1>2, <2>3, BehindSame
  <2> QED  BY <2>1, <2>4, BehindUnion
<1>9. SnapshotFine(new, Now)
  BY <1>1, <1>2, <1>6, <1>7, <1>8, Fields DEF SnapshotFine
<1>10. Watches(new, Now)
  <2> SUFFICES ASSUME "principals" \in has \cup {s}, NEW r \in Relationships, Here(r, Now), db[r].status = "active",
                      r \notin disturbed
               PROVE  ShowsResolved(new.principals, db[r].from) /\ ShowsResolved(new.principals, db[r].to)
    BY <1>2, Fields DEF Watches
  <2>1. CASE "principals" \in has  BY <1>5, <2>1, Fields DEF Watches, has
  <2>2. CASE s = "principals"
    <3>1. new.principals = People(Now)  BY <1>2, <1>4, <2>2
    <3> QED  BY <3>1, ActiveShown
  <2> QED  BY <2>1, <2>2
<1> QED  BY <1>2, <1>9, <1>10 DEF new, has

LEMMA ReadSectionInv == ASSUME Inv, NEW w \in Workers, ReadSection(w) PROVE Inv'
<1> DEFINE r == request[w]
<1>1. /\ r.stage = "snapshot"
      /\ UNCHANGED <<corpus, upload, db, conflicts, approvals, policies, disturbed, orphans>>
  BY DEF ReadSection
<1>2. PICK n \in DOMAIN SectionOrder :
          /\ SectionOrder[n] \notin DOMAIN r.snapshot
          /\ \A m \in 1..(n - 1) : SectionOrder[m] \in DOMAIN r.snapshot
          /\ request' = [request EXCEPT ![w] = [r EXCEPT !.snapshot = With(r.snapshot, SectionOrder[n])]]
  BY DEF ReadSection, Goto
<1> DEFINE s == SectionOrder[n]
           new == With(r.snapshot, s)
           r2 == [r EXCEPT !.snapshot = new]
<1>3. s \in Sections /\ (s # "principals" => "principals" \in DOMAIN r.snapshot)
  <2>1. DOMAIN SectionOrder = 1..4  BY DEF SectionOrder
  <2>2. /\ SectionOrder[1] = "principals" /\ SectionOrder[2] = "relationships"
        /\ SectionOrder[3] = "conflicts" /\ SectionOrder[4] = "coverage"
    BY DEF SectionOrder
  <2>3. n \in 1..4 /\ (n # 1 => 1 \in 1..(n - 1))  BY <2>1
  <2> QED  BY <1>2, <2>2, <2>3 DEF Sections
<1>4. Fine(r, Now)  BY DEF Inv, Requests
<1>5. /\ DOMAIN r = {"stage", "attempt", "latest", "version", "snapshot", "reads"} /\ ApprovingFine(r, Now)
  BY <1>1, <1>4 DEF Fine, Idle
<1> HIDE DEF r, s
<1>6. /\ SnapshotFine(new, Now) /\ Watches(new, Now) /\ DOMAIN new = DOMAIN r.snapshot \cup {s}
      /\ new[s] = Picture(Now)[s] /\ \A x \in DOMAIN r.snapshot : new[x] = r.snapshot[x]
  BY <1>2, <1>3, <1>5, SectionRead DEF ApprovingFine, s
<1> HIDE DEF new
<1>7. /\ DOMAIN r2 = {"stage", "attempt", "latest", "version", "snapshot", "reads"}
      /\ r2.stage = "snapshot" /\ r2.attempt = r.attempt /\ r2.latest = r.latest /\ r2.version = r.version
      /\ r2.snapshot = new /\ r2.reads = r.reads
  BY <1>1, <1>5
<1> HIDE DEF r2
<1>8. ASSUME r.latest # 0 PROVE Behind(DOMAIN new, approvals[r.latest].snapshot, new, disturbed)
  <2> DEFINE a == approvals[r.latest].snapshot
  <2>1. r.latest \in 1..Len(approvals) /\ Behind(DOMAIN r.snapshot, a, r.snapshot, disturbed)
    BY <1>5, <1>8, Lists, Fields DEF ApprovingFine
  <2>2. Behind(Sections, a, Picture(Now), disturbed)
    <3>1. ApprovalFine(r.latest, Now)  BY <2>1, Fields DEF Inv, Stored, Approvals
    <3> QED  BY <3>1, Fields DEF ApprovalFine, SnapshotFine
  <2> HIDE DEF a
  <2>3. Behind(DOMAIN r.snapshot, a, new, disturbed)  BY <1>6, <2>1, BehindSame
  <2>4. Behind({s}, a, Picture(Now), disturbed)  BY <1>3, <2>2, BehindPart
  <2>5. Behind({s}, a, new, disturbed)  BY <1>6, <2>4, BehindSame
  <2>6. Behind(DOMAIN new, a, new, disturbed)  BY <1>6, <2>3, <2>5, BehindUnion
  <2> QED  BY <2>6 DEF a
<1>9. ApprovingFine(r2, Now)  BY <1>5, <1>6, <1>7, <1>8, Fields DEF ApprovingFine
<1>10. Fine(r2, Now)  BY <1>7, <1>9 DEF Fine
<1>11. request' = [request EXCEPT ![w] = r2]  BY <1>2 DEF r2, new, s
<1>12. request[w].stage = "snapshot"  BY <1>1 DEF r
<1> QED  BY <1>1, <1>7, <1>10, <1>11, <1>12, QuietInv

LEMMA CommitApprovalInv == ASSUME Inv, NEW w \in Workers, CommitApproval(w) PROVE Inv'
<1> DEFINE r == request[w]
<1>1. /\ r.stage = "snapshot" /\ DOMAIN r.snapshot = Range(SectionOrder)
      /\ UNCHANGED <<corpus, upload, db, conflicts, policies, disturbed, orphans>>
  BY DEF CommitApproval
<1>2. Fine(r, Now)  BY DEF Inv, Requests
<1>3. ApprovingFine(r, Now)  BY <1>1, <1>2 DEF Fine, Idle
<1>4. Idle.stage = "idle" /\ Fine(Idle, Now) /\ Fine(Idle, Now')  BY DEF Idle, Fine
<1>5. ASSUME UniqueVersion(r.version), NEW first, Plausible(first, r.snapshot.principals),
             approvals' = Append(approvals, [version |-> r.version, predecessor |-> r.latest,
                                             snapshot |-> r.snapshot, first |-> first]),
             Answer(w)
      PROVE  Inv'
  <2> DEFINE a == [version |-> r.version, predecessor |-> r.latest, snapshot |-> r.snapshot, first |-> first]
             i == Len(approvals) + 1
  <2>1. /\ a.version = r.version /\ a.predecessor = r.latest /\ a.snapshot = r.snapshot /\ a.first = first
    OBVIOUS
  <2> HIDE DEF a
  <2>2. approvals' = Append(approvals, a)  BY <1>5 DEF a
  <2>3. /\ Listed(approvals') /\ Len(approvals) \in Nat /\ Len(approvals') = i /\ approvals'[i] = a
        /\ \A j \in 1..Len(approvals) : approvals'[j] = approvals[j]
        /\ DOMAIN approvals = 1..Len(approvals)
    BY <2>2, Lists, Appending
  <2>4. r.latest = Len(approvals)
    <3>1. r.latest \in 0..Len(approvals) /\ r.version = r.latest + 1  BY <1>3, Fields DEF ApprovingFine
    <3>2. \A j \in 1..Len(approvals) : approvals[j].version = j
      BY Fields DEF Inv, Stored, Approvals, ApprovalFine
    <3>3. r.version \notin 1..Len(approvals)  BY <1>5, <2>3, <3>2 DEF UniqueVersion
    <3> QED  BY <2>3, <3>1, <3>3
  <2>5. Onward(Now, Now')
    <3>1. RowsTyped(Now) /\ RowsTyped(Now') /\ Extracted(Now) /\ corpus.documents \in Nat
      BY <1>1, Fields DEF Inv, Stored, Extracted, RowsTyped
    <3> QED  BY <1>1, <2>3, <3>1, Lists, Fields DEF Onward, Here
  <2>6. ApprovalFine(i, Now')
    <3>1. SnapshotFine(r.snapshot, Now')  BY <1>3, <2>5, SnapshotKept DEF ApprovingFine
    <3>2. ASSUME i # 1 PROVE Behind(Sections, approvals'[i - 1].snapshot, r.snapshot, disturbed')
      <4>1. r.latest # 0 /\ i - 1 = r.latest /\ i - 1 \in 1..Len(approvals)  BY <2>3, <2>4, <3>2
      <4>2. approvals'[i - 1] = approvals[r.latest]  BY <2>3, <4>1
      <4>3. Behind(DOMAIN r.snapshot, approvals[r.latest].snapshot, r.snapshot, disturbed)
        BY <1>3, <4>1, Fields DEF ApprovingFine
      <4> QED  BY <1>1, <4>2, <4>3, SectionNames
    <3>3. /\ a.version = i /\ a.predecessor = i - 1 /\ DOMAIN a.snapshot = Sections
          /\ Plausible(a.first, a.snapshot.principals)
      BY <1>1, <1>3, <1>5, <2>1, <2>3, <2>4, SectionNames DEF ApprovingFine
    <3> QED  BY <2>1, <2>3, <3>1, <3>2, <3>3, Fields DEF ApprovalFine
  <2>7. \A j \in 1..Len(approvals') : j \in 1..Len(approvals) \/ ApprovalFine(j, Now')  BY <2>3, <2>6
  <2>8. Extracted(Now') /\ PartiesKnown(Now')
    BY <1>1, Fields DEF Inv, Stored, Extracted, PartiesKnown, Grounded, Resolved, Here
  <2>9. request' = [request EXCEPT ![w] = Idle]  BY <1>5 DEF Answer
  <2>10. Extracting(request', Now')
    <3>1. request = [v \in Workers |-> request[v]] /\ Extracting(request, Now)  BY DEF Inv, Requests
    <3>2. \A v \in Workers : request'[v] = IF v = w THEN Idle ELSE request[v]  BY <2>9, <3>1
    <3> QED  BY <1>1, <1>4, <3>1, <3>2, Fields DEF Extracting
  <2>11. \A v \in Workers \ {w} : Noticed(request[v], Now, Now')  BY <1>1, Fields DEF Noticed
  <2>12. request[w].stage # "mark" /\ Idle.stage # "mark" /\ policies' = policies /\ orphans' = orphans /\ db' = db
    BY <1>1, <1>4
  <2> QED  BY <1>4, <2>3, <2>5, <2>7, <2>8, <2>9, <2>10, <2>11, <2>12, PlainInv
<1>6. ASSUME r.attempt < MAX_APPROVAL_VERSION_ATTEMPTS, Goto(w, NextAttempt(r)), UNCHANGED approvals PROVE Inv'
  <2>1. r.attempt + 1 \in Nat  BY <1>3 DEF ApprovingFine
  <2>2. Fine(Attempt(r.attempt + 1), Now) /\ Attempt(r.attempt + 1).stage = "snapshot"  BY <2>1, AttemptFine
  <2>3. request' = [request EXCEPT ![w] = Attempt(r.attempt + 1)]  BY <1>6 DEF Goto, NextAttempt
  <2>4. UNCHANGED <<corpus, upload, db, conflicts, approvals, policies, disturbed, orphans>>  BY <1>1, <1>6
  <2>5. request[w].stage = "snapshot"  BY <1>1
  <2> HIDE DEF r
  <2> QED  BY <2>2, <2>3, <2>4, <2>5, QuietInv
<1>7. ASSUME Answer(w), UNCHANGED approvals PROVE Inv'
  <2>1. request' = [request EXCEPT ![w] = Idle]  BY <1>7 DEF Answer
  <2>2. UNCHANGED <<corpus, upload, db, conflicts, approvals, policies, disturbed, orphans>>  BY <1>1, <1>7
  <2> QED  BY <1>1, <1>4, <2>1, <2>2, QuietInv
<1> QED  BY <1>5, <1>6, <1>7 DEF CommitApproval

-----------------------------------------------------------------------------
(* promote_candidate.                                                      *)

\* The gate: whom the latest approved graph shows, the rows of now resolve.
LEMMA GatePassed ==
    ASSUME Inv, NEW content \in Content, NEW latest \in Nat, latest <= Len(approvals),
           check_graph_readiness(content, latest),
           NEW p \in match_resolved_principal_id(
                   IF content.delegated_by # NONE THEN content.delegated_by ELSE content.principal)
    PROVE  /\ conflicts = {}
           /\ content.delegated_by # NONE \/ AsStored([content |-> content], approvals[latest]) => p # NONE
<1> DEFINE a == approvals[latest]
           s == a.snapshot
           n == content.principal
<1>1. /\ latest # 0 /\ s.conflicts = {} /\ n # NONE /\ find_principal_entry(a, n) # NONE
      /\ content.delegated_by # NONE => has_active_relationship(s, content.delegated_by, n)
  BY DEF check_graph_readiness
<1>2. ApprovalFine(latest, Now)  BY <1>1, Lists, Fields DEF Inv, Stored, Approvals
<1>3. /\ DOMAIN s = Sections /\ SnapshotFine(s, Now) /\ Plausible(a.first, s.principals)
  BY <1>2, Fields DEF ApprovalFine
<1>4. n \in Names  BY <1>1 DEF Content
<1>11. Strip[n] \in Range(Strip)  BY <1>4, StripAssumption DEF Range
<1> DEFINE d == a.first[Strip[n]]
<1>5. d # NONE /\ s.principals[d].resolved # NONE  BY <1>1 DEF find_principal_entry
<1>6. d \in DOMAIN s.principals  BY <1>3, <1>5, <1>11 DEF Plausible
<1>12. AsStored([content |-> content], a) <=> s.principals[d].name = Strip[n]  BY DEF AsStored
<1>13. a = approvals[latest]  OBVIOUS
<1> HIDE DEF a, s, n, d
<1>7. conflicts = {}
  <2>1. "conflicts" \in DOMAIN s  BY <1>3 DEF Sections
  <2> QED  BY <1>1, <1>3, <1>6, <2>1, Fields DEF SnapshotFine
<1>8. PeopleBehind(s.principals, People(Now), disturbed) /\ EdgesBehind(s.relationships, Edges(Now))
  <2>1. Behind(Sections, s, Picture(Now), disturbed)  BY <1>3, Fields DEF SnapshotFine
  <2>2. Picture(Now).principals = People(Now) /\ Picture(Now).relationships = Edges(Now)  BY DEF Picture
  <2> QED  BY <2>1, <2>2 DEF Behind, Sections
<1>9. ASSUME content.delegated_by = NONE, AsStored([content |-> content], a) PROVE p # NONE
  <2>1. /\ d \in DOMAIN People(Now) /\ People(Now)[d].name = Strip[n] /\ People(Now)[d].resolved # NONE
    BY <1>5, <1>6, <1>8, <1>9, <1>12 DEF PeopleBehind, PersonBehind
  <2>2. d \in Discoveries /\ Here(d, Now) /\ People(Now)[d] = Now.db[d]  BY <2>1 DEF People
  <2>3. Resolved(n, Now)  BY <2>1, <2>2 DEF Resolved
  <2>4. p \in match_resolved_principal_id(n)  BY <1>9 DEF n
  <2> QED  BY <2>3, <2>4, Matched
<1>10. ASSUME content.delegated_by # NONE PROVE p # NONE
  <2> DEFINE name == Strip[content.delegated_by]
  <2>1. PICK r \in DOMAIN s.relationships :
            s.relationships[r].status = "active" /\ Strip[s.relationships[r].from] = name
    BY <1>1, <1>10 DEF has_active_relationship
  <2>2. r \in DOMAIN Edges(Now) /\ Edges(Now)[r].status = "active" /\ Strip[Edges(Now)[r].from] = name
    BY <1>8, <2>1 DEF EdgesBehind, EdgeBehind
  <2>3. r \in Relationships /\ Here(r, Now)  BY <2>2 DEF Edges
  <2>4. db[r].status = "active" /\ Strip[db[r].from] = name  BY <2>2, <2>3, Fields DEF Edges
  <2>5. Resolved(content.delegated_by, Now)  BY <2>3, <2>4, ActiveShown DEF Resolved
  <2>6. p \in match_resolved_principal_id(content.delegated_by)  BY <1>10
  <2> QED  BY <2>5, <2>6, Matched
<1> QED  BY <1>7, <1>9, <1>10, <1>13

LEMMA PromoteCandidateInv ==
    ASSUME Inv, NEW w \in Workers, NEW k \in Candidates, promote_candidate(w, k) PROVE Inv'
<1> DEFINE content == db[k].content
           latest == IF db[k].from_corpus THEN get_latest_approval_for_corpus ELSE 0
<1>1. /\ request[w] = Idle /\ Exists(k) /\ db[k].status = "pending_review"
      /\ db[k].from_corpus => check_graph_readiness(content, latest)
      /\ content.principal # NONE
      /\ UNCHANGED <<corpus, upload, db, conflicts, approvals, policies, disturbed, orphans>>
  BY DEF promote_candidate
<1>2. PICK p \in find_resolved_principal_for_candidate(k) :
          Goto(w, [stage |-> "policy", reads |-> {k}, candidate |-> k, key |-> 0,
                   policy |-> [candidate |-> k, content |-> content, approval |-> latest, authority |-> p]])
  BY DEF promote_candidate
<1> DEFINE policy == [candidate |-> k, content |-> content, approval |-> latest, authority |-> p]
           r2 == [stage |-> "policy", reads |-> {k}, candidate |-> k, key |-> 0, policy |-> policy]
<1>3. Here(k, Now) /\ db[k] \in PolicyExtractionCandidate
  BY <1>1, ExistsHere, Columns, Fields DEF Inv, Stored
<1>4. content \in Content /\ db[k].from_corpus \in BOOLEAN  BY <1>3 DEF PolicyExtractionCandidate
<1>5. ASSUME latest # 0
      PROVE  /\ conflicts = {} /\ corpus.status = "extracted" /\ latest \in 1..Len(approvals)
             /\ content.delegated_by # NONE \/ AsStored([content |-> content], approvals[latest]) => p # NONE
  <2>1. db[k].from_corpus /\ latest = Len(approvals)  BY <1>4, <1>5, LatestIsLast
  <2>2. corpus.status = "extracted"  BY <1>3, <2>1, Fields DEF Inv, Stored, Extracted
  <2>3. check_graph_readiness(content, latest)  BY <1>1, <2>1
  <2>4. p \in match_resolved_principal_id(
                IF content.delegated_by # NONE THEN content.delegated_by ELSE content.principal)
    BY <1>1, <1>2, <2>1 DEF find_resolved_principal_for_candidate
  <2>5. latest \in 1..Len(approvals) /\ latest \in Nat /\ latest <= Len(approvals)  BY <1>5, <2>1, Lists
  <2> HIDE DEF content, latest
  <2> QED  BY <1>4, <2>2, <2>3, <2>4, <2>5, GatePassed
<1> HIDE DEF content, latest
<1>6. policy.candidate = k /\ policy.content = content /\ policy.approval = latest /\ policy.authority = p  OBVIOUS
<1> HIDE DEF policy
<1>13. AsStored(policy, approvals[latest]) <=> AsStored([content |-> content], approvals[latest])
  BY <1>6 DEF AsStored
<1>7. PolicyFine(policy, Now)  BY <1>3, <1>5, <1>6, <1>13, Fields DEF PolicyFine
<1>8. /\ DOMAIN r2 = {"stage", "reads", "candidate", "key", "policy"} /\ r2.stage = "policy"
      /\ r2.reads = {k} /\ r2.candidate = k /\ r2.policy = policy
  OBVIOUS
<1>9. request' = [request EXCEPT ![w] = r2]  BY <1>2 DEF Goto, policy
<1> HIDE DEF r2
<1>10. PromotingFine(r2, Now)  BY <1>1, <1>6, <1>7, <1>8, Fields DEF PromotingFine, content
<1>11. Fine(r2, Now)  BY <1>8, <1>10 DEF Fine
<1>12. request[w].stage = "idle"  BY <1>1 DEF Idle
<1> QED  BY <1>1, <1>8, <1>9, <1>11, <1>12, QuietInv

\* A promotion in flight
LEMMA Promoting ==
    ASSUME Inv, NEW w \in Workers, request[w].stage \in {"policy", "mark"}
    PROVE  /\ DOMAIN request[w] = {"stage", "reads", "candidate", "key", "policy"}
           /\ PromotingFine(request[w], Now)
           /\ request[w].reads = {request[w].candidate} /\ request[w].policy.candidate = request[w].candidate
           /\ request[w].candidate \in Candidates /\ Here(request[w].candidate, Now)
           /\ request[w].candidate \notin disturbed =>
                 /\ db[request[w].candidate].status = "pending_review"
                 /\ db[request[w].candidate].content = request[w].policy.content
           /\ request[w].stage = "mark" =>
                 request[w].key \in 1..Len(policies) /\ policies[request[w].key] = request[w].policy
<1>1. Fine(request[w], Now)  BY DEF Inv, Requests
<1>2. DOMAIN request[w] = {"stage", "reads", "candidate", "key", "policy"} /\ PromotingFine(request[w], Now)
  BY <1>1 DEF Fine, Idle
<1> QED  BY <1>2, Fields DEF PromotingFine, PolicyFine

LEMMA CommitPolicyInv == ASSUME Inv, NEW w \in Workers, CommitPolicy(w) PROVE Inv'
<1> DEFINE r == request[w]
           key == Len(policies) + 1
           r2 == [r EXCEPT !.stage = "mark", !.key = key]
<1>1. /\ r.stage = "policy" /\ policies' = Append(policies, r.policy)
      /\ request' = [request EXCEPT ![w] = r2]
      /\ UNCHANGED <<corpus, upload, db, conflicts, approvals, disturbed, orphans>>
  BY DEF CommitPolicy, Goto
<1>2. /\ request = [v \in Workers |-> request[v]] /\ Extracting(request, Now) /\ OwnKeys(request)
      /\ Orphaned(request, Now) /\ Decided(request, Now) /\ RowsTyped(Now) /\ Extracted(Now)
  BY DEF Inv, Requests, Stored
<1>3. /\ Listed(policies') /\ Len(policies) \in Nat /\ Len(policies') = key /\ policies'[key] = r.policy
      /\ \A i \in 1..Len(policies) : policies'[i] = policies[i]
  BY <1>1, Lists, Appending
<1>4. /\ DOMAIN r = {"stage", "reads", "candidate", "key", "policy"} /\ PromotingFine(r, Now)
      /\ r.reads = {r.candidate} /\ r.policy.candidate = r.candidate /\ r.candidate \in Candidates
      /\ r.candidate \notin disturbed => db[r.candidate].status = "pending_review"
  BY <1>1, Promoting
<1>5. /\ DOMAIN r2 = {"stage", "reads", "candidate", "key", "policy"} /\ r2.stage = "mark"
      /\ r2.reads = r.reads /\ r2.candidate = r.candidate /\ r2.key = key /\ r2.policy = r.policy
  BY <1>4
<1> HIDE DEF r2
<1>6. \A v \in Workers : request'[v] = IF v = w THEN r2 ELSE request[v]  BY <1>1, <1>2
<1>7. Onward(Now, Now')
  <2>1. RowsTyped(Now') /\ corpus.documents \in Nat  BY <1>1, <1>2, Fields DEF RowsTyped, Extracted
  <2> QED  BY <1>1, <1>2, <1>3, <2>1, Lists, Fields DEF Onward, Here
<1>8. PolicyFine(r.policy, Now) /\ PolicyFine(r.policy, Now')  BY <1>4, <1>7, PolicyKept DEF PromotingFine
<1>9. Fine(r2, Now')
  <2>1. key \in 1..Len(policies')  BY <1>3
  <2>2. PromotingFine(r2, Now')  BY <1>1, <1>3, <1>4, <1>5, <1>8, <2>1, Fields DEF PromotingFine
  <2> QED  BY <1>5, <2>2 DEF Fine
<1>10. \A v \in Workers \ {w} : Noticed(request[v], Now, Now')  BY <1>1, Fields DEF Noticed
<1>11. Extracted(Now') /\ PartiesKnown(Now')
  BY <1>1, Fields DEF Inv, Stored, Extracted, PartiesKnown, Grounded, Resolved, Here
<1>12. Extracting(request', Now')  BY <1>1, <1>2, <1>5, <1>6, Fields DEF Extracting
<1>13. \A v \in Workers : request[v].stage = "mark" => v # w /\ request'[v] = request[v] /\ request[v].key \in 1..Len(policies)
  BY <1>1, <1>6, Promoting
<1>14. \A v \in Workers : request'[v].stage = "mark" => v = w \/ request[v].stage = "mark"  BY <1>6
<1>15. request'[w] = r2 /\ key \notin 1..Len(policies)  BY <1>3, <1>6
<1>16. OwnKeys(request')
  <2> SUFFICES ASSUME NEW u \in Workers, NEW v \in Workers, request'[u].stage = "mark", request'[v].stage = "mark",
                      request'[u].key = request'[v].key
               PROVE  u = v
    BY DEF OwnKeys
  <2>1. CASE u = w  BY <1>5, <1>13, <1>14, <1>15, <2>1
  <2>2. CASE v = w  BY <1>5, <1>13, <1>14, <1>15, <2>2
  <2>3. CASE u # w /\ v # w  BY <1>2, <1>13, <1>14, <2>3 DEF OwnKeys
  <2> QED  BY <2>1, <2>2, <2>3
<1>21. key \notin orphans  BY <1>2, <1>15, Fields DEF Orphaned
<1>22. Orphaned(request', Now')
  <2>1. orphans \subseteq 1..Len(policies')  BY <1>2, <1>3, Fields DEF Orphaned
  <2>2. \A v \in Workers : request'[v].stage = "mark" => request'[v].key \notin orphans
    BY <1>2, <1>5, <1>13, <1>14, <1>15, <1>21, Fields DEF Orphaned
  <2> QED  BY <1>1, <2>1, <2>2, Fields DEF Orphaned
<1>17. Decided(request', Now')
  <2> SUFFICES ASSUME NEW k \in Candidates, Here(k, Now), k \notin disturbed
               PROVE  /\ db[k].status = "promoted" =>
                            /\ db[k].policy \in 1..Len(policies')
                            /\ policies'[db[k].policy].content = db[k].content
                            /\ \A i \in 1..Len(policies') : (policies'[i].candidate = k /\ i \notin orphans) <=> i = db[k].policy
                      /\ db[k].status # "promoted" =>
                            \A i \in 1..Len(policies') : policies'[i].candidate = k /\ i \notin orphans =>
                                \E v \in Workers : request'[v].stage = "mark" /\ request'[v].key = i
    BY <1>1, Fields DEF Decided, Here
  <2>1. /\ db[k].status = "promoted" =>
              /\ db[k].policy \in 1..Len(policies)
              /\ policies[db[k].policy].content = db[k].content
              /\ \A i \in 1..Len(policies) : (policies[i].candidate = k /\ i \notin orphans) <=> i = db[k].policy
        /\ db[k].status # "promoted" =>
              \A i \in 1..Len(policies) : policies[i].candidate = k /\ i \notin orphans =>
                  \E v \in Workers : request[v].stage = "mark" /\ request[v].key = i
    BY <1>2, Fields DEF Decided
  <2>2. \A i \in 1..Len(policies') : i \in 1..Len(policies) \/ i = key  BY <1>3
  <2>3. ASSUME db[k].status = "promoted"
        PROVE  /\ db[k].policy \in 1..Len(policies')
               /\ policies'[db[k].policy].content = db[k].content
               /\ \A i \in 1..Len(policies') : (policies'[i].candidate = k /\ i \notin orphans) <=> i = db[k].policy
    <3>1. k # r.candidate  BY <1>4, <2>3
    <3>2. db[k].policy \in 1..Len(policies')  BY <1>3, <2>1, <2>3
    <3>3. policies'[db[k].policy].content = db[k].content  BY <1>3, <2>1, <2>3
    <3>4. ASSUME NEW i \in 1..Len(policies') PROVE (policies'[i].candidate = k /\ i \notin orphans) <=> i = db[k].policy
      <4>1. CASE i \in 1..Len(policies)  BY <1>3, <2>1, <2>3, <4>1
      <4>2. CASE i = key  BY <1>3, <1>4, <1>15, <2>1, <2>3, <3>1, <4>2
      <4> QED  BY <2>2, <4>1, <4>2
    <3> QED  BY <3>2, <3>3, <3>4
  <2>4. ASSUME db[k].status # "promoted", NEW i \in 1..Len(policies'), policies'[i].candidate = k, i \notin orphans
        PROVE  \E v \in Workers : request'[v].stage = "mark" /\ request'[v].key = i
    <3>1. CASE i \in 1..Len(policies)
      <4>1. policies[i].candidate = k  BY <1>3, <2>4, <3>1
      <4>2. PICK v \in Workers : request[v].stage = "mark" /\ request[v].key = i  BY <2>1, <2>4, <3>1, <4>1
      <4> QED  BY <1>13, <4>2
    <3>2. CASE i = key  BY <1>5, <1>15, <3>2
    <3> QED  BY <2>2, <3>1, <3>2
  <2> QED  BY <2>3, <2>4
<1>18. \A i \in 1..Len(policies') : i \in 1..Len(policies) \/ PolicyFine(policies'[i], Now')  BY <1>3, <1>8
<1>19. Listed(approvals') /\ \A i \in 1..Len(approvals') : i \in 1..Len(approvals)  BY <1>1, Lists
<1>20. request' = [request EXCEPT ![w] = r2]  BY <1>1
<1> QED  BY <1>3, <1>7, <1>9, <1>10, <1>11, <1>12, <1>16, <1>17, <1>18, <1>19, <1>20,
            <1>22, StepInv

\* The promotion of r.candidate ends: nobody else is left without a policy.
LEMMA PromotionEnds ==
    ASSUME Inv, NEW w \in Workers, request[w].stage = "mark", request' = [request EXCEPT ![w] = Idle]
    PROVE  /\ OwnKeys(request')
           /\ \A v \in Workers \ {w} : request'[v] = request[v]
           /\ \A i \in 1..Len(policies), v \in Workers :
                 policies[i].candidate # request[w].candidate /\ request[v].stage = "mark" /\ request[v].key = i
                     => request'[v].stage = "mark" /\ request'[v].key = i
<1>1. request = [v \in Workers |-> request[v]] /\ OwnKeys(request)  BY DEF Inv, Requests
<1>2. \A v \in Workers : request'[v] = IF v = w THEN Idle ELSE request[v]  BY <1>1
<1>3. Idle.stage = "idle"  BY DEF Idle
<1>4. OwnKeys(request')  BY <1>1, <1>2, <1>3 DEF OwnKeys
<1>5. policies[request[w].key].candidate = request[w].candidate  BY Promoting
<1> QED  BY <1>2, <1>4, <1>5

LEMMA MarkPromotedInv == ASSUME Inv, NEW w \in Workers, MarkPromoted(w) PROVE Inv'
<1> DEFINE r == request[w]
           x == r.candidate
           columns == [status |-> "promoted", policy |-> r.key]
<1>1. /\ r.stage = "mark" /\ Apply(w, Row(x, columns)) /\ request' = [request EXCEPT ![w] = Idle]
      /\ UNCHANGED <<corpus, upload, conflicts, approvals, policies, orphans>>
  BY DEF MarkPromoted, Answer
<1>2. /\ request = [v \in Workers |-> request[v]] /\ Extracting(request, Now)
      /\ Decided(request, Now) /\ Orphaned(request, Now) /\ RowsTyped(Now) /\ PartiesKnown(Now)
  BY DEF Inv, Requests, Stored
<1>3. /\ r.policy.candidate = x /\ x \in Candidates /\ Here(x, Now)
      /\ x \notin disturbed => db[x].status = "pending_review" /\ db[x].content = r.policy.content
      /\ r.key \in 1..Len(policies) /\ policies[r.key] = r.policy
  BY <1>1, Promoting
<1>4. db[x] \in PolicyExtractionCandidate /\ x \in Rows  BY <1>2, <1>3, Columns, Fields DEF Rows
<1> HIDE DEF x, columns
<1>5. /\ db'[x] = Merge(db[x], columns) /\ \A y \in Rows \ {x} : db'[y] = db[y]
      /\ disturbed \subseteq disturbed'
      /\ x \notin disturbed' => \A v \in Workers \ {w} :
            request[v].stage \in {"loaded", "snapshot", "policy", "mark"} => x \notin request[v].reads
  BY <1>1, <1>4, Applied
<1>7. /\ db'[x] \in PolicyExtractionCandidate /\ db'[x].from_corpus = db[x].from_corpus
      /\ db'[x].status = "promoted" /\ db'[x].policy = r.key /\ db'[x].content = db[x].content
  <2>1. r.key \in Nat  BY <1>3, Lists
  <2> QED  BY <1>4, <1>5, <2>1, MergedPromotion DEF columns
<1>8. RowOnward(x, db[x], db'[x], disturbed')  BY <1>3, <1>7, Disjoint DEF RowOnward
<1>9. Listed(policies') /\ Len(policies) <= Len(policies') /\ \A i \in 1..Len(policies) : policies'[i] = policies[i]
  BY <1>1, Lists
<1>10. Onward(Now, Now') /\ Extracted(Now') /\ \A v \in Workers \ {w} : Noticed(request[v], Now, Now')
  BY <1>1, <1>3, <1>4, <1>8, <1>9, OneRow
<1>11. PartiesKnown(Now')
  <2>1. ASSUME NEW q \in Relationships, Here(q, Now') PROVE Here(q, Now) /\ db'[q] = db[q]
    <3>1. db'[q] = db[q]  BY <1>3, <1>5, Disjoint DEF Rows
    <3> QED  BY <2>1, <3>1, Fields DEF Here
  <2> QED  BY <1>2, <1>10, <2>1, PartiesKept, Fields
<1>12. Idle.stage = "idle" /\ Fine(Idle, Now')  BY DEF Idle, Fine
<1>13. \A v \in Workers : request'[v] = IF v = w THEN Idle ELSE request[v]  BY <1>1, <1>2
<1>14. Extracting(request', Now')  BY <1>1, <1>2, <1>12, <1>13, Fields DEF Extracting
<1>15. /\ OwnKeys(request')
       /\ \A i \in 1..Len(policies), v \in Workers :
             policies[i].candidate # x /\ request[v].stage = "mark" /\ request[v].key = i
                 => request'[v].stage = "mark" /\ request'[v].key = i
  BY <1>1, PromotionEnds DEF x
<1>16. Decided(request', Now')
  <2> SUFFICES ASSUME NEW k \in Candidates, Here(k, Now'), k \notin disturbed'
               PROVE  /\ db'[k].status = "promoted" =>
                            /\ db'[k].policy \in 1..Len(policies)
                            /\ policies[db'[k].policy].content = db'[k].content
                            /\ \A i \in 1..Len(policies) : (policies[i].candidate = k /\ i \notin orphans) <=> i = db'[k].policy
                      /\ db'[k].status # "promoted" =>
                            \A i \in 1..Len(policies) : policies[i].candidate = k /\ i \notin orphans =>
                                \E v \in Workers : request'[v].stage = "mark" /\ request'[v].key = i
    BY <1>1, Fields DEF Decided
  <2>1. k \notin disturbed  BY <1>5
  <2>2. Here(k, Now) =>
          /\ db[k].status = "promoted" =>
                /\ db[k].policy \in 1..Len(policies)
                /\ policies[db[k].policy].content = db[k].content
                /\ \A i \in 1..Len(policies) : (policies[i].candidate = k /\ i \notin orphans) <=> i = db[k].policy
          /\ db[k].status # "promoted" =>
                \A i \in 1..Len(policies) : policies[i].candidate = k /\ i \notin orphans =>
                    \E v \in Workers : request[v].stage = "mark" /\ request[v].key = i
    BY <1>2, <2>1, Fields DEF Decided
  <2>3. CASE k = x
    <3>1. db[k].status = "pending_review" /\ db[k].content = r.policy.content /\ Here(k, Now)  BY <1>3, <2>1, <2>3
    <3>2. ASSUME NEW i \in 1..Len(policies), policies[i].candidate = k, i \notin orphans PROVE i = r.key
      <4>1. PICK v \in Workers : request[v].stage = "mark" /\ request[v].key = i  BY <2>2, <3>1, <3>2
      <4>2. policies[i] = request[v].policy /\ request[v].policy.candidate = request[v].candidate
            /\ request[v].reads = {request[v].candidate}
        BY <4>1, Promoting
      <4>3. x \in request[v].reads  BY <2>3, <3>2, <4>2
      <4>4. v = w  BY <1>5, <2>3, <4>1, <4>3
      <4> QED  BY <4>1, <4>4
    <3>3. policies[r.key].candidate = k /\ policies[r.key].content = db[k].content  BY <1>3, <2>3, <3>1
    <3>4. r.key \notin orphans  BY <1>1, <1>2, Fields DEF Orphaned
    <3> QED  BY <1>3, <1>7, <2>3, <3>2, <3>3, <3>4
  <2>4. CASE k # x
    <3>1. db'[k] = db[k]  BY <1>5, <2>4 DEF Rows
    <3>2. Here(k, Now)  BY <3>1, Fields DEF Here
    <3>3. ASSUME db[k].status # "promoted", NEW i \in 1..Len(policies), policies[i].candidate = k, i \notin orphans
          PROVE  \E v \in Workers : request'[v].stage = "mark" /\ request'[v].key = i
      <4>1. PICK v \in Workers : request[v].stage = "mark" /\ request[v].key = i  BY <2>2, <3>2, <3>3
      <4> QED  BY <1>15, <2>4, <3>3, <4>1
    <3> QED  BY <2>2, <3>1, <3>2, <3>3
  <2> QED  BY <2>3, <2>4
<1>20. Orphaned(request', Now')  BY <1>1, <1>2, <1>12, <1>13, Fields DEF Orphaned
<1>17. Listed(approvals') /\ \A i \in 1..Len(approvals') : i \in 1..Len(approvals)  BY <1>1, Lists
<1>18. \A i \in 1..Len(policies') : i \in 1..Len(policies)  BY <1>1
<1>19. request' = [request EXCEPT ![w] = Idle]  BY <1>1
<1> QED  BY <1>9, <1>10, <1>11, <1>12, <1>14, <1>15, <1>16, <1>17, <1>18, <1>19, <1>20,
            StepInv

LEMMA CutOffInv == ASSUME Inv, NEW w \in Workers, CutOff(w) PROVE Inv'
<1> DEFINE x == request[w].candidate
<1>1. /\ request[w].stage = "mark" /\ orphans' = orphans \cup {request[w].key}
      /\ request' = [request EXCEPT ![w] = Idle]
      /\ UNCHANGED <<corpus, upload, db, conflicts, approvals, policies, disturbed>>
  BY DEF CutOff, Answer
<1>2. /\ request = [v \in Workers |-> request[v]] /\ Extracting(request, Now)
      /\ Decided(request, Now) /\ OwnKeys(request) /\ Orphaned(request, Now) /\ RowsTyped(Now)
      /\ PartiesKnown(Now) /\ Extracted(Now)
  BY DEF Inv, Requests, Stored
<1>3. Onward(Now, Now')
  <2>1. RowsTyped(Now') /\ corpus.documents \in Nat  BY <1>1, <1>2, Fields DEF RowsTyped, Extracted
  <2> QED  BY <1>1, <1>2, <2>1, Lists, Fields DEF Onward, Here
<1>4. \A y : Here(y, Now') <=> Here(y, Now)  BY <1>1, Fields DEF Here
<1>5. PartiesKnown(Now')  BY <1>1, <1>2, <1>3, <1>4, PartiesKept, Fields
<1>6. Extracted(Now')  BY <1>1, <1>2, <1>4, Fields DEF Extracted
<1>7. Idle.stage = "idle" /\ Fine(Idle, Now')  BY DEF Idle, Fine
<1>8. \A v \in Workers : request'[v] = IF v = w THEN Idle ELSE request[v]  BY <1>1, <1>2
<1>9. Extracting(request', Now')  BY <1>1, <1>2, <1>7, <1>8, Fields DEF Extracting
<1>10. \A v \in Workers \ {w} : Noticed(request[v], Now, Now')  BY <1>1, Fields DEF Noticed
<1>11. OwnKeys(request')  BY <1>1, PromotionEnds
<1>16. request[w].key \in 1..Len(policies) /\ policies[request[w].key].candidate = x  BY <1>1, Promoting
<1>17. \A v \in Workers : request[v].stage = "mark" =>
           \/ v = w
           \/ request'[v] = request[v] /\ request[v].key # request[w].key
  BY <1>1, <1>2, <1>8 DEF OwnKeys
<1>18. \A v \in Workers : request'[v].stage = "mark" => v # w /\ request[v].stage = "mark"  BY <1>7, <1>8
<1>19. Orphaned(request', Now')
  <2>1. orphans' \subseteq 1..Len(policies)  BY <1>1, <1>2, <1>16, Fields DEF Orphaned
  <2>2. \A v \in Workers : request'[v].stage = "mark" => request'[v].key \notin orphans'
    BY <1>1, <1>2, <1>17, <1>18, Fields DEF Orphaned
  <2> QED  BY <1>1, <2>1, <2>2, Fields DEF Orphaned
<1>12. Decided(request', Now')
  <2> SUFFICES ASSUME NEW k \in Candidates, Here(k, Now), k \notin disturbed
               PROVE  /\ db[k].status = "promoted" =>
                            /\ db[k].policy \in 1..Len(policies)
                            /\ policies[db[k].policy].content = db[k].content
                            /\ \A i \in 1..Len(policies) : (policies[i].candidate = k /\ i \notin orphans') <=> i = db[k].policy
                      /\ db[k].status # "promoted" =>
                            \A i \in 1..Len(policies) : policies[i].candidate = k /\ i \notin orphans' =>
                                \E v \in Workers : request'[v].stage = "mark" /\ request'[v].key = i
    BY <1>1, <1>4, Fields DEF Decided
  <2>1. /\ db[k].status = "promoted" =>
              /\ db[k].policy \in 1..Len(policies)
              /\ policies[db[k].policy].content = db[k].content
              /\ \A i \in 1..Len(policies) : (policies[i].candidate = k /\ i \notin orphans) <=> i = db[k].policy
        /\ db[k].status # "promoted" =>
              \A i \in 1..Len(policies) : policies[i].candidate = k /\ i \notin orphans =>
                  \E v \in Workers : request[v].stage = "mark" /\ request[v].key = i
    BY <1>2, Fields DEF Decided
  <2>2. ASSUME db[k].status # "promoted", NEW i \in 1..Len(policies), policies[i].candidate = k, i \notin orphans'
        PROVE  \E v \in Workers : request'[v].stage = "mark" /\ request'[v].key = i
    <3>1. i \notin orphans /\ i # request[w].key  BY <1>1, <2>2
    <3>2. PICK v \in Workers : request[v].stage = "mark" /\ request[v].key = i  BY <2>1, <2>2, <3>1
    <3> QED  BY <1>17, <3>1, <3>2
  \* a candidate whose promotion is about to be marked is not promoted yet
  <2>3. ASSUME db[k].status = "promoted" PROVE db[k].policy # request[w].key
    <3>1. k # x  BY <1>1, <2>3, Promoting
    <3> QED  BY <1>16, <2>1, <2>3, <3>1
  <2> QED  BY <1>1, <2>1, <2>2, <2>3
<1>13. Listed(approvals') /\ \A i \in 1..Len(approvals') : i \in 1..Len(approvals)  BY <1>1, Lists
<1>14. Listed(policies') /\ \A i \in 1..Len(policies') : i \in 1..Len(policies)  BY <1>1, Lists
<1>15. request' = [request EXCEPT ![w] = Idle]  BY <1>1
<1> QED  BY <1>3, <1>5, <1>6, <1>7, <1>9, <1>10, <1>11, <1>12, <1>13, <1>14, <1>15, <1>19, StepInv

-----------------------------------------------------------------------------
(* The theorems.                                                           *)

LEMMA InitInv == Init => Inv
<1> SUFFICES ASSUME Init PROVE Inv  OBVIOUS
<1>1. /\ corpus = [status |-> "none", documents |-> 0] /\ db = [x \in Rows |-> Absent] /\ conflicts = {}
      /\ approvals = << >> /\ policies = << >> /\ request = [w \in Workers |-> Idle] /\ disturbed = {}
      /\ orphans = {}
  BY DEF Init
<1>2. \A x \in Rows : Now.db[x] = Absent /\ ~Here(x, Now)  BY <1>1, Fields DEF Here, Absent
<1>3. \A x \in Discoveries \cup Relationships \cup Candidates \cup Questions : x \in Rows  BY DEF Rows
<1>4. RowsTyped(Now)  BY <1>2, <1>3 DEF RowsTyped
<1>5. corpus \in [status : {"none", "uploaded", "failed", "extracted"}, documents : Nat] /\ corpus.status = "none"
  BY <1>1
<1>6. Extracted(Now)  BY <1>1, <1>2, <1>3, <1>5, Fields DEF Extracted
<1>7. PartiesKnown(Now)  BY <1>2, <1>3 DEF PartiesKnown
<1>8. Listed(<< >>) /\ Len(<< >>) = 0 /\ 1..0 = {}
  <2>1. << >> \in Seq({})  OBVIOUS
  <2> QED  BY <2>1 DEF Listed
<1>9. Approvals(Now) /\ Policies(Now)  BY <1>1, <1>8, Fields DEF Approvals, Policies
<1>10. \A w \in Workers : request[w] = Idle /\ request[w].stage = "idle"  BY <1>1 DEF Idle
<1>11. \A w \in Workers : Fine(request[w], Now)  BY <1>10 DEF Fine
<1>12. Extracting(request, Now) /\ OwnKeys(request)  BY <1>10 DEF Extracting, OwnKeys
<1>13. Decided(request, Now)  BY <1>2, <1>3 DEF Decided
<1>14. request = [w \in Workers |-> request[w]]  BY <1>1
<1>15. Orphaned(request, Now)  BY <1>1, <1>10, Fields DEF Orphaned
<1> QED  BY <1>4, <1>6, <1>7, <1>9, <1>11, <1>12, <1>13, <1>14, <1>15 DEF Inv, Stored, Requests

LEMMA NextInv == Inv /\ [Next]_vars => Inv'
<1> SUFFICES ASSUME Inv, [Next]_vars PROVE Inv'  OBVIOUS
<1>1. CASE UNCHANGED vars
  <2>1. Now' = Now /\ request' = request  BY <1>1 DEF vars, Now
  <2> QED  BY <2>1 DEF Inv
<1>2. ASSUME NEW w \in Workers, Step(w) PROVE Inv'
  <2>1. CASE request[w] = Idle /\ create_corpus(w)  BY <2>1, CreateCorpusInv
  <2>2. CASE request[w] = Idle /\ create_upload(w)  BY <2>2, CreateUploadInv
  <2>3. CASE add_document(w)  BY <2>3, AddDocumentInv
  <2>4. CASE UnsupportedFormat(w)  BY <2>4, UnsupportedFormatInv
  <2>5. CASE ExtractionFails(w)  BY <2>5, ExtractionFailsInv
  <2>6. CASE \E graph \in Graphs : run_extraction(w, graph)  BY <2>6, RunExtractionInv
  <2>7. CASE \E contents \in Uploads : ExtractUpload(w, contents)  BY <2>7, ExtractUploadInv
  <2>8. CASE Review(w)  BY <2>8, ReviewInv
  <2>9. CASE Commit(w)  BY <2>9, CommitInv
  <2>10. CASE approve_graph(w)  BY <2>10, ApproveGraphInv
  <2>11. CASE ReadSection(w)  BY <2>11, ReadSectionInv
  <2>12. CASE CommitApproval(w)  BY <2>12, CommitApprovalInv
  <2>13. CASE \E k \in Candidates : promote_candidate(w, k)  BY <2>13, PromoteCandidateInv
  <2>14. CASE CommitPolicy(w)  BY <2>14, CommitPolicyInv
  <2>15. CASE MarkPromoted(w)  BY <2>15, MarkPromotedInv
  <2>16. CASE CutOff(w)  BY <2>16, CutOffInv
  <2> QED  BY <1>2, <2>1, <2>2, <2>3, <2>4, <2>5, <2>6, <2>7, <2>8, <2>9, <2>10, <2>11, <2>12, <2>13,
              <2>14, <2>15, <2>16 DEF Step
<1> QED  BY <1>1, <1>2 DEF Next

LEMMA AlwaysInv == Spec => []Inv
BY InitInv, NextInv, PTL DEF Spec

LEMMA InvApprovals == Inv => ApprovalsSound
<1> SUFFICES ASSUME Inv PROVE ApprovalsSound  OBVIOUS
<1>1. Len(approvals) \in Nat /\ DOMAIN approvals = 1..Len(approvals)  BY Lists
<1>2. \A i \in 1..Len(approvals) :
          /\ approvals[i].version = i /\ approvals[i].predecessor = i - 1
          /\ DOMAIN approvals[i].snapshot = Sections /\ SnapshotFine(approvals[i].snapshot, Now)
          /\ i # 1 => Behind(Sections, approvals[i - 1].snapshot, approvals[i].snapshot, disturbed)
  BY Fields DEF Inv, Stored, Approvals, ApprovalFine
<1>3. ApprovalChain  BY <1>1, <1>2 DEF ApprovalChain
<1>4. LineageMonotone
  <2> SUFFICES ASSUME NEW i \in DOMAIN approvals, approvals[i].predecessor # 0
               PROVE  LET before == approvals[approvals[i].predecessor].snapshot
                          after == approvals[i].snapshot
                          people == diff_items(before.principals, after.principals)
                          edges == diff_items(before.relationships, after.relationships)
                      IN  /\ people.removed = {} /\ edges.removed = {}
                          /\ \A c \in people.changed :
                                c[2] = "resolved" /\ (before.principals[c[1]].resolved = NONE \/ c[1] \in disturbed)
                          /\ \A c \in edges.changed : c[2] = "status" /\ after.relationships[c[1]].status = "active"
                          /\ before.conflicts \subseteq after.conflicts /\ before.coverage <= after.coverage
    BY DEF LineageMonotone
  <2> DEFINE before == approvals[approvals[i].predecessor].snapshot
             after == approvals[i].snapshot
             people == diff_items(before.principals, after.principals)
             edges == diff_items(before.relationships, after.relationships)
  <2>1. Behind(Sections, before, after, disturbed)  BY <1>1, <1>2
  <2> HIDE DEF before, after
  <2>2. /\ PeopleBehind(before.principals, after.principals, disturbed)
        /\ EdgesBehind(before.relationships, after.relationships)
        /\ before.conflicts \subseteq after.conflicts /\ before.coverage <= after.coverage
    BY <2>1 DEF Behind, Sections
  <2>3. people.removed = {}  BY <2>2 DEF diff_items, PeopleBehind
  <2>4. edges.removed = {}  BY <2>2 DEF diff_items, EdgesBehind
  <2>5. ASSUME NEW c \in people.changed
        PROVE  c[2] = "resolved" /\ (before.principals[c[1]].resolved = NONE \/ c[1] \in disturbed)
    <3> DEFINE d == c[1]
               a == before.principals[d]
               b == after.principals[d]
    <3>1. d \in DOMAIN before.principals /\ c[2] \in DOMAIN a /\ a[c[2]] # b[c[2]]  BY DEF diff_items
    <3>2. PersonBehind(d, a, b, disturbed)  BY <2>2, <3>1 DEF PeopleBehind
    <3> HIDE DEF a, b
    <3>3. c[2] \in {"status", "name", "resolved"}  BY <3>1, <3>2 DEF PersonBehind
    <3>4. a["status"] = b["status"] /\ a["name"] = b["name"]
          /\ (a["resolved"] = b["resolved"] \/ a["resolved"] = NONE \/ d \in disturbed)
      BY <3>2 DEF PersonBehind
    <3>5. c[2] = "resolved" /\ (a["resolved"] = NONE \/ d \in disturbed)  BY <3>1, <3>3, <3>4
    <3> QED  BY <3>5 DEF a
  <2>6. ASSUME NEW c \in edges.changed PROVE c[2] = "status" /\ after.relationships[c[1]].status = "active"
    <3> DEFINE r == c[1]
               a == before.relationships[r]
               b == after.relationships[r]
    <3>1. r \in DOMAIN before.relationships /\ c[2] \in DOMAIN a /\ a[c[2]] # b[c[2]]  BY DEF diff_items
    <3>2. EdgeBehind(a, b)  BY <2>2, <3>1 DEF EdgesBehind
    <3> HIDE DEF a, b
    <3>3. c[2] \in {"kind", "from", "to", "status"}  BY <3>1, <3>2 DEF EdgeBehind
    <3>4. /\ a["kind"] = b["kind"] /\ a["from"] = b["from"] /\ a["to"] = b["to"]
          /\ a["status"] = b["status"] \/ b["status"] = "active"
      BY <3>2 DEF EdgeBehind
    <3>5. c[2] = "status" /\ b["status"] = "active"  BY <3>1, <3>3, <3>4
    <3> QED  BY <3>5 DEF b
  <2> QED  BY <2>2, <2>3, <2>4, <2>5, <2>6 DEF before, after
<1>5. SnapshotConsistent
  <2> SUFFICES ASSUME NEW i \in DOMAIN approvals, NEW r \in DOMAIN approvals[i].snapshot.relationships,
                      approvals[i].snapshot.relationships[r].status = "active", r \notin disturbed,
                      NEW n \in {approvals[i].snapshot.relationships[r].from,
                                 approvals[i].snapshot.relationships[r].to}
               PROVE  ShowsResolved(approvals[i].snapshot.principals, n)
    BY DEF SnapshotConsistent, ShowsResolved
  <2>1. SnapshotFine(approvals[i].snapshot, Now) /\ DOMAIN approvals[i].snapshot = Sections  BY <1>1, <1>2
  <2>2. Consistent(approvals[i].snapshot, disturbed)  BY <2>1, Fields DEF SnapshotFine, Sections
  <2> QED  BY <2>2 DEF Consistent
<1> QED  BY <1>3, <1>4, <1>5 DEF ApprovalsSound

LEMMA InvCompilation == Inv => CompilationSound
<1> SUFFICES ASSUME Inv PROVE CompilationSound  OBVIOUS
<1>1. Len(policies) \in Nat /\ DOMAIN policies = 1..Len(policies)  BY Lists
<1>2. \A i \in DOMAIN policies : policies[i].approval # 0 =>
          /\ conflicts = {}
          /\ \/ policies[i].content.delegated_by # NONE
             \/ AsStored(policies[i], approvals[policies[i].approval])
             => policies[i].authority # NONE
  BY <1>1, Fields DEF Inv, Stored, Policies, PolicyFine
<1>4. ConflictBlocks  BY <1>2 DEF ConflictBlocks
<1>5. AuthorityGrounded  BY <1>2 DEF AuthorityGrounded, FoundAsStored, AsStored
<1>3. DecidedOnce
  <2> SUFFICES ASSUME NEW k \in Existing(Candidates) \ disturbed
               PROVE  LET own == {i \in DOMAIN policies : policies[i].candidate = k} \ orphans
                          marking == {w \in Workers : request[w].stage = "mark" /\ request[w].candidate = k}
                      IN  /\ db[k].status = "promoted" =>
                                own = {db[k].policy} /\ policies[db[k].policy].content = db[k].content
                          /\ db[k].status # "promoted" => Cardinality(own) = Cardinality(marking)
    BY DEF DecidedOnce
  <2> DEFINE own == {i \in DOMAIN policies : policies[i].candidate = k} \ orphans
             marking == {w \in Workers : request[w].stage = "mark" /\ request[w].candidate = k}
  <2>1. k \in Candidates /\ Here(k, Now) /\ k \notin disturbed  BY ExistsHere
  <2>2. /\ db[k].status = "promoted" =>
              /\ db[k].policy \in 1..Len(policies)
              /\ policies[db[k].policy].content = db[k].content
              /\ \A i \in 1..Len(policies) : (policies[i].candidate = k /\ i \notin orphans) <=> i = db[k].policy
        /\ db[k].status # "promoted" =>
              \A i \in 1..Len(policies) : policies[i].candidate = k /\ i \notin orphans =>
                  \E v \in Workers : request[v].stage = "mark" /\ request[v].key = i
    BY <2>1, Fields DEF Inv, Requests, Decided
  <2>3. ASSUME db[k].status = "promoted" PROVE own = {db[k].policy} /\ policies[db[k].policy].content = db[k].content
    BY <1>1, <2>2, <2>3
  <2>4. ASSUME db[k].status # "promoted" PROVE Cardinality(own) = Cardinality(marking)
    <3> DEFINE f == [w \in marking |-> request[w].key]
    <3>1. IsFiniteSet(marking)  BY ConstantsAssumption, FS_Subset
    <3>2. \A w \in marking : request[w].key \in own
      <4>1. \A w \in marking : request[w].key \notin orphans  BY Fields DEF Inv, Requests, Orphaned
      <4> QED  BY <1>1, <4>1, Promoting
    <3>3. \A v, w \in marking : request[v].key = request[w].key => v = w
      BY DEF Inv, Requests, OwnKeys
    <3>4. ASSUME NEW i \in own PROVE \E w \in marking : request[w].key = i
      <4>1. i \in 1..Len(policies) /\ policies[i].candidate = k /\ i \notin orphans  BY <1>1
      <4>2. PICK w \in Workers : request[w].stage = "mark" /\ request[w].key = i  BY <2>2, <2>4, <4>1
      <4>3. policies[i].candidate = request[w].candidate  BY <4>2, Promoting
      <4> QED  BY <4>1, <4>2, <4>3
    <3> HIDE DEF own, marking
    <3>5. f \in Bijection(marking, own)
      <4>1. f \in [marking -> own]  BY <3>2
      <4>2. \A v, w \in marking : f[v] = f[w] => v = w  BY <3>3
      <4>3. \A i \in own : \E w \in marking : f[w] = i  BY <3>4
      <4> QED  BY <4>1, <4>2, <4>3 DEF Bijection, Injection, Surjection, IsInjective
    <3>6. ExistsBijection(marking, own)  BY <3>5 DEF ExistsBijection
    <3> QED  BY <3>1, <3>6, FS_Bijection
  <2> QED  BY <2>3, <2>4
<1> QED  BY <1>3, <1>4, <1>5 DEF CompilationSound

LEMMA InvParties == Inv => PartiesGrounded
<1> SUFFICES ASSUME Inv, NEW r \in Existing(Relationships), Discoveries \cap disturbed = {}
             PROVE  /\ db[r].from_id # NONE => db[r].from_id \in match_resolved_principal_id(db[r].from)
                    /\ db[r].to_id # NONE => db[r].to_id \in match_resolved_principal_id(db[r].to)
  BY DEF PartiesGrounded
<1>1. r \in Relationships /\ Here(r, Now)  BY ExistsHere
<1>2. ASSUME NEW n, NEW p, p # NONE, Grounded(n, p, Now) PROVE p \in match_resolved_principal_id(n)
  <2>1. PICK d \in Discoveries : Here(d, Now) /\ db[d].name = Strip[n] /\ db[d].resolved = p  BY <1>2, Fields DEF Grounded
  <2>2. d \in {x \in Existing(Discoveries) : db[x].name = Strip[n] /\ db[x].resolved # NONE}  BY <1>2, <2>1, ExistsHere
  <2> DEFINE found == {db[e].resolved : e \in {x \in Existing(Discoveries) : db[x].name = Strip[n] /\ db[x].resolved # NONE}}
  <2>3. p \in found  BY <2>1, <2>2
  <2>4. match_resolved_principal_id(n) = found  BY <2>3 DEF match_resolved_principal_id
  <2> QED  BY <2>3, <2>4
<1> QED  BY <1>1, <1>2, Fields DEF Inv, Stored, PartiesKnown

\* approve_graph under concurrent reviews, approvals and extraction, for any
\* number of each: the approvals of a corpus are one chain, whose versions
\* count up however many reviewers approve at once; none is behind the one it
\* supersedes; and a snapshot shows the people of its active relationships,
\* unless the relationship changed while the sections were being read.
THEOREM ApprovalsAreSound == Spec => []ApprovalsSound
BY AlwaysInv, InvApprovals, PTL

\* promote_candidate: nothing is compiled from a graph with a conflict in it;
\* what is compiled cites the Authority of a Principal the rows of now know, if
\* there is a delegating party or the person whom the gate found is stored
\* without space around the name; and a candidate that nobody else touched has
\* one policy if it is promoted and else as many as promotions are about to
\* mark it, besides one for each promotion that was cut off.
THEOREM CompilationIsSound == Spec => []CompilationSound
BY AlwaysInv, InvCompilation, PTL

\* resolve_relationship: the Principals of a relationship are ones that a
\* reviewer has named for these very names, unless two decisions on a
\* discovery overlapped.
THEOREM PartiesAreGrounded == Spec => []PartiesGrounded
BY AlwaysInv, InvParties, PTL

=============================================================================
