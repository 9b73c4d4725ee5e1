---------------------------- MODULE EvidenceChain ----------------------------
(***************************************************************************)
(* The organisation-scoped Evidence hash chain.                            *)
(*                                                                         *)
(* Every database transaction that records a decision, a resolution, an    *)
(* execution receipt or a reconciliation outcome appends exactly one       *)
(* Evidence row (append_evidence / append_generic_evidence_event) before   *)
(* its single commit.  The append is four statements, each a step here,    *)
(* under PostgreSQL's READ COMMITTED isolation: lock the organisation's    *)
(* row, read the latest row's hash, read the highest sequence, insert.     *)
(* verify_chain reads the chain back while appends go on.                  *)
(*                                                                         *)
(* A row's payload hash is abstracted to the row's id: the payload carries *)
(* unique ids and a timestamp, so distinct rows have distinct hashes.      *)
(***************************************************************************)
EXTENDS Integers, FiniteSets

CONSTANTS
    Txns,      \* database sessions, one transaction at a time each
    Orgs,      \* organisations with a row in "organizations"
    NoOrg,     \* the chain scope None: a principal without an organisation
    Ids,       \* Evidence ids (bounds the number of rows)
    NoId,      \* previous_hash None
    NoTxn,     \* nobody holds a lock
    MaxTime    \* bound on the clock

ASSUME ScopesAssumption == NoOrg \notin Orgs
ASSUME IdsAssumption == NoId \notin Ids
ASSUME TxnsAssumption == NoTxn \notin Txns
ASSUME TimeAssumption == MaxTime \in Nat

VARIABLES
    evidence,  \* the committed rows of table "evidence"
    tx,        \* the transaction each session is running
    rowLock,   \* who holds SELECT ... FOR UPDATE on each organisation's row
    clock,     \* the database server's clock
    ver        \* one request to verify_chain

chainVars == <<evidence, tx, rowLock, clock, ver>>

Scopes == Orgs \cup {NoOrg}
Times == 0..MaxTime

Row == [id: Ids, scope: Scopes, sequence: Nat, previous_hash: Ids \cup {NoId},
        created_at: Times]

Transaction ==
    [pc: {"idle", "begun", "locked", "linked", "flushed"}, id: Ids \cup {NoId},
     scope: Scopes, started: Times, previous_hash: Ids \cup {NoId}, sequence: Nat]

Verification ==
    [pc: {"idle", "selected", "done"}, org: Scopes, since: Times,
     records: SUBSET Row, broken_links: SUBSET Row]

IdleTx == [pc |-> "idle", id |-> NoId, scope |-> NoOrg, started |-> 0,
           previous_hash |-> NoId, sequence |-> 0]

IdleVer == [pc |-> "idle", org |-> NoOrg, since |-> 0, records |-> {}, broken_links |-> {}]

-----------------------------------------------------------------------------
(* What the append's two reads return.                                     *)

Rows(s) == {r \in evidence : r.scope = s}

\* Fault: the order before the sequence column existed, created_at alone
LatestByCreatedAt(s) ==
    {r \in Rows(s) : \A q \in Rows(s) : q.created_at <= r.created_at}

\* ORDER BY sequence DESC, created_at DESC, id DESC LIMIT 1; rows that agree on
\* the first two keys are ordered by a random UUID, so any of them may be first.
Latest(s) ==
    {r \in Rows(s) : \A q \in Rows(s) :
        \/ q.sequence < r.sequence
        \/ q.sequence = r.sequence /\ q.created_at <= r.created_at}

\* SELECT max(sequence), or 0 when there is no row, plus one
NextSequence(s) ==
    1 + CHOOSE m \in {r.sequence : r \in Rows(s)} \cup {0} :
            \A r \in Rows(s) : r.sequence <= m

-----------------------------------------------------------------------------
(* verify_chain: the records of the range in sequence order, the first one *)
(* compared with the row that precedes the range, every other one with the *)
(* record before it in the range.                                          *)

Below(rows, r) == {q \in rows : q.sequence < r.sequence}

Highest(rows) == {r \in rows : \A q \in rows : q.sequence <= r.sequence}

\* The hash of the last row of a set in sequence order, None for no row
HashOfLast(rows) == IF rows = {} THEN NoId ELSE (CHOOSE r \in Highest(rows) : TRUE).id

ExpectedPrevious(records, before, r) ==
    IF Below(records, r) = {} THEN HashOfLast(Below(before, r))
                              ELSE HashOfLast(Below(records, r))

\* Fault: the first record of the range is taken on trust
BrokenLinksUnseeded(records, before) ==
    {r \in records : /\ Below(records, r) # {}
                     /\ r.previous_hash # ExpectedPrevious(records, before, r)}

BrokenLinks(records, before) ==
    {r \in records : r.previous_hash # ExpectedPrevious(records, before, r)}

-----------------------------------------------------------------------------
ChainInit ==
    /\ evidence = {}
    /\ tx = [t \in Txns |-> IdleTx]
    /\ rowLock = [o \in Orgs |-> NoTxn]
    /\ clock = 0
    /\ ver = IdleVer

InUse == {r.id : r \in evidence} \cup {tx[t].id : t \in Txns}

(* A request's first statement opens the transaction: PostgreSQL's now(),  *)
(* the default of created_at, is this moment for every row it inserts.     *)
(* The chain scope is resolved from Agent -> Principal.                    *)
Begin(t, s, i) ==
    /\ tx[t].pc = "idle"
    /\ i \in Ids \ InUse
    /\ tx' = [tx EXCEPT ![t] = [IdleTx EXCEPT !.pc = "begun", !.id = i, !.scope = s,
                                              !.started = clock]]
    /\ UNCHANGED <<evidence, rowLock, clock, ver>>

\* Fault: a plain SELECT, which never waits
LockChainScopeUnlocked(t) ==
    /\ tx[t].pc = "begun"
    /\ tx' = [tx EXCEPT ![t].pc = "locked"]
    /\ UNCHANGED <<evidence, rowLock, clock, ver>>

(* SELECT ... FOR UPDATE blocks while another transaction holds the row;   *)
(* for the scope None there is no row to lock.                             *)
LockChainScope(t) ==
    /\ tx[t].pc = "begun"
    /\ tx' = [tx EXCEPT ![t].pc = "locked"]
    /\ \/ tx[t].scope = NoOrg /\ UNCHANGED rowLock
       \/ /\ tx[t].scope \in Orgs
          /\ rowLock[tx[t].scope] = NoTxn
          /\ rowLock' = [rowLock EXCEPT ![tx[t].scope] = t]
    /\ UNCHANGED <<evidence, clock, ver>>

PreviousChainHash(t) ==
    /\ tx[t].pc = "locked"
    /\ \/ /\ Rows(tx[t].scope) = {}
          /\ tx' = [tx EXCEPT ![t] = [@ EXCEPT !.pc = "linked", !.previous_hash = NoId]]
       \/ \E r \in Latest(tx[t].scope) :
            tx' = [tx EXCEPT ![t] = [@ EXCEPT !.pc = "linked", !.previous_hash = r.id]]
    /\ UNCHANGED <<evidence, rowLock, clock, ver>>

NextChainSequence(t) ==
    /\ tx[t].pc = "linked"
    /\ tx' = [tx EXCEPT ![t] = [@ EXCEPT !.pc = "flushed",
                                         !.sequence = NextSequence(tx[t].scope)]]
    /\ UNCHANGED <<evidence, rowLock, clock, ver>>

\* Fault: a lock that outlives the transaction (a session-level lock)
ReleaseNothing(t) == UNCHANGED rowLock

\* The locks a transaction holds are released when it ends
Release(t) == rowLock' = [o \in Orgs |-> IF rowLock[o] = t THEN NoTxn ELSE rowLock[o]]

CommitAppend(t) ==
    /\ tx[t].pc = "flushed"
    /\ evidence' = evidence \cup
           {[id |-> tx[t].id, scope |-> tx[t].scope, sequence |-> tx[t].sequence,
             previous_hash |-> tx[t].previous_hash, created_at |-> tx[t].started]}
    /\ tx' = [tx EXCEPT ![t] = IdleTx]
    /\ Release(t)
    /\ UNCHANGED <<clock, ver>>

(* A later statement of the same transaction fails (a resolution or a      *)
(* receipt that lost a race on a UNIQUE constraint), the request raises    *)
(* before its commit, or the worker dies: the row never becomes visible.   *)
Rollback(t) ==
    /\ tx[t].pc # "idle"
    /\ tx' = [tx EXCEPT ![t] = IdleTx]
    /\ Release(t)
    /\ UNCHANGED <<evidence, clock, ver>>

Tick ==
    /\ clock < MaxTime
    /\ clock' = clock + 1
    /\ UNCHANGED <<evidence, tx, rowLock, ver>>

(* verify_chain's first SELECT; since = 0 is the unbounded range.          *)
SelectRecords(o, since) ==
    /\ ver.pc = "idle"
    /\ ver' = [IdleVer EXCEPT !.pc = "selected", !.org = o, !.since = since,
                              !.records = {r \in Rows(o) : r.created_at >= since}]
    /\ UNCHANGED <<evidence, tx, rowLock, clock>>

(* Its second SELECT (the row preceding the range), later, and the loop.   *)
CheckLinks ==
    /\ ver.pc = "selected"
    /\ ver' = [ver EXCEPT !.pc = "done",
                          !.broken_links = BrokenLinks(ver.records, Rows(ver.org))]
    /\ UNCHANGED <<evidence, tx, rowLock, clock>>

RespondVerified ==
    /\ ver.pc = "done"
    /\ ver' = IdleVer
    /\ UNCHANGED <<evidence, tx, rowLock, clock>>

AppendStep(t) == LockChainScope(t) \/ PreviousChainHash(t) \/ NextChainSequence(t) \/ CommitAppend(t)

ChainNext ==
    \/ \E t \in Txns : \E s \in Scopes, i \in Ids : Begin(t, s, i)
    \/ \E t \in Txns : AppendStep(t)
    \/ \E t \in Txns : Rollback(t)
    \/ Tick
    \/ \E o \in Orgs, since \in Times : SelectRecords(o, since)
    \/ CheckLinks
    \/ RespondVerified

ChainSpec == ChainInit /\ [][ChainNext]_chainVars

(* A request runs to its end unless its worker dies, and PostgreSQL grants *)
(* a row lock in arrival order, so a waiter is not overtaken for ever.     *)
ChainFairness ==
    \A t \in Txns :
        /\ SF_chainVars(LockChainScope(t))
        /\ WF_chainVars(PreviousChainHash(t) \/ NextChainSequence(t) \/ CommitAppend(t))

ChainFairSpec == ChainSpec /\ ChainFairness

-----------------------------------------------------------------------------
(* Every variable has its type, and the lock table names a transaction     *)
(* that is past _lock_chain_scope for that organisation.                   *)
ChainTypeOK ==
    /\ evidence \subseteq Row
    /\ tx \in [Txns -> Transaction]
    /\ rowLock \in [Orgs -> Txns \cup {NoTxn}]
    /\ clock \in Times
    /\ ver \in Verification

(* _lock_chain_scope (finding G01): however appends interleave, the rows   *)
(* of an organisation form one unforked chain.  No two rows share a        *)
(* sequence, the first row has no predecessor, and every other row carries *)
(* the hash of the row whose sequence is one lower.                        *)
ChainLinear ==
    \A o \in Orgs : \A r \in Rows(o) :
        /\ \A q \in Rows(o) : q.sequence = r.sequence => q = r
        /\ \/ r.sequence = 1 /\ r.previous_hash = NoId
           \/ \E q \in Rows(o) : /\ q.sequence + 1 = r.sequence
                                /\ q.id = r.previous_hash

(* verify_chain over the whole chain never reports a broken link for an    *)
(* organisation whose rows only append_evidence wrote, even though it      *)
(* reads the table twice while other transactions append and commit.       *)
FullVerificationIntact ==
    ver.pc = "done" /\ ver.since = 0 => ver.broken_links = {}

(* verify_chain's purpose: in every reachable chain, deleting any row but  *)
(* the last, or exchanging the positions of two rows, leaves a link that a *)
(* full verification reports.                                              *)
TamperEvident ==
    \A o \in Orgs : \A r \in Rows(o) :
        /\ r \notin Highest(Rows(o)) =>
               LET left == Rows(o) \ {r} IN BrokenLinks(left, left) # {}
        /\ \A q \in Rows(o) \ {r} :
               LET swapped == (Rows(o) \ {r, q}) \cup
                                 {[r EXCEPT !.sequence = q.sequence],
                                  [q EXCEPT !.sequence = r.sequence]}
               IN  BrokenLinks(swapped, swapped) # {}

(* The claim of verify_chain's docstring for a range: a broken link means  *)
(* a deleted or reordered row, so a range of an untouched chain has none.  *)
RangeVerificationIntact ==
    ver.pc = "done" => ver.broken_links = {}

(* No append waits for ever on the chain lock: a transaction that has      *)
(* begun ends, committed or rolled back.                                   *)
AppendCompletes ==
    \A t \in Txns : tx[t].pc # "idle" ~> tx[t].pc = "idle"

=============================================================================
