------------------------- MODULE MCIntegrationTrust -------------------------
EXTENDS IntegrationTrust, TLC

Symmetry == Permutations(Contracts) \cup Permutations(Bindings) \cup Permutations(Workers)

\* Requests that share no row commute: a second request starts only when it
\* meets the first.  Those on an identity read nothing else, and the others
\* ask of it only whether it is active, so that races of the former are looked
\* for beside no other rows, and races of the latter beside an identity that
\* has one certificate and is active or not active yet.
MeetOrWait ==
    \A w \in Workers :
        request[w] = Idle /\ request'[w] # Idle /\ Others(w) # {} =>
            /\ \E r \in Others(w) : r \cap request'[w].rows # {}
            /\ IF request'[w].row \in Identities
               THEN \A b \in Bindings, c \in Contracts : ~BindingFound(b) /\ ~ContractFound(c)
               ELSE \A i \in Identities : /\ identity[i].status \in {"absent", "registered", "active"}
                                          /\ Len(identity[i].certificates) <= 1

\* Every sequence of requests one at a time, up to and through one race: the
\* search stops where the requests of the race have all been answered, and
\* after an answer with HTTP 500, which leaves the tables as they were.
OneRace == (overlapped = {} /\ faults = {}) \/ \E w \in Workers : request[w] # Idle
=============================================================================
