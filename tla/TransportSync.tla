--------------------------- MODULE TransportSync ----------------------------
(***************************************************************************)
(* The transport subscription sync (workers/transport_sync.py with the     *)
(* subscription provider and its resolver).  A sync fetches the provider   *)
(* document, writes it to the cache file, and commits the inventory with a *)
(* receipt that proves the bytes: their hash and the revision of the       *)
(* secret they were fetched with.  File and receipt are two stores: a sync *)
(* that ends between the two writes leaves a new file under an old receipt.*)
(* The provider object a process resolved first keeps the revision it was  *)
(* bound to until the process restarts.                                    *)
(***************************************************************************)
EXTENDS Integers

CONSTANTS
    Syncers,      \* processes that run the transport refresh task
    Feeds,        \* byte strings a subscription may answer with
    MaxSource,    \* revisions of the subscription URL secret
    NULL

Revisions == 1..MaxSource
Receipts  == [hash : Feeds, rev : Revisions]

ASSUME SourceAssumption == MaxSource \in Nat \ {0}
ASSUME FeedAssumption   == NULL \notin Feeds \cup Receipts \cup Revisions

VARIABLES
    source,    \* secrets.revision of the subscription URL
    cache,     \* bytes of the provider cache file
    receipt,   \* the committed materialization receipt
    bound,     \* secret revision the process's provider was resolved with
    stage,     \* where the process stands in refresh_provider_inventory
    fetched    \* bytes the sync under way wrote (_last_content_hash)

syncVars == <<source, cache, receipt, bound, stage, fetched>>

SyncTypeOK ==
    /\ source \in Revisions
    /\ cache \in Feeds \cup {NULL}
    /\ receipt \in Receipts \cup {NULL}
    /\ bound \in [Syncers -> Revisions \cup {NULL}]
    /\ stage \in [Syncers -> {"idle", "resolved", "written"}]
    /\ fetched \in [Syncers -> Feeds \cup {NULL}]

SyncInit ==
    /\ source = 1
    /\ cache = NULL
    /\ receipt = NULL
    /\ bound = [s \in Syncers |-> NULL]
    /\ stage = [s \in Syncers |-> "idle"]
    /\ fetched = [s \in Syncers |-> NULL]

\* The subscription URL is replaced: the secret's revision grows.
RotateSource ==
    /\ source < MaxSource
    /\ source' = source + 1
    /\ UNCHANGED <<cache, receipt, bound, stage, fetched>>

\* resolve: a provider bound to another revision is refused for ever
\* (TRANSPORT_SECRET_REVISION_DRIFT), which changes nothing here.
Resolve(s) ==
    /\ stage[s] = "idle"
    /\ bound[s] \in {NULL, source}
    /\ bound' = [bound EXCEPT ![s] = source]
    /\ stage' = [stage EXCEPT ![s] = "resolved"]
    /\ UNCHANGED <<source, cache, receipt, fetched>>

\* sync_nodes: the document is fetched, parsed, and replaces the cache file.
WriteCache(s) ==
    /\ stage[s] = "resolved"
    /\ \E f \in Feeds : /\ cache' = f
                        /\ fetched' = [fetched EXCEPT ![s] = f]
    /\ stage' = [stage EXCEPT ![s] = "written"]
    /\ UNCHANGED <<source, receipt, bound>>

\* The inventory and the receipt, in one transaction.
CommitReceipt(s) ==
    /\ stage[s] = "written"
    /\ receipt' = [hash |-> fetched[s], rev |-> bound[s]]
    /\ stage' = [stage EXCEPT ![s] = "idle"]
    /\ fetched' = [fetched EXCEPT ![s] = NULL]
    /\ UNCHANGED <<source, cache, bound>>

\* The fetch, the parse, the file or the database fails; the task rolls back,
\* marks the provider DEGRADED and goes on with the next one.
SyncFails(s) ==
    /\ stage[s] # "idle"
    /\ stage' = [stage EXCEPT ![s] = "idle"]
    /\ fetched' = [fetched EXCEPT ![s] = NULL]
    /\ UNCHANGED <<source, cache, receipt, bound>>

\* The process dies, or is restarted: its providers are gone.
SyncRestart(s) ==
    /\ bound[s] # NULL
    /\ bound' = [bound EXCEPT ![s] = NULL]
    /\ stage' = [stage EXCEPT ![s] = "idle"]
    /\ fetched' = [fetched EXCEPT ![s] = NULL]
    /\ UNCHANGED <<source, cache, receipt>>

\* Mutant: the loader trusts the file it finds.
VerifiedByFile == receipt # NULL /\ cache # NULL

\* verify_materialization: the receipt is there, was made with the current
\* secret, and its hash is that of the file (identity and freshness can fail
\* at any time and are part of the loader's failures).
Verified ==
    /\ receipt # NULL
    /\ receipt.rev = source
    /\ cache = receipt.hash
=============================================================================
